------------------------------ MODULE MCCommand ------------------------------
(* Processes of the command that start at any time, so that one of them can   *)
(* be the second run of a service whose first run was killed.                 *)
EXTENDS Command

CONSTANTS p1, p2, p3

MCProcesses == {p1, p2, p3}

\* Three processes that load the identity, or two and what becomes of one of them.
MCSetups == {[processes |-> MCProcesses, runners |-> {}],
             [processes |-> {p1, p2}, runners |-> {p1}]}

Name(label, form) == [label |-> label, form |-> form]
Arg(kind, name, ephemeral, flag) ==
    [kind |-> kind, name |-> name, ephemeral |-> ephemeral, identityFlag |-> flag]

\* A requested name or none, in two spellings; an ephemeral run; what is refused.
MCArgs == {Arg("run", NoName, FALSE, FALSE), Arg("run", Name("a", "upperCase"), FALSE, TRUE),
           Arg("run", Name("b", "padded"), TRUE, FALSE),
           Arg("run", Name("b", "dotted"), TRUE, FALSE), Arg("run", NoName, TRUE, TRUE),
           Arg("badUsage", NoName, FALSE, FALSE), Arg("help", NoName, FALSE, FALSE)}

Stored(name, private, public) ==
    [json |-> TRUE, name |-> name, privateKey |-> private, publicKey |-> public, address |-> None]

\* An identity of another tool without the optional fields, one whose public key
\* is not its own, and one with a mnemonic only.
MCExisting == {Stored(Name("a", "upperCase"), "old key", None),
               Stored(Name("a", "plain"), "old key", "other key"), Stored(Name("a", "plain"), None, None)}
=============================================================================
