------------------------------ MODULE MCShell -------------------------------
(* Small instances of Shell. *)
EXTENDS Shell

MCPrograms == {"ls", "locked", "nosuch"}
MCTries == [p \in MCPrograms |-> CASE p = "ls"     -> <<"ENOENT", "ok">>
                                   [] p = "locked" -> <<"EACCES", "ok">>
                                   [] p = "nosuch" -> <<"ENOENT", "ENOENT">>]
MCCodes == {0, 2}
MCFiles == {"in", "out", "ut"}
MCShorn == [f \in MCFiles |-> "ut"]

To(op, f) == [op |-> op, file |-> f, tight |-> FALSE]
Word(w) == [word |-> w, redirs |-> <<>>]
With(w, redirs) == [word |-> w, redirs |-> redirs]

Usual == {Blank, Word("cd"), Word("locked"), Word("nosuch"),
          With("ls", <<To("<", "in"), To(">", "out")>>),
          With("ls", <<To(">>", "out"), To("2>", "ut")>>),
          With("nosuch", <<To("2>>", "out")>>)}
Tight == [op |-> ">", file |-> "out", tight |-> TRUE]
Rare  == {Word("bad"), With("ls", <<To(">", "out"), To("<", "in")>>), With("ls", <<Tight>>)}
Leave == Word("exit")

Second == {Blank, Word("locked"), With("ls", <<To(">>", "out"), To("2>", "ut")>>)}

Ending    == {<<a, b, Leave>> : a \in Usual, b \in Second}
               \cup {<<Word("cd"), a, Leave>> : a \in Rare}
Open      == {<<a>> : a \in Usual}
MCScripts == Ending \cup Open

AllThere == [f \in MCFiles \cup {Garbage} |-> IF f = Garbage THEN Null ELSE <<>>]
NoneYet  == [f \in MCFiles \cup {Garbage} |-> Null]
MCDisks  == {AllThere, NoneYet}

Interactively == {"terminal"}
Anyhow        == {"terminal", "other"}
NotFiles      == {"terminal", "pipe"}
FromFile      == {"file"}

Missing == {<<Word("nosuch"), Word("cd"), Leave>>}
=============================================================================
