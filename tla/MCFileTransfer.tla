--------------------------- MODULE MCFileTransfer ---------------------------
(* Small instances of FileTransfer; a client's name is its address. *)
EXTENDS FileTransfer

Txt(n, s) == [name |-> n, size |-> s, long |-> FALSE]

OneClient  == {"c1"}
TwoClients == {"c1", "c2"}
ThreeClients == {"c1", "c2", "c3"}

Mixed == [c \in ThreeClients |->
            CASE c = "c1" -> <<Txt("a", 5), Txt("b", 1)>>
              [] c = "c2" -> <<Txt("a", 2), Txt("b", 0)>>
              [] c = "c3" -> <<>>]
OneFileEach  == [c \in ThreeClients |-> <<Txt("a", 1)>>]
TwoFilesEach == [c \in TwoClients |-> <<Txt("a", 2), Txt("b", 1)>>]
OneFile      == [c \in OneClient |-> <<Txt("a", 2)>>]
FirstEmpty   == [c \in OneClient |-> <<Txt("a", 0), Txt("b", 1)>>]
LongName     == [c \in OneClient |-> <<[name |-> "a_long_name.txt", size |-> 1, long |-> TRUE]>>]

Here       == <<>>
Absolutely == <<"/", "srv">>
Relative   == <<"srv">>
Nobody     == {}
TheFirst   == {"c1"}

(* The run that checks the promises is one that they are made for. *)
ASSUME MixedIsOrderly == Files = Mixed => Orderly
=============================================================================
