----------------------------- MODULE MCPrograms -----------------------------
(***************************************************************************)
(* Ten programs on small instances: those whose actors share a process, a *)
(* connection or a system (the two threads of assignment 4, the TLS echo,  *)
(* the traffic light, the process lister and its list), and those that     *)
(* work on data alone (recommendations, shelves, images, letters, reviews  *)
(* and their models).  They share nothing, and a behaviour is one of       *)
(* theirs: subject says of which.                                          *)
(***************************************************************************)
EXTENDS AliceBob, TlsEcho, TrafficLight, ProcessList,
        BooksAndShelves, Steganography, Frequency, ReviewModels

VARIABLE subject

programVars == <<listVars, handoffVars, echoVars, lightVars, processVars,
                 recommendationVars, shelfVars, stegoVars, frequencyVars, reviewVars, subject>>

-----------------------------------------------------------------------------

SomeLines == <<"a", "", "b", "a">>

(* A file that fits into the buffers of a connection, one that does not,   *)
(* and one that is not there.                                              *)
SomeClients == {"c1", "c2", "c3"}
SomeChunks == [c1 |-> 2, c2 |-> 5, c3 |-> -1]

(* Two programs; the first has two sockets with numbers that end alike.    *)
SomeFds ==
  [a |-> <<[fd |-> 0, socket |-> FALSE], [fd |-> 3, socket |-> TRUE], [fd |-> 13, socket |-> TRUE]>>,
   b |-> <<[fd |-> 1, socket |-> FALSE], [fd |-> 4, socket |-> TRUE]>>]
SomeLsof ==
  [a |-> <<[fd |-> 3, words |-> {"TCP"}], [fd |-> 13, words |-> {"UDP", "type"}]>>,
   b |-> <<[fd |-> 4, words |-> {"TCP"}], [fd |-> 5, words |-> {"UDP"}]>>]

(* A leap day, the end of a year that is crossed, and a thousand days.     *)
Borrowed(patron, book, from, to) ==
  [patronId |-> patron, bookISBN |-> book, checkoutDate |-> from, returnDate |-> to]
SomeRecords ==
  {Borrowed("p", 1, <<2024, 2, 28>>, <<2024, 3, 1>>), Borrowed("p", 3, <<2024, 1, 1>>, <<2024, 3, 4>>),
   Borrowed("q", 2, <<2023, 1, 30>>, <<2023, 4, 2>>), Borrowed("q", 5, <<2023, 5, 5>>, <<2023, 5, 5>>),
   Borrowed("r", 4, <<2022, 1, 1>>, <<2024, 9, 27>>), Borrowed("r", 2, <<2023, 6, 1>>, <<2023, 6, 12>>),
   Borrowed("r", 6, <<2021, 3, 1>>, <<2023, 11, 26>>), Borrowed("q", 1, <<2023, 12, 20>>, <<2024, 1, 5>>)}
SomeAttributes == [title |-> <<3, 1, 2, 2, 1>>, author |-> <<1, 1, 1, 2, 2>>]

(* Rows of nine bytes and three behind them; rows of twelve; and pixels of *)
(* four bytes, for which the program leaves out bytes there are none of.   *)
Bitmap(w, depth, rows) ==
  LET whole == ((w * depth + 31) \div 32) * 4
  IN [width |-> w, bpp |-> depth, imageSize |-> whole * rows,
      pixels |-> [n \in 1 .. whole * rows |-> (37 * n) % 256]]
SomeCarriers == {Bitmap(3, 24, 9), Bitmap(3, 24, 5), Bitmap(4, 24, 5), Bitmap(2, 32, 8)}
SomeHidden ==
  {[name |-> <<97>>, bytes |-> <<>>], [name |-> <<97>>, bytes |-> <<200>>], [name |-> <<98, 46>>, bytes |-> <<0, 255>>]}

SomeTexts == {<<>>, <<4, 26, 4, 19>>, <<25, 0, 13>>}

(* Five reviews: one with two blanks in a row, one that reads as a missing *)
(* value and one that is empty; votes of none, some and many.              *)
Review(rating, cool, funny, words) ==
  [stars |-> rating, votes |-> [cool |-> cool, funny |-> funny, useful |-> 0], text |-> words,
   na |-> words = <<"null">>]
SomeReviews ==
  <<Review(1, 2, -1, <<"bad", "food">>), Review(5, 0, 7, <<"good", "", "food">>), Review(5, 1, 0, <<"good">>),
    Review(4, 0, 1, <<"null">>), Review(3, 0, 0, <<>>)>>
Asked(action, model, attribute, test_set) ==
  [action |-> action, model |-> model, attribute |-> attribute, test_set |-> test_set]
SomeCommands ==
  {Asked("create", "NB", "stars", "test"), Asked("create", "NB", "funny", "test"),
   Asked("create", "SVM", "cool", "test"), Asked("create", "BERT", "cool", "test"),
   Asked("create", "BERT", "stars", "test"), Asked("use", "NB", "useful", "stars"),
   Asked("use", "NB", "stars", "test"), Asked("use", "SVM", "cool", "test"),
   Asked("use", "BERT", "cool", "test")}

-----------------------------------------------------------------------------

(* The others start with one of their initial states.                      *)
Init ==
  /\ subject \in {"list", "handoff", "echo", "light", "processes",
                  "recommendation", "shelves", "images", "letters", "reviews"}
  /\ ListInit /\ HandoffInit /\ EchoInit /\ LightInit /\ ProcessInit
  /\ RecommendationInit /\ ShelfInit /\ StegoInit /\ FrequencyInit /\ ReviewInit
  /\ subject # "processes" => world = [p \in Pids |-> "a"]
  /\ subject # "shelves" => records = {}
  /\ subject # "images"  => carrier = CHOOSE c \in Carriers : TRUE
  /\ subject # "letters" => /\ inFile = outFile /\ inFile = CHOOSE f \in FileNames : TRUE
                            /\ texts = [f \in FileNames |-> <<>>]

SharedVars == <<listVars, handoffVars, echoVars, lightVars, processVars>>
DataVars   == <<recommendationVars, shelfVars, stegoVars, frequencyVars, reviewVars>>

Runs(name)    == subject = name /\ UNCHANGED <<subject, DataVars>>
HandoffOnly == UNCHANGED <<listVars, echoVars, lightVars, processVars>>
EchoOnly    == UNCHANGED <<listVars, handoffVars, lightVars, processVars>>
LightOnly   == UNCHANGED <<listVars, handoffVars, echoVars, processVars>>

ListStep    == Runs("list") /\ ListNext /\ UNCHANGED <<handoffVars, echoVars, lightVars, processVars>>
HandoffStep == Runs("handoff") /\ HandoffNext /\ HandoffOnly
EchoStep    == Runs("echo") /\ EchoNext /\ EchoOnly
LightStep   == Runs("light") /\ LightNext /\ LightOnly
ProcessStep == Runs("processes") /\ ProcessNext /\ UNCHANGED <<listVars, handoffVars, echoVars, lightVars>>

Computes(name) == subject = name /\ UNCHANGED <<subject, SharedVars>>

RecommendationStep ==
  Computes("recommendation") /\ RecommendationNext /\ UNCHANGED <<shelfVars, stegoVars, frequencyVars, reviewVars>>
ShelfStep     == Computes("shelves") /\ ShelfNext /\ UNCHANGED <<recommendationVars, stegoVars, frequencyVars, reviewVars>>
StegoStep     == Computes("images") /\ StegoNext /\ UNCHANGED <<recommendationVars, shelfVars, frequencyVars, reviewVars>>
FrequencyStep == Computes("letters") /\ FrequencyNext /\ UNCHANGED <<recommendationVars, shelfVars, stegoVars, reviewVars>>
ReviewStep    == Computes("reviews") /\ ReviewNext /\ UNCHANGED <<recommendationVars, shelfVars, stegoVars, frequencyVars>>

Next ==
  \/ ListStep \/ HandoffStep \/ EchoStep \/ LightStep \/ ProcessStep
  \/ RecommendationStep \/ ShelfStep \/ StegoStep \/ FrequencyStep \/ ReviewStep

(* The fairness of each program, while it is the subject.                  *)
Fairness ==
  /\ WF_programVars(Runs("handoff") /\ BobStep /\ HandoffOnly)
  /\ WF_programVars(Runs("handoff") /\ AliceStep /\ HandoffOnly)
  /\ \A c \in Clients : WF_programVars(Runs("echo") /\ ClientStep(c) /\ EchoOnly)
  /\ WF_programVars(Runs("echo") /\ ServerStep /\ EchoOnly)
  /\ WF_programVars(Runs("light") /\ LightNext /\ LightOnly)

Spec == Init /\ [][Next]_programVars /\ Fairness

-----------------------------------------------------------------------------

ProgramsTypeOK ==
  /\ HandoffTypeOK /\ EchoTypeOK /\ ProcessTypeOK
  /\ RecommendationTypeOK /\ ShelfTypeOK /\ StegoTypeOK /\ FrequencyTypeOK

(* The lists of the process lister, and the pages it makes from them.      *)
ListsAndPages == ListIsSequence /\ PagesAreTrue /\ PrintedInOrder


(* Reviews are kept apart through interrupted runs, and ratings predicted. *)
RatingsFollowReviews == ReviewsKeptApart /\ PredictsMostLikely

(* What was put away is found again: the file in the image; and under the  *)
(* key that was used the letters of a text are as likely as they were.     *)
SecretsAreFound == HiddenIsFound /\ KeyExplainsText

(* The liveness of each program, while it is the subject.                  *)
LinesArePrinted == subject = "handoff" => AllHandedOver
ClientsEnd == subject = "echo" => EchoEnds
LightCycles == LightTurns /\ (subject = "light" => LightRuns)
ProgramsEnd == LinesArePrinted /\ ClientsEnd /\ LightCycles

=============================================================================
