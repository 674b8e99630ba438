---------------------------- MODULE ReviewModels ----------------------------
(***************************************************************************)
(* COMP8085 project 2: reviews are cleaned and split into files to train,  *)
(* validate and test with, models are created from them and used later.    *)
(* What the programs keep is on disk, and any run may be interrupted       *)
(* between two files.  A review is a record; the models of the libraries   *)
(* are known by the rows they were made of, and the count of words that    *)
(* NB.py makes itself is modelled.                                         *)
(***************************************************************************)
EXTENDS Integers, SequencesExt, FiniteSetsExt

CONSTANTS
  Reviews,        \* the lines of the original file: [stars, votes, text, na]
  Commands,       \* what the user may ask: [action, model, attribute, test_set]
  Tiny,           \* a floating-point number below 1/Tiny is 0
  MaxRuns, MaxInterrupts   \* bounds: runs of main, runs that are interrupted

ASSUME ReviewAssumption ==
  /\ \A i \in DOMAIN Reviews : Reviews[i].stars \in 1 .. 5
  /\ Tiny \in Nat \ {0} /\ MaxRuns \in Nat /\ MaxInterrupts \in Nat

VARIABLES
  untouched,      \* the rows of yelp_review_untouched.csv, << >> without a file
  files,          \* of each other file on disk the rows it was made of
  stage,          \* "idle", "split", "write"
  toWrite,        \* the files the run has still to write, and their rows
  predicted,      \* what stars() predicted last, by row of the test data
  reported,       \* the attributes the last run reported on
  runs, interrupts

reviewVars == <<untouched, files, stage, toWrite, predicted, reported, runs, interrupts>>

Data(part) == <<"data", part>>
OtherFeatures == <<"cool", "funny", "useful">>

ReviewInit ==
  /\ untouched = << >> /\ files = << >> /\ stage = "idle" /\ toWrite = << >>
  /\ predicted = << >> /\ reported = {} /\ runs = 0 /\ interrupts = 0

-----------------------------------------------------------------------------
(* process.py                                                              *)

(* Votes that are missing (-1) are 0; one is added, and five are enough.   *)
AddedAndCapped(votes) == Min({5, 1 + Max({0, votes})})
save_to_csv ==
  LET kept == SelectSeq(Reviews, LAMBDA r : r.text # << >>)
  IN [n \in DOMAIN kept |-> [kept[n] EXCEPT !.votes = [a \in DOMAIN @ |-> AddedAndCapped(@[a])]]]

(* The cleaned reviews are appended to what the file has.                  *)
clean_json ==
  /\ stage = "idle" /\ runs < MaxRuns
  /\ Data("train") \notin DOMAIN files
  /\ untouched' = untouched \o save_to_csv
  /\ stage' = "split" /\ runs' = runs + 1 /\ reported' = {}
  /\ UNCHANGED <<files, toWrite, predicted, interrupts>>

(* Fault: what is validated with is not taken out of the test data.        *)
split_dataOverlapping ==
  /\ stage = "split"
  /\ LET rows == DOMAIN untouched
     IN \E train \in kSubset((7 * Cardinality(rows)) \div 10, rows) :
        \E validate \in kSubset(Cardinality(rows \ train) \div 2, rows \ train) :
          toWrite' = <<[file |-> Data("train"), rows |-> train],
                       [file |-> Data("test"), rows |-> rows \ train],
                       [file |-> Data("validate"), rows |-> validate]>>
  /\ stage' = "write"
  /\ UNCHANGED <<untouched, files, predicted, reported, runs, interrupts>>

(* Seven rows of ten to train with, half of the others to validate with.   *)
split_data ==
  /\ stage = "split"
  /\ LET rows == DOMAIN untouched
     IN \E train \in kSubset((7 * Cardinality(rows)) \div 10, rows) :
        \E validate \in kSubset(Cardinality(rows \ train) \div 2, rows \ train) :
          toWrite' = <<[file |-> Data("train"), rows |-> train],
                       [file |-> Data("test"), rows |-> rows \ (train \cup validate)],
                       [file |-> Data("validate"), rows |-> validate]>>
  /\ stage' = "write"
  /\ UNCHANGED <<untouched, files, predicted, reported, runs, interrupts>>

WriteFile ==
  /\ stage = "write"
  /\ LET file == Head(toWrite).file
     IN files' = [f \in DOMAIN files \cup {file} |-> IF f = file THEN Head(toWrite).rows ELSE files[f]]
  /\ toWrite' = Tail(toWrite)
  /\ stage' = IF Len(toWrite) = 1 THEN "idle" ELSE "write"
  /\ UNCHANGED <<untouched, predicted, reported, runs, interrupts>>

(* A run is interrupted, and what it had not written is lost.              *)
Killed ==
  /\ stage # "idle" /\ interrupts < MaxInterrupts
  /\ stage' = "idle" /\ toWrite' = << >> /\ interrupts' = interrupts + 1
  /\ UNCHANGED <<untouched, files, predicted, reported, runs>>

-----------------------------------------------------------------------------
(* NB.py.  Probabilities are fractions <<numerator, denominator>>; alpha   *)
(* is 9/10.                                                                *)

Labels == 1 .. 5
TextOf(row)  == untouched[row].text
Readable(rows) == {row \in rows : ~untouched[row].na}
RatedAs(rows, l) == {row \in Readable(rows) : untouched[row].stars = l}
Occurs(word, row) == Cardinality({n \in DOMAIN TextOf(row) : TextOf(row)[n] = word})

(* What stars() counts: blanks that follow each other are a word here, and *)
(* a text that reads as a missing value is passed over.                    *)
Counted(rows) ==
  LET words == UNION {ToSet(TextOf(row)) : row \in Readable(rows)}
  IN [labelCount |-> [l \in Labels |-> Cardinality(RatedAs(rows, l))],
      labelTotal |-> Cardinality(Readable(rows)),
      labelWordsCount |-> [l \in Labels |-> MapThenSumSet(LAMBDA row : Len(TextOf(row)), RatedAs(rows, l))],
      uniqueNumber |-> Cardinality(words),
      tenths |-> [l \in Labels |-> [w \in words |->
                    10 * MapThenSumSet(LAMBDA row : Occurs(w, row), RatedAs(rows, l)) + 9]]]

Times(p, numerator, denominator) ==
  IF p[1] * numerator * Tiny < p[2] * denominator THEN <<0, 1>> ELSE <<p[1] * numerator, p[2] * denominator>>
Less(p, q) == p[1] * q[2] < q[1] * p[2]

(* A word that was never seen is skipped; the first of the largest counts. *)
prediction(counted, text, na) ==
  LET words == SelectSeq(text, LAMBDA w : w # "" /\ w \in DOMAIN counted.tenths[1])
      Score(l) == FoldLeft(LAMBDA p, w : Times(p, counted.tenths[l][w],
                                               9 * counted.uniqueNumber + 10 * counted.labelWordsCount[l]),
                           <<counted.labelCount[l], counted.labelTotal>>, words)
      scores == [l \in Labels |-> Score(l)]
  IN IF na THEN 3
     ELSE FoldLeft(LAMBDA best, l : IF Less(scores[best], scores[l]) THEN l ELSE best, 1, <<2, 3, 4, 5>>)

-----------------------------------------------------------------------------
(* main.py, and the models.                                                *)

(* With the files of the first run there, main obeys its command.          *)
MainRuns ==
  /\ stage = "idle" /\ runs < MaxRuns /\ runs' = runs + 1
  /\ untouched # << >> /\ Data("train") \in DOMAIN files
Have(needed) == needed \subseteq DOMAIN files
AllData == {Data("train"), Data("test"), Data("validate")}
From(names) == [n \in DOMAIN names |-> [file |-> names[n], rows |-> files[Data("train")]]]

Fails == UNCHANGED <<files, stage, toWrite, predicted>> /\ reported' = {}
Trains(names) ==
  /\ toWrite' = From(names) /\ stage' = IF names = << >> THEN "idle" ELSE "write"
  /\ reported' = {} /\ UNCHANGED files

(* stars() trains and predicts with its own counts, and then keeps the     *)
(* model of the library and its words in two files.                        *)
stars ==
  /\ predicted' = LET counted == Counted(files[Data("train")])
                  IN [row \in files[Data("test")] |-> prediction(counted, TextOf(row), untouched[row].na)]
  /\ Trains(<<<<"MultinomialNB", "stars">>, <<"count_vectorizer", "stars">>>>)

(* The report on one of the other features makes the models of all three.  *)
funny_useful_cool_probalistic_regression_report ==
  /\ Trains(FlattenSeq([n \in 1 .. 3 |-> <<<<"bayesian_ridge", OtherFeatures[n]>>,
                                         <<"count_vectorizer", OtherFeatures[n]>>>>]))
  /\ UNCHANGED predicted

create_train_model_NB(attribute) ==
  IF ~Have(AllData) THEN Fails
  ELSE IF attribute = "stars" THEN stars ELSE funny_useful_cool_probalistic_regression_report

create_train_model_SVM(attribute) == Trains(<<<<"SVM", attribute>>>>) /\ UNCHANGED predicted

(* read_file adds one and caps again what save_to_csv did before, and      *)
(* nothing is made of the scores that start from 0: a target of 5 has no   *)
(* class and ends the run.  The optimizer trains another model than the    *)
(* one that is saved, so that no epoch after the first is better.          *)
TargetOf(row, attribute) ==
  IF attribute = "stars" THEN untouched[row].stars ELSE AddedAndCapped(untouched[row].votes[attribute])
create_train_model_BERT(attribute) ==
  IF ~Have(AllData)
     \/ \E row \in files[Data("train")] \cup files[Data("validate")] : TargetOf(row, attribute) > 4
  THEN Fails
  ELSE /\ UNCHANGED predicted
       /\ \E better \in BOOLEAN :
            Trains(IF better THEN <<<<"bert_model.bin", attribute>>, <<"bert_model.pkl", attribute>>>> ELSE << >>)

create_function_by_key(command) ==
  /\ MainRuns /\ command.action = "create"
  /\ CASE command.model = "NB"   -> create_train_model_NB(command.attribute)
       [] command.model = "SVM"  -> create_train_model_SVM(command.attribute)
       [] command.model = "BERT" -> create_train_model_BERT(command.attribute)
  /\ UNCHANGED <<untouched, interrupts>>

(* NB goes by the name it is given for a file and reads the test data      *)
(* whatever it is; the others by the attribute.  The report on BERT fails  *)
(* unless there are five ratings among the predicted, which start from 0,  *)
(* and the given, which start from 1.                                      *)
Needed(command) ==
  CASE command.model = "NB" /\ command.test_set = "stars" ->
         {<<"MultinomialNB", "stars">>, <<"count_vectorizer", "stars">>, Data("test")}
    [] command.model = "NB" /\ command.test_set # "stars" ->
         {Data("test")} \cup ({"bayesian_ridge", "count_vectorizer"} \X ToSet(OtherFeatures))
    [] command.model = "SVM"  -> {<<"SVM", command.attribute>>, Data(command.test_set)}
    [] command.model = "BERT" -> {<<"bert_model.bin", command.attribute>>, Data(command.test_set)}
use_function_by_key(command) ==
  /\ MainRuns /\ command.action = "use"
  /\ \/ Have(Needed(command)) /\ reported' = {f[2] : f \in Needed(command)} \ {"test"}
     \/ (Have(Needed(command)) => command.model = "BERT") /\ reported' = {}
  /\ UNCHANGED <<untouched, files, stage, toWrite, predicted, interrupts>>

ReviewNext ==
  \/ clean_json \/ split_data \/ WriteFile \/ Killed
  \/ \E command \in Commands : create_function_by_key(command) \/ use_function_by_key(command)

-----------------------------------------------------------------------------

(* What runs leave that are interrupted anywhere.  The cleaned file holds  *)
(* whole copies of the reviews, one more for each run that was interrupted *)
(* before its training data, and none is added once these are there.  The  *)
(* parts share no row, and together they are all rows; so no review is     *)
(* both trained and tested with while there is one copy.  The data, and a  *)
(* model with its words, are there in the order in which they are written, *)
(* to the end if no run was interrupted; and all models are of one data.   *)
Parts == <<Data("train"), Data("test"), Data("validate")>>
WrittenInOrder ==
  {Parts, <<<<"MultinomialNB", "stars">>, <<"count_vectorizer", "stars">>>>} \cup
    {<<<<"bayesian_ridge", a>>, <<"count_vectorizer", a>>>> : a \in ToSet(OtherFeatures)}
RowsOf(part) == IF part \in DOMAIN files THEN files[part] ELSE {}
ReviewsOf(part) == {untouched[row] : row \in RowsOf(part)}
ReviewsKeptApart ==
  /\ \E copies \in 0 .. interrupts + 1 :
       /\ untouched = FlattenSeq([n \in 1 .. copies |-> save_to_csv])
       /\ copies <= 1 => ReviewsOf(Data("train")) \cap ReviewsOf(Data("test")) = {}
  /\ \A m, n \in DOMAIN Parts : m # n => RowsOf(Parts[m]) \cap RowsOf(Parts[n]) = {}
  /\ Have(AllData) => UNION {RowsOf(part) : part \in AllData} = DOMAIN untouched
  /\ \A names \in WrittenInOrder :
       LET there == {n \in DOMAIN names : names[n] \in DOMAIN files}
       IN /\ there = 1 .. Cardinality(there)
          /\ interrupts = 0 /\ stage = "idle" => there \in {{}, DOMAIN names}
  /\ \A f \in DOMAIN files : f[1] # "data" => files[f] = files[Data("train")]

(* The prediction is the first of the most likely ratings: that with the   *)
(* largest product of its share of the reviews and of its share, smoothed, *)
(* of each word seen before.  Only if no product is a number any more it   *)
(* is 1, whatever the text says.                                           *)
Likelihood(rows, l, row) ==
  LET vocabulary == UNION {ToSet(TextOf(r)) : r \in Readable(rows)}
      known == {n \in DOMAIN TextOf(row) : TextOf(row)[n] \in vocabulary \ {""}}
      in == RatedAs(rows, l)
      length == MapThenSumSet(LAMBDA r : Len(TextOf(r)), in)
      Share(n) == 10 * MapThenSumSet(LAMBDA r : Occurs(TextOf(row)[n], r), in) + 9
  IN <<Cardinality(in) * MapThenFoldSet(LAMBDA x, y : x * y, 1, Share, LAMBDA S : CHOOSE n \in S : TRUE, known),
       Cardinality(Readable(rows)) * (9 * Cardinality(vocabulary) + 10 * length) ^ Cardinality(known)>>
AtLeastTiny(p) == p[1] * Tiny >= p[2]
PredictsMostLikely ==
  \A row \in DOMAIN predicted :
    LET likelihood == [l \in Labels |-> Likelihood(files[Data("train")], l, row)]
        chosen == predicted[row]
    IN IF untouched[row].na \/ \A l \in Labels : ~AtLeastTiny(likelihood[l])
       THEN chosen = IF untouched[row].na THEN 3 ELSE 1
       ELSE \A l \in Labels : /\ ~Less(likelihood[chosen], likelihood[l])
                              /\ l < chosen => Less(likelihood[l], likelihood[chosen])

=============================================================================
