--------------------------- MODULE ExtractionProofs ---------------------------
(***************************************************************************)
(* What holds of Extraction for any number of requests, pages and ways of  *)
(* reading them.                                                           *)
(***************************************************************************)
EXTENDS Extraction, SequenceTheorems, TLAPS

-----------------------------------------------------------------------------
(***************************************************************************)
(* Texts and the fields found in them.                                     *)
(***************************************************************************)

\* The first two elements of a sequence are a sequence of the same elements.
LEMMA FirstTwoType ==
    ASSUME NEW S, NEW q \in Seq(S)
    PROVE  FirstTwo(q) \in Seq(S)
<1>1. Len(q) \in Nat
    OBVIOUS
<1>2. CASE Len(q) < 2
    BY <1>1, <1>2, SubSeqProperties DEF FirstTwo
<1>3. CASE ~(Len(q) < 2)
    BY <1>1, <1>3, SubSeqProperties DEF FirstTwo
<1>4. QED BY <1>2, <1>3

\* An F is one of the values wherever it is read.
LEMMA FirstValuesType ==
    ASSUME NEW t \in Text, NEW p \in Piece
    PROVE  FirstValues(t, p) \in [Kinds -> Maybe]
<1>1. t.first \in [Kinds -> Maybe] /\ p.value \in [Kinds -> Maybe]
    BY DEF Text, Piece
<1>2. QED BY <1>1 DEF FirstValues, FirstOf

\* A text with a piece more is a text.
LEMMA PlusType ==
    ASSUME NEW t \in Text, NEW p \in Piece
    PROVE  /\ Plus(t, p) \in Text
           /\ Plus(t, p).tagged = t.tagged
           /\ Plus(t, p).labels = t.labels \cup p.labels
           /\ Plus(t, p).dates = FirstTwo(t.dates \o p.dates)
<1>1. t.dates \in Seq(Dates) /\ p.dates \in Seq(Dates)
    BY DEF Text, Piece
<1>2. t.dates \o p.dates \in Seq(Dates)
    BY <1>1
<1>3. FirstTwo(t.dates \o p.dates) \in Seq(Dates)
    BY <1>2, FirstTwoType
<1>4. t.labels \cup p.labels \in SUBSET Labels /\ t.tagged \in [Tags -> Piece \cup {None}]
    BY DEF Text, Piece
<1>5. QED BY <1>3, <1>4, FirstValuesType DEF Plus, Text

\* A text with a tagged line more is a text.
LEMMA PlusTaggedType ==
    ASSUME NEW t \in Text, NEW p \in Piece, NEW r \in Tags
    PROVE  /\ PlusTagged(t, r, p) \in Text
           /\ PlusTagged(t, r, p).tagged
                  = [t.tagged EXCEPT ![r] = FirstOf(t.tagged[r], p)]
           /\ PlusTagged(t, r, p).labels = t.labels \cup p.labels
           /\ PlusTagged(t, r, p).dates = FirstTwo(t.dates \o p.dates)
<1> DEFINE u == Plus(t, p)
           g == [t.tagged EXCEPT ![r] = FirstOf(t.tagged[r], p)]
<1>1. u \in Text /\ u.tagged = t.tagged
      /\ u.labels = t.labels \cup p.labels /\ u.dates = FirstTwo(t.dates \o p.dates)
    BY PlusType
<1>2. PlusTagged(t, r, p) = [u EXCEPT !.tagged = g]
    BY DEF PlusTagged
<1>3. t.tagged \in [Tags -> Piece \cup {None}]
    BY DEF Text
<1>4. g \in [Tags -> Piece \cup {None}]
    BY <1>3 DEF FirstOf
<1> HIDE DEF u, g
<1>5. QED BY <1>1, <1>2, <1>4 DEF Text, g

\* The fields found in a text have their types.
LEMMA ParseType ==
    ASSUME NEW t \in Text
    PROVE  ParseIdentityText(t) \in Result
<1>1. \A k \in Kinds : t.first[k] \in Maybe
    BY DEF Text
<1>2. \A r \in Tags : t.tagged[r] = None \/ t.tagged[r] \in Piece
    BY DEF Text
<1>3. \A r \in Tags, k \in Kinds : TaggedValue(t, r, k) \in Maybe
    BY <1>2 DEF TaggedValue, Piece, Maybe
<1>4. \A r \in Tags : TaggedDate(t, r) \in Dates \cup {None}
    <2> SUFFICES ASSUME NEW r \in Tags, t.tagged[r] # None, t.tagged[r].dates # <<>>
                 PROVE  Head(t.tagged[r].dates) \in Dates
        BY DEF TaggedDate
    <2>1. t.tagged[r].dates \in Seq(Dates)
        BY <1>2 DEF Piece
    <2> QED
        BY <2>1
<1>5. t.dates \in Seq(Dates)
    BY DEF Text
<1>6. t.dates # <<>> => Head(t.dates) \in Dates /\ t.dates[Len(t.dates)] \in Dates
    BY <1>5
<1>7. {"date_of_birth", "expiry_date", "national_id", "name_english", "address_english",
       "common_name_english", "sex", "blood_group", "serial_number"} \subseteq Tags
    <2>1. /\ 1 \in 1..4 /\ 2 \in 1..4 /\ 3 \in 1..4 /\ 4 \in 1..4
          /\ "front" \in Sides /\ "back" \in Sides
        BY DEF Sides
    <2> QED
        BY <2>1 DEF Tags, Regions
<1>8. DateOfBirth(t) \in Dates \cup {None}
    BY <1>4, <1>6, <1>7 DEF DateOfBirth, FirstOf
<1>9. ExpiryDate(t) \in Dates \cup {None}
    <2>1. Len(t.dates) > 1 => t.dates # <<>>
        BY <1>5
    <2> QED
        BY <1>4, <1>6, <1>7, <2>1 DEF ExpiryDate, FirstOf
<1>10. CommonName(t) \in Maybe
    BY <1>1, <1>3, <1>7 DEF CommonName, FirstOf, Clean, Maybe, Kinds
<1>11. NameEnglish(t) \in Maybe
    BY <1>1, <1>3, <1>7, <1>10 DEF NameEnglish, FirstOf, Clean, Maybe, Kinds
<1>12. AddressEnglish(t) \in Maybe
    BY <1>1, <1>3, <1>7 DEF AddressEnglish, FirstOf, Clean, Maybe, Kinds
<1>13. /\ \A k \in {"national_id", "blood_group", "serial_number"} :
              FirstOf(TaggedValue(t, k, k), t.first[k]) \in Maybe
       /\ t.first["sex"] \in Maybe
    BY <1>1, <1>3, <1>7 DEF FirstOf, Kinds
<1>14. QED BY <1>8, <1>9, <1>10, <1>11, <1>12, <1>13 DEF ParseIdentityText, Result

-----------------------------------------------------------------------------
(***************************************************************************)
(* Type correctness.                                                       *)
(***************************************************************************)

\* What a command may read is a piece.
LEMMA ReadableType ==
    ASSUME NEW s \in Sides, NEW r \in Tags
    PROVE  /\ PageReadings[s] \subseteq Piece
           /\ RegionReadings[s][r] \subseteq Piece
BY ReadingsAssumption DEF ReadableOn

\* The regions of either side are tags.
LEMMA RegionsType ==
    ASSUME NEW s \in Sides
    PROVE  Regions[s] \in Seq(Tags)
<1>1. /\ {"national_id", "name_english", "sex", "date_of_birth", "address_english",
          "serial_number", "common_name_english", "blood_group", "expiry_date"}
            \subseteq Tags
    <2>1. /\ 1 \in 1..4 /\ 2 \in 1..4 /\ 3 \in 1..4 /\ 4 \in 1..4
          /\ "front" \in Sides /\ "back" \in Sides
        BY DEF Sides
    <2> QED
        BY <2>1 DEF Tags, Regions
<1>2. CASE s = "front"
    <2>1. Regions[s] = <<"national_id", "name_english", "sex", "date_of_birth",
                         "address_english">>
        BY <1>2 DEF Regions
    <2> QED
        BY <1>1, <2>1
<1>3. CASE s = "back"
    <2>1. Regions[s] = <<"serial_number", "common_name_english", "blood_group",
                         "expiry_date">>
        BY <1>3 DEF Regions
    <2> QED
        BY <1>1, <2>1
<1>4. QED BY <1>2, <1>3 DEF Sides

\* The segment under way has a side.
LEMMA SideType ==
    ASSUME TypeOK, NEW c \in Calls, images[c] # <<>>
    PROVE  /\ Head(images[c]) \in Seq(Sides) \ {<<>>}
           /\ Tail(images[c]) \in Seq(Seq(Sides) \ {<<>>})
           /\ Side(c) \in Sides
<1>1. images[c] \in Seq(Seq(Sides) \ {<<>>})
    BY DEF TypeOK
<1>2. Head(images[c]) \in Seq(Sides) \ {<<>>} /\ Tail(images[c]) \in Seq(Seq(Sides) \ {<<>>})
    BY <1>1
<1>3. QED BY <1>2 DEF Side

\* A call that ends keeps the types.
LEMMA EndType ==
    ASSUME TypeOK, NEW c \in Calls, NEW fields \in Result, pc[c] \in UnderWay,
           End(c, fields), UNCHANGED <<cancelled, unlabelled>>
    PROVE  TypeOK'
<1>1. <<>> \in Seq(Seq(Sides) \ {<<>>}) /\ <<>> \in Seq(Tags) /\ 0 \in 0..3
    OBVIOUS
<1>2. NoText \in Text
    BY DEF NoText, Text, Maybe
<1>3. /\ workspaces' \in [Calls -> Nat] /\ failures' \in 0..MaxFailures
      /\ \A d \in Calls : pc'[d] \in UnderWay => workspaces'[d] > 0
    <2>1. workspaces \in [Calls -> Nat] /\ workspaces[c] > 0 /\ failures \in 0..MaxFailures
        BY DEF TypeOK
    <2>2. workspaces[c] - 1 \in Nat
        BY <2>1
    <2>3. workspaces' \in [Calls -> Nat] /\ \A d \in Calls \ {c} : workspaces'[d] = workspaces[d]
        BY <2>1, <2>2 DEF End
    <2>4. failures' \in 0..MaxFailures
        BY <2>1, BoundAssumption DEF End
    <2>5. pc'[c] = "answer" /\ \A d \in Calls \ {c} : pc'[d] = pc[d]
        BY DEF End, GoTo, TypeOK
    <2> QED
        BY <2>3, <2>4, <2>5 DEF TypeOK, UnderWay
<1>4. QED BY <1>1, <1>2, <1>3 DEF End, GoTo, TypeOK, UnderWay

\* A call that finds nothing answers with no fields.
LEMMA NoFieldsType == NoFields \in Result
BY DEF NoFields, Result, Maybe

\* Rendering leaves at least one page of the upload.
LEMMA PagesType ==
    ASSUME NEW q \in Seq(Seq(Sides) \ {<<>>})
    PROVE  SubSeq(q, 1, IF Len(q) < MaxDocumentPages THEN Len(q) ELSE MaxDocumentPages)
               \in Seq(Seq(Sides) \ {<<>>})
<1> DEFINE n == IF Len(q) < MaxDocumentPages THEN Len(q) ELSE MaxDocumentPages
<1>1. n \in Nat /\ n <= Len(q)
    BY BoundAssumption
<1> HIDE DEF n
<1>2. SubSeq(q, 1, n) \in Seq(Seq(Sides) \ {<<>>})
    BY <1>1, SubSeqProperties
<1>3. QED BY <1>2 DEF n

\* The second half of a wide image is there.
LEMMA TailOfLonger ==
    ASSUME NEW S, NEW q \in Seq(S), Len(q) > 1
    PROVE  Tail(q) \in Seq(S) \ {<<>>} /\ Len(q) # 1
<1>1. q # <<>> /\ Len(q) \in Nat
    OBVIOUS
<1>2. Tail(q) \in Seq(S) /\ Len(Tail(q)) = Len(q) - 1
    BY <1>1, HeadTailProperties
<1>3. Len(<<>>) = 0
    OBVIOUS
<1>4. Len(Tail(q)) # 0
    BY <1>1, <1>2
<1>5. Tail(q) # <<>>
    BY <1>3, <1>4, Zenon
<1>6. Len(q) # 1
    <2> DEFINE n == Len(q)
    <2>1. n \in Nat /\ n > 1
        BY <1>1
    <2> HIDE DEF n
    <2>2. n # 1
        BY <2>1
    <2> QED
        BY <2>2 DEF n
<1>7. QED BY <1>2, <1>5, <1>6

\* TypeOK is inductive.
LEMMA TypeStep == TypeOK /\ [Next]_vars => TypeOK'
<1> SUFFICES ASSUME TypeOK, [Next]_vars PROVE TypeOK'
    OBVIOUS
<1>0. /\ NoText \in Text /\ NoFields \in Result
      /\ <<>> \in Seq(Seq(Sides) \ {<<>>}) /\ <<>> \in Seq(Tags) /\ 0 \in 0..3
    BY NoFieldsType DEF NoText, Text, Maybe
<1>1. CASE UNCHANGED vars
    BY <1>1 DEF vars, TypeOK
<1>2. CASE Stop
    BY <1>0, <1>2, BoundAssumption DEF Stop, TypeOK, UnderWay
<1>3. ASSUME NEW c \in Calls, Extract(c) PROVE TypeOK'
    <2>1. PICK d \in Documents : images' = [images EXCEPT ![c] = d]
        BY <1>3 DEF Extract
    <2>2. d \in Seq(Seq(Sides) \ {<<>>})
        BY DocumentsAssumption
    <2> QED
        BY <1>3, <2>1, <2>2 DEF Extract, GoTo, TypeOK, UnderWay
<1>4. ASSUME NEW c \in Calls, ExtractRefused(c) \/ CopyUpload(c) \/ PrepareImage(c)
      PROVE  TypeOK'
    BY <1>4 DEF ExtractRefused, CopyUpload, PrepareImage, GoTo, TypeOK, UnderWay
<1>5. ASSUME NEW c \in Calls, ImageInputs(c) PROVE TypeOK'
    <2>1. images[c] \in Seq(Seq(Sides) \ {<<>>})
        BY DEF TypeOK
    <2> DEFINE q == SubSeq(images[c], 1,
                           IF Len(images[c]) < MaxDocumentPages THEN Len(images[c])
                           ELSE MaxDocumentPages)
    <2>2. q \in Seq(Seq(Sides) \ {<<>>}) /\ images' = [images EXCEPT ![c] = q]
        BY <1>5, <2>1, PagesType DEF ImageInputs
    <2> HIDE DEF q
    <2> QED
        BY <1>5, <2>2 DEF ImageInputs, GoTo, TypeOK, UnderWay
<1>6. ASSUME NEW c \in Calls, OcrPass(c) PROVE TypeOK'
    <2>1. images[c] # <<>> /\ pc[c] = "passes" /\ passes[c] < 3
        BY <1>6 DEF OcrPass, OcrCommand, TypeOK
    <2>2. PICK p \in PageReadings[Side(c)] :
              /\ heard' = [heard EXCEPT ![c] = @ \cup {p}]
              /\ \/ text' = [text EXCEPT ![c] = Plus(@, p)]
                 \/ p \in heard[c] /\ UNCHANGED text
        BY <1>6 DEF OcrPass
    <2>3. Side(c) \in Sides /\ "sex" \in Tags
        BY <2>1, SideType DEF Tags, Regions, Sides
    <2>4. p \in Piece
        BY <2>2, <2>3, ReadableType
    <2>5. Plus(text[c], p) \in Text
        BY <2>4, PlusType DEF TypeOK
    <2>6. passes[c] + 1 \in 0..3
        <3>1. passes[c] \in 0..3
            BY DEF TypeOK
        <3> QED
            BY <2>1, <3>1
    <2>7. text' \in [Calls -> Text] /\ heard' \in [Calls -> SUBSET Piece]
        BY <2>2, <2>4, <2>5 DEF TypeOK
    <2> QED
        BY <1>6, <2>1, <2>6, <2>7 DEF OcrPass, TypeOK
<1>7. ASSUME NEW c \in Calls, OcrPassBlank(c) PROVE TypeOK'
    <2>1. passes[c] + 1 \in 0..3
        <3>1. passes[c] \in 0..3
            BY DEF TypeOK
        <3>2. passes[c] < 3
            BY <1>7 DEF OcrPassBlank, OcrCommand
        <3> QED
            BY <3>1, <3>2
    <2>2. passes' \in [Calls -> 0..3]
        BY <1>7, <2>1 DEF OcrPassBlank, TypeOK
    <2> QED
        BY <1>7, <2>2 DEF OcrPassBlank, TypeOK
<1>8. ASSUME NEW c \in Calls, NoReadableText(c) \/ Fail(c) PROVE TypeOK'
    BY <1>0, <1>8, EndType DEF NoReadableText, Fail, UnderWay
<1>9. ASSUME NEW c \in Calls, Classify(c) PROVE TypeOK'
    <2>1. Regions[IF ClassifiedBack(heard[c]) THEN "back" ELSE "front"] \in Seq(Tags)
        BY RegionsType DEF Sides
    <2> QED
        BY <1>9, <2>1 DEF Classify, GoTo, TypeOK, UnderWay
<1>10. ASSUME NEW c \in Calls, ReadRegion(c) PROVE TypeOK'
    <2>1. images[c] # <<>> /\ regions[c] # <<>> /\ regions[c] \in Seq(Tags)
        BY <1>10 DEF ReadRegion, TypeOK
    <2>2. Head(regions[c]) \in Tags /\ Tail(regions[c]) \in Seq(Tags)
        BY <2>1
    <2>3. PICK p \in RegionReadings[Side(c)][Head(regions[c])] :
              text' = [text EXCEPT ![c] = PlusTagged(@, Head(regions[c]), p)]
        BY <1>10 DEF ReadRegion
    <2>4. p \in Piece
        BY <2>1, <2>2, <2>3, SideType, ReadableType
    <2>5. PlusTagged(text[c], Head(regions[c]), p) \in Text
        BY <2>2, <2>4, PlusTaggedType DEF TypeOK
    <2> QED
        BY <1>10, <2>2, <2>3, <2>5 DEF ReadRegion, TypeOK
<1>11. ASSUME NEW c \in Calls, SkipRegion(c) PROVE TypeOK'
    <2>1. Tail(regions[c]) \in Seq(Tags)
        BY <1>11 DEF SkipRegion, TypeOK
    <2> QED
        BY <1>11, <2>1 DEF SkipRegion, TypeOK
<1>12. ASSUME NEW c \in Calls, NextSegment(c) PROVE TypeOK'
    <2>1. pc[c] = "regions" /\ images[c] # <<>>
        BY <1>12 DEF NextSegment, TypeOK
    <2>2. Head(images[c]) \in Seq(Sides) \ {<<>>}
          /\ Tail(images[c]) \in Seq(Seq(Sides) \ {<<>>})
        BY <2>1, SideType
    <2>3. CASE Len(Head(images[c])) > 1
        <3> DEFINE q == <<Tail(Head(images[c]))>> \o Tail(images[c])
        <3> DEFINE h == Head(images[c])
        <3>0. h \in Seq(Sides) /\ Len(h) > 1
            BY <2>2, <2>3
        <3> HIDE DEF h
        <3>1. Tail(h) \in Seq(Sides) \ {<<>>} /\ Len(h) # 1
            BY <3>0, TailOfLonger
        <3>2. <<Tail(Head(images[c]))>> \in Seq(Seq(Sides) \ {<<>>})
            BY <3>1 DEF h
        <3>3. q \in Seq(Seq(Sides) \ {<<>>}) /\ q # <<>>
            BY <2>2, <3>2
        <3>4. Len(Head(images[c])) # 1
            BY <3>1 DEF h
        <3>5. images' = [images EXCEPT ![c] = q] /\ pc' = [pc EXCEPT ![c] = "passes"]
            BY <1>12, <3>4, Zenon DEF NextSegment, GoTo
        <3> HIDE DEF q
        <3> QED
            BY <1>12, <3>3, <3>5 DEF NextSegment, TypeOK, UnderWay
    <2>4. CASE ~(Len(Head(images[c])) > 1)
        <3>1. images' = [images EXCEPT ![c] = Tail(@)] /\ pc' = [pc EXCEPT ![c] = "image"]
            BY <1>12, <2>4 DEF NextSegment, GoTo
        <3> QED
            BY <1>12, <2>2, <3>1 DEF NextSegment, TypeOK, UnderWay
    <2> QED
        BY <2>3, <2>4
<1>13. ASSUME NEW c \in Calls, Finish(c) PROVE TypeOK'
    <2>1. ParseIdentityText(text[c]) \in Result
        BY ParseType DEF TypeOK
    <2> QED
        BY <1>13, <2>1, EndType DEF Finish, UnderWay
<1>14. ASSUME NEW c \in Calls, Return(c) PROVE TypeOK'
    BY <1>0, <1>14 DEF Return, GoTo, TypeOK, UnderWay
<1>15. ASSUME NEW c \in Calls, Cancel(c) PROVE TypeOK'
    BY <1>15 DEF Cancel, TypeOK
<1> QED
    BY <1>1, <1>2, <1>3, <1>4, <1>5, <1>6, <1>7, <1>8, <1>9, <1>10, <1>11, <1>12,
       <1>13, <1>14, <1>15 DEF Next, CallStep, OwnStep

\* TypeOK holds at the start.
LEMMA TypeInit == Init => TypeOK
<1>1. NoText \in Text
    BY DEF NoText, Text, Maybe
<1>2. 0 \in 0..MaxFailures
    BY BoundAssumption
<1>3. QED BY <1>1, <1>2, NoFieldsType DEF Init, TypeOK, UnderWay

\* Every state of a call has its type; a segment is under way whenever passes
\* or regions are.
THEOREM ExtractionTypes == Spec => []TypeOK
BY TypeInit, TypeStep, PTL DEF Spec

-----------------------------------------------------------------------------
(***************************************************************************)
(* Dates.  As long as every back has shown a label the parser knows, a     *)
(* text without such a label is a front's, and the date_of_birth region    *)
(* has been cut from fronts only.                                          *)
(***************************************************************************)
BackTags == {"serial_number", "common_name_english", "blood_group", "expiry_date"}

\* A back is being read, and has not been classified yet.
Undecided(c) == pc[c] = "passes" /\ Side(c) = "back"

HeardInv(c) ==
    IF pc[c] = "passes" THEN \A p \in heard[c] : p.labels \subseteq text[c].labels
    ELSE heard[c] = {}

DatesInv(c) ==
    ~unlabelled[c] =>
        /\ text[c].tagged["date_of_birth"] # None =>
               text[c].tagged["date_of_birth"].dates \in Seq(Births)
        /\ ~IsBack(text[c]) /\ ~Undecided(c) => text[c].dates \in Seq(Births)
        /\ pc[c] = "regions" /\ Side(c) = "back" =>
               IsBack(text[c]) /\ regions[c] \in Seq(BackTags)

BirthInv(c) == result[c].date_of_birth \in Expiries => unlabelled[c]

IdleInv(c) ==
    /\ pc[c] \notin UnderWay => text[c] = NoText
    /\ pc[c] # "answer" => result[c] = NoFields
    /\ pc[c] = "idle" => ~unlabelled[c]

ReadInv(c) == HeardInv(c) /\ DatesInv(c) /\ BirthInv(c) /\ IdleInv(c)

Inv == TypeOK /\ \A c \in Calls : ReadInv(c)

\* What is read of a front has no labels and only births for dates.
LEMMA FrontReading ==
    ASSUME NEW p \in Piece, p \in ReadableOn("front")
    PROVE  p.labels = {} /\ p.dates \in Seq(Births)
BY DEF ReadableOn

\* A date of birth that is an expiry comes from a back without labels.
LEMMA BirthParsed ==
    ASSUME NEW t \in Text,
           t.tagged["date_of_birth"] # None => t.tagged["date_of_birth"].dates \in Seq(Births),
           ~IsBack(t) => t.dates \in Seq(Births)
    PROVE  ParseIdentityText(t).date_of_birth \notin Expiries
<1>1. ParseIdentityText(t).date_of_birth = DateOfBirth(t)
    BY DEF ParseIdentityText
<1>2. TaggedDate(t, "date_of_birth") \in Births \cup {None}
    <2> SUFFICES ASSUME t.tagged["date_of_birth"] # None,
                        t.tagged["date_of_birth"].dates # <<>>
                 PROVE  Head(t.tagged["date_of_birth"].dates) \in Births
        BY DEF TaggedDate
    <2> QED
        OBVIOUS
<1>3. t.dates # <<>> /\ ~IsBack(t) => Head(t.dates) \in Births
    OBVIOUS
<1>4. DateOfBirth(t) \in Births \cup {None}
    BY <1>2, <1>3 DEF DateOfBirth, FirstOf
<1>5. QED BY <1>1, <1>4, DatesAssumption DEF Dates

\* A call of which nothing changes keeps what holds of it.
LEMMA ReadSame ==
    ASSUME NEW c \in Calls, ReadInv(c),
           pc'[c] = pc[c], images'[c] = images[c], heard'[c] = heard[c],
           regions'[c] = regions[c], text'[c] = text[c], result'[c] = result[c],
           unlabelled'[c] = unlabelled[c]
    PROVE  ReadInv(c)'
BY DEF ReadInv, HeardInv, DatesInv, BirthInv, IdleInv, IsBack, Undecided, Side

\* A call that ends, with no fields or with those of its text.
LEMMA ReadEnd ==
    ASSUME TypeOK, NEW c \in Calls, ReadInv(c), NEW fields,
           End(c, fields), UNCHANGED <<cancelled, unlabelled>>,
           fields.date_of_birth \in Expiries => unlabelled[c]
    PROVE  ReadInv(c)'
<1>1. /\ pc'[c] = "answer" /\ heard'[c] = {} /\ text'[c] = NoText
      /\ result'[c] = fields /\ unlabelled'[c] = unlabelled[c]
    BY DEF End, GoTo, TypeOK
<1>2. NoText.dates \in Seq(Births) /\ NoText.tagged["date_of_birth"] = None
    <2>1. "date_of_birth" \in Tags
        BY DEF Tags, Regions, Sides
    <2> QED
        BY <2>1 DEF NoText
<1>3. DatesInv(c)'
    BY <1>1, <1>2 DEF DatesInv
<1>4. QED BY <1>1, <1>3 DEF ReadInv, HeardInv, BirthInv, IdleInv, UnderWay

\* No fields hold no date of birth.
LEMMA NoBirth == NoFields.date_of_birth \notin Expiries
BY DatesAssumption DEF NoFields, Dates

\* The actions that only move a call on.
LEMMA ReadMoves ==
    ASSUME TypeOK, NEW c \in Calls, ReadInv(c),
           Extract(c) \/ ExtractRefused(c) \/ CopyUpload(c) \/ ImageInputs(c)
               \/ PrepareImage(c) \/ Cancel(c) \/ Return(c) \/ OcrPassBlank(c)
    PROVE  ReadInv(c)'
<1> USE DEF ReadInv, HeardInv, DatesInv, BirthInv, IdleInv, Undecided, UnderWay, GoTo,
            TypeOK
<1>1. ASSUME Cancel(c) \/ OcrPassBlank(c) PROVE ReadInv(c)'
    BY <1>1, ReadSame DEF Cancel, OcrPassBlank, OcrCommand
<1>2. ASSUME Extract(c) \/ CopyUpload(c) \/ ImageInputs(c) PROVE ReadInv(c)'
    BY <1>2 DEF Extract, CopyUpload, ImageInputs, IsBack, NoText
<1>3. ASSUME PrepareImage(c) PROVE ReadInv(c)'
    BY <1>3 DEF PrepareImage, IsBack, Side
<1>4. ASSUME ExtractRefused(c) PROVE ReadInv(c)'
    BY <1>4, NoBirth DEF ExtractRefused, IsBack, Side
<1>5. ASSUME Return(c) PROVE ReadInv(c)'
    <2>1. /\ text'[c] = NoText /\ pc'[c] = "idle" /\ heard'[c] = {}
          /\ result'[c] = NoFields /\ ~unlabelled'[c]
        BY <1>5 DEF Return
    <2>2. NoText.dates \in Seq(Births) /\ NoText.tagged["date_of_birth"] = None
        <3>1. "date_of_birth" \in Tags
            BY DEF Tags, Regions, Sides
        <3> QED
            BY <3>1 DEF NoText
    <2> QED
        BY <2>1, <2>2, NoBirth
<1> QED
    BY <1>1, <1>2, <1>3, <1>4, <1>5

\* A pass over a front adds births only; over a back, nothing is claimed until
\* the segment is classified.
LEMMA ReadPass ==
    ASSUME TypeOK, NEW c \in Calls, ReadInv(c), OcrPass(c)
    PROVE  ReadInv(c)'
<1>1. PICK p \in PageReadings[Side(c)] :
          /\ heard' = [heard EXCEPT ![c] = @ \cup {p}]
          /\ \/ text' = [text EXCEPT ![c] = Plus(@, p)]
             \/ p \in heard[c] /\ UNCHANGED text
    BY DEF OcrPass
<1>2. /\ pc[c] = "passes" /\ images[c] # <<>>
      /\ UNCHANGED <<pc, images, regions, result, unlabelled>>
    BY DEF OcrPass, OcrCommand, TypeOK
<1>3. Side(c) \in Sides /\ "sex" \in Tags
    BY <1>2, SideType DEF Tags, Regions, Sides
<1>4. p \in Piece /\ p \in ReadableOn(Side(c))
    BY <1>1, <1>3, ReadableType, ReadingsAssumption
<1>5. CASE p \in heard[c] /\ UNCHANGED text
    <2>1. heard'[c] = heard[c] /\ text'[c] = text[c]
        BY <1>1, <1>5 DEF TypeOK
    <2> QED
        BY <1>2, <2>1, ReadSame
<1>6. CASE text' = [text EXCEPT ![c] = Plus(@, p)]
    <2> DEFINE t == text[c]
               u == Plus(text[c], p)
    <2>1. heard'[c] = heard[c] \cup {p} /\ text'[c] = u
        BY <1>1, <1>6 DEF TypeOK
    <2>2. /\ u.tagged = t.tagged /\ u.labels = t.labels \cup p.labels
          /\ u.dates = FirstTwo(t.dates \o p.dates)
        BY <1>4, PlusType DEF TypeOK
    <2>3. HeardInv(c)'
        BY <1>2, <2>1, <2>2 DEF ReadInv, HeardInv
    <2>4. ASSUME ~unlabelled[c], ~IsBack(u), Side(c) # "back"
          PROVE  u.dates \in Seq(Births)
        <3>1. t.dates \in Seq(Births)
            BY <1>2, <2>2, <2>4 DEF ReadInv, DatesInv, Undecided, IsBack
        <3>2. p.dates \in Seq(Births)
            BY <1>3, <1>4, <2>4, FrontReading DEF Sides
        <3>3. t.dates \o p.dates \in Seq(Births)
            BY <3>1, <3>2
        <3>4. FirstTwo(t.dates \o p.dates) \in Seq(Births)
            BY <3>3, FirstTwoType
        <3> QED
            BY <2>2, <3>4
    <2> HIDE DEF t, u
    <2>5. DatesInv(c)'
        BY <1>2, <2>1, <2>2, <2>4 DEF ReadInv, DatesInv, Undecided, IsBack, Side, t
    <2>6. BirthInv(c)' /\ IdleInv(c)'
        BY <1>2, <2>1 DEF ReadInv, BirthInv, IdleInv, UnderWay
    <2> QED
        BY <2>3, <2>5, <2>6 DEF ReadInv
<1>7. QED BY <1>1, <1>5, <1>6

\* Classification: a back either has shown a label the parser knows, or is
\* remembered for not having; and a back that was told gets a back's regions.
LEMMA ReadClassify ==
    ASSUME TypeOK, NEW c \in Calls, ReadInv(c), Classify(c)
    PROVE  ReadInv(c)'
<1>1. /\ pc[c] = "passes" /\ pc'[c] = "regions" /\ heard'[c] = {}
      /\ regions'[c] = Regions[IF ClassifiedBack(heard[c]) THEN "back" ELSE "front"]
      /\ unlabelled'[c] = (unlabelled[c] \/
             (Side(c) = "back" /\ \A p \in heard[c] : p.labels \cap BackLabels = {}))
      /\ UNCHANGED <<images, text, result>>
    BY DEF Classify, GoTo, TypeOK
<1>2. ASSUME ~unlabelled'[c], Side(c) = "back"
      PROVE  IsBack(text[c]) /\ regions'[c] \in Seq(BackTags)
    <2>1. PICK p \in heard[c] : p.labels \cap BackLabels # {}
        BY <1>1, <1>2
    <2>2. p.labels \subseteq text[c].labels
        BY <1>1 DEF ReadInv, HeardInv
    <2>3. regions'[c] = <<"serial_number", "common_name_english", "blood_group",
                          "expiry_date">>
        BY <1>1, <2>1 DEF ClassifiedBack, Regions
    <2> QED
        BY <2>1, <2>2, <2>3 DEF IsBack, BackTags
<1>3. DatesInv(c)'
    BY <1>1, <1>2 DEF ReadInv, DatesInv, Undecided, IsBack, Side
<1>4. QED BY <1>1, <1>3 DEF ReadInv, HeardInv, BirthInv, IdleInv, UnderWay

\* A region of a front adds births only, and a back's region is not its
\* date_of_birth, unless the back was not told from a front.
LEMMA ReadOneRegion ==
    ASSUME TypeOK, NEW c \in Calls, ReadInv(c), ReadRegion(c)
    PROVE  ReadInv(c)'
<1> DEFINE t == text[c]
           r == Head(regions[c])
<1>1. PICK p \in RegionReadings[Side(c)][Head(regions[c])] :
          text' = [text EXCEPT ![c] = PlusTagged(@, Head(regions[c]), p)]
    BY DEF ReadRegion
<1>2. /\ pc[c] = "regions" /\ regions[c] # <<>> /\ regions[c] \in Seq(Tags)
      /\ images[c] # <<>> /\ text[c] \in Text
      /\ UNCHANGED <<pc, images, heard, result, unlabelled>>
      /\ regions'[c] = Tail(regions[c])
    BY DEF ReadRegion, TypeOK
<1>3. Side(c) \in Sides /\ r \in Tags /\ "date_of_birth" \in Tags
    BY <1>2, SideType DEF Tags, Regions, Sides
<1>4. p \in Piece /\ p \in ReadableOn(Side(c))
    BY <1>1, <1>3, ReadableType, ReadingsAssumption
<1> DEFINE u == PlusTagged(t, r, p)
<1>5. text'[c] = u
    BY <1>1 DEF TypeOK
<1>6. /\ u.tagged = [t.tagged EXCEPT ![r] = FirstOf(t.tagged[r], p)]
      /\ u.labels = t.labels \cup p.labels
      /\ u.dates = FirstTwo(t.dates \o p.dates)
      /\ t.tagged \in [Tags -> Piece \cup {None}]
    BY <1>2, <1>3, <1>4, PlusTaggedType DEF Text
<1> HIDE DEF t, u, r
<1>7. ASSUME ~unlabelled[c], Side(c) = "back"
      PROVE  /\ r # "date_of_birth" /\ IsBack(u)
             /\ regions'[c] \in Seq(BackTags)
    <2>1. IsBack(t) /\ regions[c] \in Seq(BackTags)
        BY <1>2, <1>7 DEF ReadInv, DatesInv, t
    <2>2. r \in BackTags /\ Tail(regions[c]) \in Seq(BackTags)
        BY <1>2, <2>1 DEF r
    <2> QED
        BY <1>2, <1>6, <2>1, <2>2 DEF IsBack, BackTags
<1>8. ASSUME ~unlabelled[c], u.tagged["date_of_birth"] # None
      PROVE  u.tagged["date_of_birth"].dates \in Seq(Births)
    <2>1. t.tagged["date_of_birth"] # None => t.tagged["date_of_birth"].dates \in Seq(Births)
        BY <1>8 DEF ReadInv, DatesInv, t
    <2>2. CASE u.tagged["date_of_birth"] = t.tagged["date_of_birth"]
        BY <1>8, <2>1, <2>2
    <2>3. CASE u.tagged["date_of_birth"] # t.tagged["date_of_birth"]
        <3>1. r = "date_of_birth" /\ u.tagged["date_of_birth"] = p
            BY <1>3, <1>6, <2>3 DEF FirstOf
        <3>2. Side(c) = "front"
            BY <1>3, <1>7, <1>8, <3>1 DEF Sides
        <3> QED
            BY <1>4, <3>1, <3>2, FrontReading
    <2> QED
        BY <2>2, <2>3
<1>9. ASSUME ~unlabelled[c], ~IsBack(u) PROVE u.dates \in Seq(Births)
    <2>1. Side(c) = "front" /\ ~IsBack(t)
        BY <1>3, <1>6, <1>7, <1>9 DEF Sides, IsBack
    <2>2. t.dates \in Seq(Births)
        BY <1>2, <1>9, <2>1 DEF ReadInv, DatesInv, Undecided, t
    <2>3. p.dates \in Seq(Births)
        BY <1>4, <2>1, FrontReading
    <2>4. t.dates \o p.dates \in Seq(Births)
        BY <2>2, <2>3
    <2>5. FirstTwo(t.dates \o p.dates) \in Seq(Births)
        BY <2>4, FirstTwoType
    <2> QED
        BY <1>6, <2>5
<1>10. Side(c)' = Side(c)
    BY <1>2 DEF Side
<1>11. DatesInv(c)'
    BY <1>2, <1>5, <1>7, <1>8, <1>9, <1>10 DEF DatesInv, IsBack
<1>12. HeardInv(c)' /\ BirthInv(c)' /\ IdleInv(c)'
    BY <1>2, <1>5 DEF ReadInv, HeardInv, BirthInv, IdleInv, UnderWay
<1>13. QED BY <1>11, <1>12 DEF ReadInv

\* A region passed over, and the next segment: the text stays.
LEMMA ReadOn ==
    ASSUME TypeOK, NEW c \in Calls, ReadInv(c), SkipRegion(c) \/ NextSegment(c)
    PROVE  ReadInv(c)'
<1>1. CASE SkipRegion(c)
    <2>1. /\ pc[c] = "regions" /\ regions[c] # <<>> /\ regions[c] \in Seq(Tags)
          /\ UNCHANGED <<pc, images, heard, text, result, unlabelled>>
          /\ regions'[c] = Tail(regions[c])
        BY <1>1 DEF SkipRegion, TypeOK
    <2>2. regions[c] \in Seq(BackTags) => regions'[c] \in Seq(BackTags)
        BY <2>1
    <2> QED
        BY <2>1, <2>2 DEF ReadInv, HeardInv, DatesInv, BirthInv, IdleInv, IsBack,
           Undecided, Side
<1>2. CASE NextSegment(c)
    <2>1. /\ pc[c] = "regions" /\ pc'[c] \in {"passes", "image"}
          /\ UNCHANGED <<heard, text, result, unlabelled>>
        BY <1>2 DEF NextSegment, GoTo, TypeOK
    <2> QED
        BY <2>1 DEF ReadInv, HeardInv, DatesInv, BirthInv, IdleInv, IsBack, Undecided,
           UnderWay
<1>3. QED BY <1>1, <1>2

\* The actions that end a call.
LEMMA ReadEnds ==
    ASSUME TypeOK, NEW c \in Calls, ReadInv(c), Finish(c) \/ NoReadableText(c) \/ Fail(c)
    PROVE  ReadInv(c)'
<1>1. CASE NoReadableText(c) \/ Fail(c)
    BY <1>1, ReadEnd, NoBirth DEF NoReadableText, Fail
<1>2. CASE Finish(c)
    <2>1. ASSUME ~unlabelled[c]
          PROVE  ParseIdentityText(text[c]).date_of_birth \notin Expiries
        BY <1>2, <2>1, BirthParsed DEF Finish, ReadInv, DatesInv, Undecided, TypeOK
    <2> QED
        BY <1>2, <2>1, ReadEnd DEF Finish
<1>3. QED BY <1>1, <1>2

\* The steps of one call leave the others alone.
LEMMA ReadOthers ==
    ASSUME TypeOK, NEW c \in Calls, NEW d \in Calls, c # d, ReadInv(d), CallStep(c)
    PROVE  ReadInv(d)'
<1>1. /\ pc'[d] = pc[d] /\ images'[d] = images[d] /\ heard'[d] = heard[d]
      /\ regions'[d] = regions[d] /\ text'[d] = text[d] /\ result'[d] = result[d]
      /\ unlabelled'[d] = unlabelled[d]
    <2> USE DEF TypeOK, GoTo, End
    <2>1. CASE OwnStep(c)
        BY <2>1 DEF OwnStep, CopyUpload, PrepareImage, NoReadableText, Classify,
           NextSegment, Finish, Return
    <2>2. CASE Extract(c) \/ ExtractRefused(c) \/ ImageInputs(c) \/ Fail(c) \/ Cancel(c)
        BY <2>2 DEF Extract, ExtractRefused, ImageInputs, Fail, Cancel
    <2>3. CASE OcrPass(c) \/ OcrPassBlank(c) \/ ReadRegion(c) \/ SkipRegion(c)
        BY <2>3 DEF OcrPass, OcrPassBlank, ReadRegion, SkipRegion
    <2> QED
        BY <2>1, <2>2, <2>3 DEF CallStep
<1>2. QED BY <1>1, ReadSame

\* An idle call that has read nothing.
LEMMA ReadIdle ==
    ASSUME NEW c \in Calls, pc[c] = "idle", heard[c] = {}, text[c] = NoText,
           result[c] = NoFields, ~unlabelled[c]
    PROVE  ReadInv(c)
<1>1. NoText.dates \in Seq(Births) /\ NoText.tagged["date_of_birth"] = None
    <2>1. "date_of_birth" \in Tags
        BY DEF Tags, Regions, Sides
    <2> QED
        BY <2>1 DEF NoText
<1>2. QED BY <1>1, NoBirth DEF ReadInv, HeardInv, DatesInv, BirthInv, IdleInv, UnderWay

\* The invariant is inductive.
LEMMA ReadStep == Inv /\ [Next]_vars => Inv'
<1> SUFFICES ASSUME Inv, [Next]_vars PROVE Inv'
    OBVIOUS
<1>1. TypeOK'
    BY TypeStep DEF Inv
<1>2. ASSUME NEW d \in Calls PROVE ReadInv(d)'
    <2>1. TypeOK /\ ReadInv(d)
        BY DEF Inv
    <2>2. CASE UNCHANGED vars
        BY <2>1, <2>2, ReadSame DEF vars
    <2>3. CASE Stop
        <3>1. /\ pc'[d] = "idle" /\ heard'[d] = {} /\ text'[d] = NoText
              /\ result'[d] = NoFields /\ ~unlabelled'[d]
            BY <2>3 DEF Stop
        <3>2. NoText.dates \in Seq(Births) /\ NoText.tagged["date_of_birth"] = None
            <4>1. "date_of_birth" \in Tags
                BY DEF Tags, Regions, Sides
            <4> QED
                BY <4>1 DEF NoText
        <3> QED
            BY <3>1, <3>2, NoBirth
            DEF ReadInv, HeardInv, DatesInv, BirthInv, IdleInv, UnderWay
    <2>4. ASSUME NEW c \in Calls, CallStep(c) PROVE ReadInv(d)'
        <3>1. CASE c # d
            BY <2>1, <2>4, <3>1, ReadOthers
        <3>2. CASE c = d
            <4>1. CallStep(d)
                BY <2>4, <3>2
            <4> QED
                BY <2>1, <4>1, ReadMoves, ReadPass, ReadClassify, ReadOneRegion, ReadOn,
                   ReadEnds DEF CallStep, OwnStep
        <3> QED
            BY <3>1, <3>2
    <2> QED
        BY <2>2, <2>3, <2>4 DEF Next
<1>3. QED BY <1>1, <1>2 DEF Inv

\* The date parseIdentityText takes for the birth is never the expiry date of
\* a back whose labels were read.
THEOREM ExpiryIsNotBirthHolds == Spec => []ExpiryIsNotBirth
<1>1. Init => Inv
    <2> SUFFICES ASSUME Init, NEW c \in Calls PROVE ReadInv(c)
        BY TypeInit DEF Inv
    <2> QED
        BY ReadIdle DEF Init
<1>2. Inv => ExpiryIsNotBirth
    BY DEF Inv, ReadInv, BirthInv, ExpiryIsNotBirth
<1>3. QED BY <1>1, <1>2, ReadStep, PTL DEF Spec

-----------------------------------------------------------------------------
(***************************************************************************)
(* The work of a call.  After rendering there are MaxDocumentPages images  *)
(* at most, and each step from there on finishes an image, a segment of    *)
(* one, a stage of the segment or a command of the stage, never to come    *)
(* back to it.                                                             *)
(***************************************************************************)
PagesAreBounded ==
    \A c \in Calls :
        pc[c] \in {"image", "passes", "regions"} => Len(images[c]) <= MaxDocumentPages

\* Segments of the image under way.
Segments(c) == IF images[c] = <<>> THEN 0 ELSE Len(Head(images[c]))

\* Stages, the last first.
Stage(c) ==
    CASE pc[c] = "idle"    -> 0
      [] pc[c] = "answer"  -> 1
      [] pc[c] = "regions" -> 2
      [] pc[c] = "passes"  -> 3
      [] pc[c] = "image"   -> 4
      [] pc[c] = "render"  -> 5
      [] OTHER             -> 6

\* OCR commands of the stage.
Commands(c) ==
    CASE pc[c] = "passes"  -> 3 - passes[c]
      [] pc[c] = "regions" -> Len(regions[c])
      [] OTHER             -> 0

Closer(c) ==
    \/ Len(images[c])' < Len(images[c])
    \/ /\ Len(images[c])' = Len(images[c])
       /\ \/ Segments(c)' < Segments(c)
          \/ /\ Segments(c)' = Segments(c)
             /\ \/ Stage(c)' < Stage(c)
                \/ Stage(c)' = Stage(c) /\ Commands(c)' < Commands(c)

\* Every step of a call that is under way, but for its cancellation, takes it
\* closer to its end, and no other step takes it further away.
CallsAreBounded ==
    [][\A c \in Calls : pc[c] # "idle" =>
          /\ \/ Closer(c)
             \/ UNCHANGED <<pc[c], images[c], passes[c], regions[c]>>
          /\ CallStep(c) /\ ~Cancel(c) => Closer(c)]_vars

\* Rendering keeps the first pages, and no more of them than allowed.
LEMMA PagesLength ==
    ASSUME NEW S, NEW q \in Seq(S)
    PROVE  LET n == IF Len(q) < MaxDocumentPages THEN Len(q) ELSE MaxDocumentPages
           IN  /\ Len(SubSeq(q, 1, n)) <= MaxDocumentPages
               /\ \/ Len(SubSeq(q, 1, n)) < Len(q)
                  \/ SubSeq(q, 1, n) = q
<1>1. Len(q) \in Nat /\ MaxDocumentPages \in Nat
    BY BoundAssumption
<1>2. CASE Len(q) < MaxDocumentPages
    <2>1. SubSeq(q, 1, Len(q)) = q
        OBVIOUS
    <2>2. QED BY <1>1, <1>2, <2>1
<1>3. CASE ~(Len(q) < MaxDocumentPages)
    <2>1. MaxDocumentPages <= Len(q)
        BY <1>1, <1>3
    <2>2. Len(SubSeq(q, 1, MaxDocumentPages)) = MaxDocumentPages
        BY <1>1, <2>1, SubSeqProperties
    <2>3. CASE MaxDocumentPages = Len(q)
        <3>1. SubSeq(q, 1, Len(q)) = q
            OBVIOUS
        <3>2. QED BY <1>1, <1>3, <2>2, <2>3, <3>1
    <2>4. CASE MaxDocumentPages # Len(q)
        BY <1>1, <1>3, <2>1, <2>2, <2>4
    <2>5. QED BY <2>3, <2>4
<1>4. QED BY <1>2, <1>3

\* A call that ends at an earlier stage, or goes on to a later one with the
\* images it has, is closer to its end.
LEMMA LaterStage ==
    ASSUME TypeOK, NEW c \in Calls, Stage(c)' < Stage(c),
           images'[c] = <<>> \/ images'[c] = images[c]
    PROVE  Closer(c)
<1>1. CASE images'[c] = images[c]
    BY <1>1 DEF Closer, Segments
<1>2. CASE images'[c] = <<>> /\ images[c] # <<>>
    <2>1. images[c] \in Seq(Seq(Sides) \ {<<>>})
        BY DEF TypeOK
    <2>2. Len(images[c]) \in Nat /\ Len(images[c]) # 0
        BY <1>2, <2>1
    <2>3. Len(images'[c]) = 0
        BY <1>2
    <2>4. QED BY <2>2, <2>3 DEF Closer
<1>3. QED BY <1>1, <1>2

\* A call that gives one command of its stage is closer to its end.
LEMMA OneCommandLess ==
    ASSUME NEW c \in Calls, images'[c] = images[c], pc'[c] = pc[c],
           Commands(c)' < Commands(c)
    PROVE  Closer(c)
BY DEF Closer, Segments, Stage

\* However a call ends, it is then closer to its end.
LEMMA EndIsCloser ==
    ASSUME TypeOK, NEW c \in Calls, NEW fields, pc[c] \in UnderWay, End(c, fields)
    PROVE  Closer(c)
<1>1. Stage(c)' = 1 /\ images'[c] = <<>>
    BY DEF TypeOK, End, GoTo, Stage
<1>2. Stage(c) \in 2..6
    BY DEF UnderWay, Stage
<1>3. Stage(c)' < Stage(c)
    BY <1>1, <1>2
<1>4. QED BY <1>1, <1>3, LaterStage

\* Rendering, and all it takes to come to a segment and to read it.
LEMMA StepIsCloser ==
    ASSUME TypeOK, NEW c \in Calls, pc[c] # "idle", CallStep(c), ~Cancel(c)
    PROVE  Closer(c)
<1> USE DEF GoTo
<1>1. CASE CopyUpload(c) \/ PrepareImage(c) \/ Classify(c) \/ Return(c)
    <2>1. images'[c] = images[c]
        BY <1>1 DEF CopyUpload, PrepareImage, Classify, Return
    <2>2. Stage(c)' < Stage(c)
        BY <1>1 DEF CopyUpload, PrepareImage, Classify, Return, Stage, TypeOK
    <2>3. QED BY <2>1, <2>2, LaterStage
<1>2. CASE NoReadableText(c) \/ Fail(c) \/ Finish(c)
    BY <1>2, EndIsCloser DEF NoReadableText, Fail, Finish, UnderWay
<1>3. CASE ImageInputs(c)
    <2> DEFINE n == IF Len(images[c]) < MaxDocumentPages THEN Len(images[c])
                    ELSE MaxDocumentPages
               q == SubSeq(images[c], 1, n)
    <2>1. images[c] \in Seq(Seq(Sides) \ {<<>>})
        BY DEF TypeOK
    <2>2. Len(q) < Len(images[c]) \/ q = images[c]
        BY <2>1, PagesLength
    <2>3. images'[c] = q /\ pc[c] = "render" /\ pc'[c] = "image"
        BY <1>3 DEF ImageInputs, TypeOK
    <2> HIDE DEF q
    <2>4. CASE Len(q) < Len(images[c])
        BY <2>3, <2>4 DEF Closer
    <2>5. CASE q = images[c]
        BY <2>3, <2>5, LaterStage DEF Stage
    <2>6. QED BY <2>2, <2>4, <2>5
<1>4. CASE OcrPass(c) \/ OcrPassBlank(c)
    <2>1. /\ images' = images /\ pc' = pc /\ pc[c] = "passes"
          /\ passes[c] \in 0..3 /\ passes'[c] = passes[c] + 1
        BY <1>4 DEF OcrPass, OcrPassBlank, OcrCommand, TypeOK
    <2>2. Commands(c)' < Commands(c)
        BY <2>1 DEF Commands
    <2>3. QED BY <2>1, <2>2, OneCommandLess
<1>5. CASE ReadRegion(c) \/ SkipRegion(c)
    <2>1. /\ images' = images /\ pc' = pc /\ pc[c] = "regions"
          /\ regions[c] \in Seq(Tags) /\ regions[c] # <<>>
          /\ regions'[c] = Tail(regions[c])
        BY <1>5 DEF ReadRegion, SkipRegion, TypeOK
    <2>2. Len(regions[c]) \in Nat /\ Len(Tail(regions[c])) = Len(regions[c]) - 1
        BY <2>1, HeadTailProperties
    <2>3. Commands(c)' = Len(regions[c]) - 1 /\ Commands(c) = Len(regions[c])
        BY <2>1, <2>2 DEF Commands
    <2>4. QED BY <2>1, <2>2, <2>3, OneCommandLess
<1>6. CASE NextSegment(c)
    <2>1. /\ pc[c] = "regions" /\ images[c] # <<>>
          /\ images[c] \in Seq(Seq(Sides) \ {<<>>})
        BY <1>6 DEF NextSegment, TypeOK
    <2> DEFINE h == Head(images[c])
               r == Tail(images[c])
    <2>2. /\ h \in Seq(Sides) /\ h # <<>> /\ r \in Seq(Seq(Sides) \ {<<>>})
          /\ Len(images[c]) \in Nat /\ Len(r) = Len(images[c]) - 1
        BY <2>1, HeadTailProperties
    <2>3. CASE Len(h) > 1 /\ images'[c] = <<Tail(h)>> \o r
        <3>1. Len(h) \in Nat /\ Len(Tail(h)) = Len(h) - 1
            BY <2>2, HeadTailProperties
        <3>2. /\ Len(<<Tail(h)>> \o r) = 1 + Len(r) /\ <<Tail(h)>> \o r # <<>>
              /\ Head(<<Tail(h)>> \o r) = Tail(h)
            <4> DEFINE u == Tail(h)
            <4>1. u \in Seq(Sides)
                BY <2>2, HeadTailProperties
            <4> HIDE DEF u, r
            <4>2. r \in Seq(Seq(Sides))
                BY <2>2
            <4>3. QED BY <4>1, <4>2 DEF u
        <3>3. Len(images'[c]) = Len(images[c])
            BY <2>2, <2>3, <3>2
        <3>4. Segments(c)' = Len(Tail(h)) /\ Segments(c) = Len(h)
            BY <2>1, <2>3, <3>2 DEF Segments
        <3>5. QED BY <3>1, <3>3, <3>4 DEF Closer
    <2>4. CASE images'[c] = r
        BY <2>2, <2>4 DEF Closer
    <2>5. QED BY <1>6, <2>1, <2>3, <2>4 DEF NextSegment, TypeOK
<1>7. ~Extract(c) /\ ~ExtractRefused(c)
    BY DEF Extract, ExtractRefused
<1>8. QED
    BY <1>1, <1>2, <1>3, <1>4, <1>5, <1>6, <1>7 DEF CallStep, OwnStep

\* The steps of one call leave the stage of the others alone.
LEMMA OtherCalls ==
    ASSUME TypeOK, NEW c \in Calls, NEW d \in Calls, c # d, CallStep(c)
    PROVE  UNCHANGED <<pc[d], images[d], passes[d], regions[d]>>
<1> USE DEF TypeOK, GoTo, End
<1>1. CASE OwnStep(c)
    BY <1>1 DEF OwnStep, CopyUpload, PrepareImage, NoReadableText, Classify,
       NextSegment, Finish, Return
<1>2. CASE Extract(c) \/ ExtractRefused(c) \/ ImageInputs(c) \/ Fail(c) \/ Cancel(c)
    BY <1>2 DEF Extract, ExtractRefused, ImageInputs, Fail, Cancel
<1>3. CASE OcrPass(c) \/ OcrPassBlank(c) \/ ReadRegion(c) \/ SkipRegion(c)
    BY <1>3 DEF OcrPass, OcrPassBlank, ReadRegion, SkipRegion
<1>4. QED BY <1>1, <1>2, <1>3 DEF CallStep

\* Extract does the work of one upload and no more: however its commands
\* answer, every step brings a call closer to its end.
THEOREM CallsComeToAnEnd == Spec => CallsAreBounded
<1> DEFINE Bounded(c) ==
        pc[c] # "idle" =>
            /\ \/ Closer(c)
               \/ UNCHANGED <<pc[c], images[c], passes[c], regions[c]>>
            /\ CallStep(c) /\ ~Cancel(c) => Closer(c)
<1>1. TypeOK /\ [Next]_vars => \A c \in Calls : Bounded(c)
    <2> SUFFICES ASSUME TypeOK, [Next]_vars, NEW c \in Calls, pc[c] # "idle"
                 PROVE  \/ Closer(c)
                        \/ UNCHANGED <<pc[c], images[c], passes[c], regions[c]>>
        BY StepIsCloser
    <2>1. CASE UNCHANGED vars
        BY <2>1 DEF vars
    <2>2. CASE Stop
        <3>1. Stage(c)' = 0 /\ images'[c] = <<>> /\ Stage(c) \in 1..6
            BY <2>2 DEF Stop, Stage
        <3>2. Stage(c)' < Stage(c)
            BY <3>1
        <3>3. QED BY <3>1, <3>2, LaterStage
    <2>3. ASSUME NEW d \in Calls, CallStep(d), d # c
          PROVE  UNCHANGED <<pc[c], images[c], passes[c], regions[c]>>
        BY <2>3, OtherCalls
    <2>4. CASE Cancel(c)
        BY <2>4 DEF Cancel
    <2>5. CASE CallStep(c) /\ ~Cancel(c)
        BY <2>5, StepIsCloser
    <2>6. QED BY <2>1, <2>2, <2>3, <2>4, <2>5 DEF Next
<1> HIDE DEF Bounded
<1>2. Spec => [][\A c \in Calls : Bounded(c)]_vars
    BY <1>1, ExtractionTypes, PTL DEF Spec
<1>3. QED BY <1>2 DEF CallsAreBounded, Bounded

\* No call works on more page images than maxDocumentPages, however long the
\* document is that was uploaded.
THEOREM PagesAreBoundedHolds == Spec => []PagesAreBounded
<1> USE DEF GoTo
<1>1. Init => PagesAreBounded
    BY DEF Init, PagesAreBounded
<1>2. ASSUME TypeOK, PagesAreBounded, [Next]_vars PROVE PagesAreBounded'
    <2> SUFFICES ASSUME NEW d \in Calls, pc'[d] \in {"image", "passes", "regions"}
                 PROVE  Len(images'[d]) <= MaxDocumentPages
        BY DEF PagesAreBounded
    <2>1. images[d] \in Seq(Seq(Sides) \ {<<>>}) /\ MaxDocumentPages \in Nat
        BY <1>2, BoundAssumption DEF TypeOK
    <2>2. CASE UNCHANGED vars
        BY <1>2, <2>2 DEF vars, PagesAreBounded
    <2>3. CASE Stop
        BY <2>3 DEF Stop
    <2>4. ASSUME NEW c \in Calls, CallStep(c), c # d
          PROVE  Len(images'[d]) <= MaxDocumentPages
        BY <1>2, <2>4, OtherCalls DEF PagesAreBounded
    <2>5. CASE ImageInputs(d)
        <3> DEFINE n == IF Len(images[d]) < MaxDocumentPages THEN Len(images[d])
                        ELSE MaxDocumentPages
        <3>1. images'[d] = SubSeq(images[d], 1, n)
            BY <1>2, <2>5 DEF ImageInputs, TypeOK
        <3>2. QED BY <2>1, <3>1, PagesLength
    <2>6. CASE NextSegment(d)
        <3>1. pc[d] = "regions" /\ images[d] # <<>> /\ Len(images[d]) <= MaxDocumentPages
            BY <1>2, <2>6 DEF NextSegment, TypeOK, PagesAreBounded
        <3> DEFINE r == Tail(images[d])
                   u == Tail(Head(images[d]))
        <3>2. /\ r \in Seq(Seq(Sides) \ {<<>>}) /\ Len(images[d]) \in Nat
              /\ Len(r) = Len(images[d]) - 1
            BY <2>1, <3>1, HeadTailProperties
        <3>3. Len(<<u>> \o r) = 1 + Len(r)
            <4>1. r \in Seq(Seq(Sides) \cup {u}) /\ <<u>> \in Seq(Seq(Sides) \cup {u})
                BY <3>2
            <4> HIDE DEF r, u
            <4>2. QED BY <4>1
        <3>4. images'[d] = <<u>> \o r \/ images'[d] = r
            BY <1>2, <2>6 DEF NextSegment, TypeOK
        <3> HIDE DEF r, u
        <3>5. QED BY <2>1, <3>1, <3>2, <3>3, <3>4
    <2>7. CASE OcrPass(d) \/ OcrPassBlank(d) \/ Classify(d) \/ ReadRegion(d)
               \/ SkipRegion(d) \/ PrepareImage(d) \/ Cancel(d)
        <3>1. images'[d] = images[d] /\ pc[d] \in {"image", "passes", "regions"}
            BY <1>2, <2>7 DEF OcrPass, OcrPassBlank, OcrCommand, Classify, ReadRegion,
               SkipRegion, PrepareImage, Cancel, TypeOK
        <3>2. QED BY <1>2, <3>1 DEF PagesAreBounded
    <2>8. ~(Extract(d) \/ ExtractRefused(d) \/ CopyUpload(d) \/ NoReadableText(d)
            \/ Finish(d) \/ Fail(d) \/ Return(d))
        BY <1>2 DEF Extract, ExtractRefused, CopyUpload, NoReadableText, Finish, Fail,
           Return, End, TypeOK
    <2>9. QED
        BY <1>2, <2>2, <2>3, <2>4, <2>5, <2>6, <2>7, <2>8 DEF Next, CallStep, OwnStep
<1>3. QED BY <1>1, <1>2, ExtractionTypes, PTL DEF Spec
=============================================================================
