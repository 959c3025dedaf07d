------------------------------ MODULE Extraction ------------------------------
(***************************************************************************)
(* How POST /admin/api/identity-documents/extract reads an uploaded copy:  *)
(* a workspace of its own, at most MaxDocumentPages page images, a wide    *)
(* image cut in two segments, three OCR passes over a segment, the card's  *)
(* side from what they read, the template regions of that side, and fields *)
(* from all the text in the end.                                           *)
(*                                                                         *)
(* A piece is what one OCR command reads, as far as the parser can tell    *)
(* pieces apart: the labels of a card's back, the dates in their order,    *)
(* and what follows the label of each other field.  The parser uses the    *)
(* first two dates, the labels and the first value of a field in the text, *)
(* and the first line of each tag; these are kept as the text grows.       *)
(***************************************************************************)
EXTENDS Naturals, Sequences

CONSTANTS
    Calls,             \* requests that may be under way at once
    Documents,         \* uploads: sequences of pages, each the sides its segments show
    MaxDocumentPages,  \* maxDocumentPages, 2
    Births, Expiries,  \* the dates printed on fronts, on backs
    Values,            \* of the other fields
    Unclear,           \* what follows a label but is no proper value
    None,
    PageReadings,      \* PageReadings[s]: pieces a pass over side s may give
    RegionReadings,    \* RegionReadings[s][r]: what region r on side s may give
    MaxFailures        \* failed removals and ends of the process (bound)

Sides == {"front", "back"}
BackLabels == {"common name", "blood group", "expires on"}
Labels == BackLabels \cup {"finger print"}
Kinds == {"national_id", "name", "common_name", "sex", "blood_group",
          "serial_number", "address"}
Dates == Births \cup Expiries

Regions == [front |-> <<"national_id", "name_english", "sex", "date_of_birth",
                        "address_english">>,
            back  |-> <<"serial_number", "common_name_english", "blood_group",
                        "expiry_date">>]
Tags == {Regions[s][i] : s \in Sides, i \in 1..4} \cup {"address_english"}

Maybe == Values \cup {None}
Piece == [labels: SUBSET Labels, dates: Seq(Dates), value: [Kinds -> Maybe]]

\* Only backs carry the labels, and only backs show expiry dates.
ReadableOn(s) ==
    {p \in Piece : s = "front" => p.labels = {}} \cap
    {p \in Piece : p.dates \in Seq(IF s = "front" THEN Births ELSE Expiries)}

ASSUME DatesAssumption == Births \cap Expiries = {} /\ None \notin Dates
ASSUME NoneAssumption == None \notin Values /\ None \notin Piece /\ Unclear \in Values
ASSUME DocumentsAssumption == Documents \subseteq Seq(Seq(Sides) \ {<<>>}) \ {<<>>}
ASSUME ReadingsAssumption ==
    \A s \in Sides :
        /\ \A p \in PageReadings[s] : p \in ReadableOn(s)
        /\ \A r \in Tags : \A p \in RegionReadings[s][r] : p \in ReadableOn(s)
ASSUME BoundAssumption == MaxDocumentPages \in Nat \ {0} /\ MaxFailures \in Nat

VARIABLES
    pc,         \* pc[c]: where the call is
    cancelled,  \* cancelled[c]: whether its client has gone
    workspaces, \* workspaces[c]: the directories its calls have on the disk
    images,     \* images[c]: the page images to read, each its segments' sides
    passes,     \* passes[c]: OCR passes made over the segment under way
    heard,      \* heard[c]: the pieces they gave
    regions,    \* regions[c]: the template regions still to read
    text,       \* text[c]: what the parser will see of the text so far
    result,     \* result[c]: the fields found
    unlabelled, \* unlabelled[c]: history, whether a back showed none of BackLabels
    failures    \* times that a removal failed or the process ended

vars == <<pc, cancelled, workspaces, images, passes, heard, regions, text, result,
          unlabelled, failures>>

Text == [labels: SUBSET Labels, dates: Seq(Dates), first: [Kinds -> Maybe],
         tagged: [Tags -> Piece \cup {None}]]
NoText == [labels |-> {}, dates |-> <<>>, first |-> [k \in Kinds |-> None],
           tagged |-> [r \in Tags |-> None]]

Result == [national_id: Maybe, name_english: Maybe, sex: Maybe,
           date_of_birth: Dates \cup {None}, expiry_date: Dates \cup {None},
           common_name_english: Maybe, blood_group: Maybe, serial_number: Maybe,
           address_english: Maybe]
NoFields == [national_id |-> None, name_english |-> None, sex |-> None,
             date_of_birth |-> None, expiry_date |-> None, common_name_english |-> None,
             blood_group |-> None, serial_number |-> None, address_english |-> None]

UnderWay == {"copy", "render", "image", "passes", "regions"}

TypeOK ==
    /\ pc \in [Calls -> UnderWay \cup {"idle", "answer"}]
    /\ cancelled \in [Calls -> BOOLEAN]
    /\ workspaces \in [Calls -> Nat]
    /\ images \in [Calls -> Seq(Seq(Sides) \ {<<>>})]
    /\ passes \in [Calls -> 0..3]
    /\ heard \in [Calls -> SUBSET Piece]
    /\ regions \in [Calls -> Seq(Tags)]
    /\ text \in [Calls -> Text]
    /\ result \in [Calls -> Result]
    /\ unlabelled \in [Calls -> BOOLEAN]
    /\ failures \in 0..MaxFailures
    /\ \A c \in Calls : pc[c] \in {"passes", "regions"} => images[c] # <<>>
    /\ \A c \in Calls : pc[c] \in UnderWay => workspaces[c] > 0

Init ==
    /\ pc = [c \in Calls |-> "idle"]
    /\ cancelled = [c \in Calls |-> FALSE]
    /\ workspaces = [c \in Calls |-> 0]
    /\ images = [c \in Calls |-> <<>>]
    /\ passes = [c \in Calls |-> 0]
    /\ heard = [c \in Calls |-> {}]
    /\ regions = [c \in Calls |-> <<>>]
    /\ text = [c \in Calls |-> NoText]
    /\ result = [c \in Calls |-> NoFields]
    /\ unlabelled = [c \in Calls |-> FALSE]
    /\ failures = 0

-----------------------------------------------------------------------------
(***************************************************************************)
(* The text.                                                               *)
(***************************************************************************)
FirstOf(v, w) == IF v # None THEN v ELSE w
Clean(v) == IF v = Unclear THEN None ELSE v

\* An F anywhere outweighs every M, the sex region's too.
FirstValues(t, p) ==
    [k \in Kinds |-> IF k = "sex" /\ p.value[k] = "F" THEN "F"
                     ELSE FirstOf(t.first[k], p.value[k])]

FirstTwo(q) == SubSeq(q, 1, IF Len(q) < 2 THEN Len(q) ELSE 2)

Plus(t, p) ==
    [labels |-> t.labels \cup p.labels, dates |-> FirstTwo(t.dates \o p.dates),
     first |-> FirstValues(t, p), tagged |-> t.tagged]

\* The line that begins with r; a later one does not count.
PlusTagged(t, r, p) ==
    [Plus(t, p) EXCEPT !.tagged = [t.tagged EXCEPT ![r] = FirstOf(t.tagged[r], p)]]

IsBack(t) == t.labels \cap BackLabels # {}

TaggedValue(t, r, k) == IF t.tagged[r] = None THEN None ELSE t.tagged[r].value[k]

TaggedDate(t, r) ==
    IF t.tagged[r] = None \/ t.tagged[r].dates = <<>> THEN None
    ELSE Head(t.tagged[r].dates)

\* Fault: the first date is taken for the date of birth on either side.
DateOfBirthEitherSide(t) ==
    FirstOf(TaggedDate(t, "date_of_birth"),
            IF t.dates # <<>> THEN Head(t.dates) ELSE None)

DateOfBirth(t) ==
    FirstOf(TaggedDate(t, "date_of_birth"),
            IF t.dates # <<>> /\ ~IsBack(t) THEN Head(t.dates) ELSE None)

\* Without a region to tell, the second date of the text, or a back's only one.
ExpiryDate(t) ==
    FirstOf(TaggedDate(t, "expiry_date"),
            IF Len(t.dates) > 1 \/ (t.dates # <<>> /\ IsBack(t))
            THEN t.dates[Len(t.dates)] ELSE None)

CommonName(t) ==
    FirstOf(Clean(TaggedValue(t, "common_name_english", "common_name")),
            Clean(t.first["common_name"]))

NameEnglish(t) ==
    IF IsBack(t) THEN CommonName(t)
    ELSE FirstOf(FirstOf(Clean(TaggedValue(t, "name_english", "name")),
                         Clean(t.first["name"])),
                 CommonName(t))

AddressEnglish(t) ==
    Clean(FirstOf(TaggedValue(t, "address_english", "address"), t.first["address"]))

ParseIdentityText(t) ==
    LET found(k) == FirstOf(TaggedValue(t, k, k), t.first[k])
    IN  [national_id |-> found("national_id"), name_english |-> NameEnglish(t),
         sex |-> t.first["sex"],
         date_of_birth |-> DateOfBirth(t), expiry_date |-> ExpiryDate(t),
         common_name_english |-> CommonName(t),
         blood_group |-> found("blood_group"), serial_number |-> found("serial_number"),
         address_english |-> AddressEnglish(t)]

-----------------------------------------------------------------------------
(***************************************************************************)
(* One request.  OCR and rendering are commands run under the request's    *)
(* context: once the client has gone they fail.                            *)
(***************************************************************************)
GoTo(c, label) == pc' = [pc EXCEPT ![c] = label]

\* Whichever way Extract returns, it removes the workspace with all that is in
\* it; a removal that fails leaves it on the disk, which nobody learns.
End(c, fields) ==
    /\ GoTo(c, "answer")
    /\ images' = [images EXCEPT ![c] = <<>>]
    /\ passes' = [passes EXCEPT ![c] = 0]
    /\ heard' = [heard EXCEPT ![c] = {}]
    /\ regions' = [regions EXCEPT ![c] = <<>>]
    /\ text' = [text EXCEPT ![c] = NoText]
    /\ result' = [result EXCEPT ![c] = fields]
    /\ \/ workspaces' = [workspaces EXCEPT ![c] = @ - 1] /\ UNCHANGED failures
       \/ /\ failures < MaxFailures
          /\ failures' = failures + 1
          /\ UNCHANGED workspaces

\* An upload the handler accepts.
Extract(c) ==
    /\ pc[c] = "idle"
    /\ \E d \in Documents : images' = [images EXCEPT ![c] = d]
    /\ workspaces' = [workspaces EXCEPT ![c] = @ + 1]
    /\ GoTo(c, "copy")
    /\ UNCHANGED <<cancelled, passes, heard, regions, text, result, unlabelled, failures>>

\* No extractor, or no temporary directory: an answer without a workspace.
ExtractRefused(c) ==
    /\ pc[c] = "idle"
    /\ GoTo(c, "answer")
    /\ UNCHANGED <<cancelled, workspaces, images, passes, heard, regions, text, result,
                   unlabelled, failures>>

\* Any step may fail, and ends the call; but the failure of a region's OCR does
\* not.
Fail(c) ==
    /\ pc[c] \in UnderWay
    /\ End(c, NoFields)
    /\ UNCHANGED <<cancelled, unlabelled>>

CopyUpload(c) ==
    /\ pc[c] = "copy"
    /\ GoTo(c, "render")
    /\ UNCHANGED <<cancelled, workspaces, images, passes, heard, regions, text, result,
                   unlabelled, failures>>

\* Only the first pages of a PDF are rendered; an image is one page, and needs
\* no command.
ImageInputs(c) ==
    /\ pc[c] = "render"
    /\ ~cancelled[c] \/ Len(images[c]) = 1
    /\ images' = [images EXCEPT ![c] =
           SubSeq(@, 1, IF Len(@) < MaxDocumentPages THEN Len(@) ELSE MaxDocumentPages)]
    /\ GoTo(c, "image")
    /\ UNCHANGED <<cancelled, workspaces, passes, heard, regions, text, result, unlabelled,
                   failures>>

\* The next image is cropped, and cut in two if it is wide.
PrepareImage(c) ==
    /\ pc[c] = "image"
    /\ images[c] # <<>>
    /\ GoTo(c, "passes")
    /\ UNCHANGED <<cancelled, workspaces, images, passes, heard, regions, text, result,
                   unlabelled, failures>>

Side(c) == Head(Head(images[c]))

\* The label of a back, any of the four, in what has been read of the segment.
ClassifiedBack(pieces) == \E p \in pieces : p.labels # {}

OcrCommand(c) == pc[c] = "passes" /\ passes[c] < 3 /\ ~cancelled[c]

\* A pass that gives a piece: it joins the text, unless an earlier pass gave it
\* in the same words.
OcrPass(c) ==
    /\ OcrCommand(c)
    /\ \E p \in PageReadings[Side(c)] :
         /\ heard' = [heard EXCEPT ![c] = @ \cup {p}]
         /\ \/ text' = [text EXCEPT ![c] = Plus(@, p)]
            \/ p \in heard[c] /\ UNCHANGED text
    /\ passes' = [passes EXCEPT ![c] = @ + 1]
    /\ UNCHANGED <<pc, cancelled, workspaces, images, regions, result, unlabelled, failures>>

OcrPassBlank(c) ==
    /\ OcrCommand(c)
    /\ passes' = [passes EXCEPT ![c] = @ + 1]
    /\ UNCHANGED <<pc, cancelled, workspaces, images, heard, regions, text, result,
                   unlabelled, failures>>

\* Three passes without a word end the call.
NoReadableText(c) ==
    /\ pc[c] = "passes"
    /\ passes[c] = 3
    /\ heard[c] = {}
    /\ End(c, NoFields)
    /\ UNCHANGED <<cancelled, unlabelled>>

Classify(c) ==
    /\ pc[c] = "passes"
    /\ passes[c] = 3
    /\ heard[c] # {}
    /\ regions' = [regions EXCEPT ![c] =
           Regions[IF ClassifiedBack(heard[c]) THEN "back" ELSE "front"]]
    /\ unlabelled' = [unlabelled EXCEPT ![c] =
           @ \/ (Side(c) = "back" /\ \A p \in heard[c] : p.labels \cap BackLabels = {})]
    /\ passes' = [passes EXCEPT ![c] = 0]
    /\ heard' = [heard EXCEPT ![c] = {}]
    /\ GoTo(c, "regions")
    /\ UNCHANGED <<cancelled, workspaces, images, text, result, failures>>

\* The next region of the side the segment was taken for, cut from whatever
\* side it is.
ReadRegion(c) ==
    /\ pc[c] = "regions"
    /\ regions[c] # <<>>
    /\ ~cancelled[c]
    /\ \E p \in RegionReadings[Side(c)][Head(regions[c])] :
         text' = [text EXCEPT ![c] = PlusTagged(@, Head(regions[c]), p)]
    /\ regions' = [regions EXCEPT ![c] = Tail(@)]
    /\ UNCHANGED <<pc, cancelled, workspaces, images, passes, heard, result, unlabelled,
                   failures>>

\* Fault: a region whose OCR fails is tried again.
SkipRegionRetried(c) ==
    /\ pc[c] = "regions"
    /\ regions[c] # <<>>
    /\ UNCHANGED vars

\* A region that is blank, or whose OCR fails, is passed over.
SkipRegion(c) ==
    /\ pc[c] = "regions"
    /\ regions[c] # <<>>
    /\ regions' = [regions EXCEPT ![c] = Tail(@)]
    /\ UNCHANGED <<pc, cancelled, workspaces, images, passes, heard, text, result,
                   unlabelled, failures>>

\* Fault: the half of a wide image is not told from a whole image.
NextSegmentAlways(c) ==
    /\ pc[c] = "regions"
    /\ regions[c] = <<>>
    /\ images' = [images EXCEPT ![c] = <<Tail(Head(@))>> \o Tail(@)]
    /\ GoTo(c, "passes")
    /\ UNCHANGED <<cancelled, workspaces, passes, heard, regions, text, result, unlabelled,
                   failures>>

\* On to the other half of a wide image, or to the next image.
NextSegment(c) ==
    /\ pc[c] = "regions"
    /\ regions[c] = <<>>
    /\ \/ /\ Len(Head(images[c])) > 1
          /\ images' = [images EXCEPT ![c] = <<Tail(Head(@))>> \o Tail(@)]
          /\ GoTo(c, "passes")
       \/ /\ Len(Head(images[c])) = 1
          /\ images' = [images EXCEPT ![c] = Tail(@)]
          /\ GoTo(c, "image")
    /\ UNCHANGED <<cancelled, workspaces, passes, heard, regions, text, result, unlabelled,
                   failures>>

Finish(c) ==
    /\ pc[c] = "image"
    /\ images[c] = <<>>
    /\ End(c, ParseIdentityText(text[c]))
    /\ UNCHANGED <<cancelled, unlabelled>>

Return(c) ==
    /\ pc[c] = "answer"
    /\ GoTo(c, "idle")
    /\ cancelled' = [cancelled EXCEPT ![c] = FALSE]
    /\ result' = [result EXCEPT ![c] = NoFields]
    /\ unlabelled' = [unlabelled EXCEPT ![c] = FALSE]
    /\ UNCHANGED <<workspaces, images, passes, heard, regions, text, failures>>

Cancel(c) ==
    /\ pc[c] \in UnderWay
    /\ cancelled' = [cancelled EXCEPT ![c] = TRUE]
    /\ UNCHANGED <<pc, workspaces, images, passes, heard, regions, text, result, unlabelled,
                   failures>>

\* The process ends and skips the deferred removals: the workspaces of the calls
\* under way stay on the disk.
Stop ==
    /\ failures < MaxFailures
    /\ \E c \in Calls : pc[c] \in UnderWay
    /\ failures' = failures + 1
    /\ pc' = [c \in Calls |-> "idle"]
    /\ cancelled' = [c \in Calls |-> FALSE]
    /\ UNCHANGED workspaces
    /\ images' = [c \in Calls |-> <<>>]
    /\ passes' = [c \in Calls |-> 0]
    /\ heard' = [c \in Calls |-> {}]
    /\ regions' = [c \in Calls |-> <<>>]
    /\ text' = [c \in Calls |-> NoText]
    /\ result' = [c \in Calls |-> NoFields]
    /\ unlabelled' = [c \in Calls |-> FALSE]

\* What the server does of itself, its commands apart.
OwnStep(c) ==
    \/ CopyUpload(c)
    \/ PrepareImage(c)
    \/ NoReadableText(c)
    \/ Classify(c)
    \/ NextSegment(c)
    \/ Finish(c)
    \/ Return(c)

\* What becomes of a command under way when its context is cancelled.
Killed(c) ==
    /\ cancelled[c]
    /\ \/ pc[c] = "render" /\ (Fail(c) \/ ImageInputs(c))
       \/ pc[c] = "passes" /\ passes[c] < 3 /\ Fail(c)
       \/ SkipRegion(c)

CallStep(c) ==
    \/ Extract(c)
    \/ ExtractRefused(c)
    \/ OwnStep(c)
    \/ ImageInputs(c)
    \/ OcrPass(c)
    \/ OcrPassBlank(c)
    \/ ReadRegion(c)
    \/ SkipRegion(c)
    \/ Fail(c)
    \/ Cancel(c)

Next == Stop \/ \E c \in Calls : CallStep(c)

\* A command that is not cancelled may run forever: no timeout is set.
Fairness == \A c \in Calls : WF_vars(OwnStep(c)) /\ WF_vars(Killed(c))

Spec == Init /\ [][Next]_vars /\ Fairness

-----------------------------------------------------------------------------
(***************************************************************************)
(* Safety.                                                                 *)
(***************************************************************************)

\* An expiry date is taken for a date of birth only when a back was read
\* without "Common Name", "Blood Group" and "Expires on".
ExpiryIsNotBirth ==
    \A c \in Calls : result[c].date_of_birth \in Expiries => unlabelled[c]

\* A call whose client has gone comes to an end, whatever its commands do.
CancelledEnds == \A c \in Calls : cancelled[c] ~> pc[c] = "idle"
=============================================================================
