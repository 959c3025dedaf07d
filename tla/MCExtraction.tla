----------------------------- MODULE MCExtraction -----------------------------
(***************************************************************************)
(* An instance of Extraction for TLC: one front and one back, read well or *)
(* badly.                                                                  *)
(***************************************************************************)
EXTENDS Extraction

\* One page of either side, both on one wide page, a page each, and a third
\* page.
MCDocuments ==
    {<< <<"front">> >>, << <<"back">> >>, << <<"front", "back">> >>,
     << <<"front">>, <<"back">> >>, << <<"back">>, <<"front">>, <<"back">> >>}

Read(seen, shown, found) ==
    [labels |-> seen, dates |-> shown,
     value |-> [k \in Kinds |-> IF k \in DOMAIN found THEN found[k] ELSE None]]

Birth == CHOOSE d \in Births : TRUE
Expiry == CHOOSE d \in Expiries : TRUE

\* A pass reads most of the card, or little of it; on the back, without the
\* labels or with the one label the parser does not know.
MCPageReadings ==
    [front |-> {Read({}, <<Birth>>, [name |-> "name", sex |-> "M"]),
                Read({}, <<Birth>>, [name |-> Unclear, sex |-> "F"])},
     back  |-> {Read({"common name", "expires on"}, <<Expiry>>, [common_name |-> "name"]),
                Read({"finger print"}, <<>>, << >>),
                Read({}, <<Expiry>>, << >>)}]

\* A region reads what belongs there, or what the other side has there.
FrontRegions ==
    [national_id |-> {Read({}, <<>>, [national_id |-> "number"])},
     name_english |-> {Read({}, <<>>, [name |-> "name"]), Read({}, <<>>, [name |-> Unclear])},
     date_of_birth |-> {Read({}, <<Birth>>, << >>), Read({}, <<>>, << >>)},
     expiry_date |-> {Read({}, <<Birth>>, << >>)}]
BackRegions ==
    [date_of_birth |-> {Read({}, <<Expiry>>, << >>)},
     common_name_english |-> {Read({"common name"}, <<>>, [common_name |-> "name"])},
     expiry_date |-> {Read({"expires on"}, <<Expiry>>, << >>), Read({}, <<Expiry>>, << >>)}]

MCRegionReadings ==
    [s \in Sides |->
        LET known == IF s = "front" THEN FrontRegions ELSE BackRegions
        IN  [r \in Tags |-> IF r \in DOMAIN known THEN known[r] ELSE {}]]
=============================================================================
