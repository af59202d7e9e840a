------------------------------- MODULE MCOffice -------------------------------
(***************************************************************************)
(* The back office: deadline arithmetic, policy versions, the finance      *)
(* view, quality reviews, regulatory returns, imports and suggestions.     *)
(* The three in the middle read one Casebook; otherwise they share no      *)
(* variable, and `scenario`, chosen at the start, says which one moves.    *)
(***************************************************************************)
EXTENDS DeadlineWalk, PolicyVersions, Exposure,
        QualityReviews, RegulatoryReturns,
        HistoryImport, Advice

CONSTANT MaxPublished   \* bound: policy versions

VARIABLE scenario

allVars ==
  <<walkVars, policyVars, bookVars, settlements, viewVars, reviews, run, due, template, returns,
    counting, importVars, adviceVars, scenario>>

-----------------------------------------------------------------------------
(* Hours that start late or leave a day closed; on day 1, when the clocks    *)
(* may change, hours that open or close inside the hour repeated, 0 to 2, or *)
(* skipped, 2 to 4; holidays up to the length of the week.                   *)
MCCalendars ==
  [ hours : { (0 :> <<0, 2>> @@ 1 :> <<1, 4>>), (0 :> <<2, 4>> @@ 1 :> Closed),
              (0 :> <<3, 5>> @@ 1 :> <<0, 1>>), (0 :> <<2, 3>> @@ 1 :> <<1, 3>>),
              (0 :> Closed @@ 1 :> <<3, 5>>) },
    holidays : { {}, {1, 2, 3} },
    always_open : {FALSE},
    change : [day : {1}, shift : {-2, 0, 2}] ]
  \cup
  [ hours : {(0 :> <<0, 2>> @@ 1 :> <<1, 4>>)}, holidays : {{1}, {0, 1, 2}},
    always_open : {FALSE}, change : [day : {1}, shift : {0}] ]
  \cup
  [ hours : {(0 :> Closed @@ 1 :> Closed)}, holidays : {{}, {1}}, always_open : {TRUE},
    change : [day : {1}, shift : {-2, 2}] ]

(* Pauses that overlap, touch, lie in one another, or end before they start. *)
MCPauses == { <<1, 3>>, <<3, 5>>, <<4, 7>>, <<2, 9>>, <<5, 6>>, <<3, 2>>, <<8, 12>> }

Body(hours, thresholds, reference) ==
  [field \in {"hours", "thresholds", "reference"} |->
     CASE field = "hours" -> hours [] field = "thresholds" -> thresholds [] OTHER -> reference]

MCBodies ==
  { <<Body(1, -1, -1), -1>>, <<Body(2, 1, -1), -1>>, <<Body(-1, 1, -1), -1>>,
    <<Body(-1, -1, 1), 2>>, <<Body(0, 1, 1), 1>>, <<Body(-1, -1, -2), -1>> }

MCSeeded == Body(1, 1, 1)

MCFilings == {<<1, "card">>, <<3, "other">>}
MCDecisions == {<<"upheld", 1>>, <<"rejected", NoRefund>>}
MCPeriods == {<<0, 1>>}
MCBands == << <<0, 1>>, <<1, 2>>, <<2, 0>> >>

MCTemplates ==
  { << <<"cases_received", "">>, <<"cases_by_outcome", "upheld">> >>,
    << <<"cases_resolved", "">>, <<"cases_outstanding", "">> >>,
    << <<"upheld_externally", "">>, <<"escalated_externally", "">> >>,
    << <<"customer_phone_numbers", "">> >> }

Line(reference, opened_at, policy) ==
  [reference |-> reference, opened_at |-> opened_at, policy |-> policy]
Read(reference) == Line(reference, "aware", TRUE)

(* Two files with the same references in opposite orders, one of rejects,    *)
(* one that repeats a reference, one with a date that has no offset.         *)
MCFiles ==
  { <<Read("r1"), Read("r2")>>, <<Read("r2"), Read(NoReference), Read("r1")>>,
    <<Line("r3", "unreadable", TRUE), Line("r3", "aware", FALSE), Read("r3")>>,
    <<Read("r4"), Read("r4")>>, <<Read("r5"), Line("r6", "naive", TRUE)>> }

MCHints == << <<"transfer", {"nip"}>>, <<"card", {"atm", "pos"}>> >>
MCTexts == { {}, {"atm", "pos", "nip", "vulnerable"} }

MCSymmetry == Permutations(Cases) \cup Permutations(Supervisors)

-----------------------------------------------------------------------------
WalkMoves ==
  /\ scenario = "walk" /\ Len(pauses) < 2
  /\ \/ \E moment \in {1, 2} : StartClock(moment)
     \/ \E p \in MCPauses : AddPause(p[1], p[2])
  /\ UNCHANGED <<policyVars, bookVars, settlements, viewVars, reviews, run, due, template, returns,
                 counting, importVars, adviceVars, scenario>>

PolicyMoves ==
  /\ scenario = "policy" /\ PolicyNext /\ Cardinality(versions') <= MaxPublished
  /\ UNCHANGED <<walkVars, bookVars, settlements, viewVars, reviews, run, due, template, returns,
                 counting, importVars, adviceVars, scenario>>

(* Bounds of the scenarios on the Casebook.  The finance view reads no track *)
(* and no payment, and one reading of it is followed, to its end.  The       *)
(* reviews read no filing day, no outcome, no determination and one day; of  *)
(* two cases one is in the top band.  For the returns one case of one amount *)
(* and one outcome moves every figure.                                      *)
ExposureMoves ==
  /\ scenario = "exposure" /\ view.at # "shown" /\ ExposureNext
  /\ view'.at # "none" => DOMAIN settlements' = {}
  /\ \A c \in DOMAIN book' : book'[c].tracks = {}
  /\ UNCHANGED <<walkVars, policyVars, reviews, run, due, template, returns, counting,
                 importVars, adviceVars, scenario>>

QualityMoves ==
  /\ scenario = "quality" /\ QualityNext
  /\ today' = 0
  /\ \A c \in DOMAIN book' :
       /\ book'[c].submitted_at = 0
       /\ book'[c].outcome # "rejected"
       /\ book'[c].tracks # {"upheld"}
       /\ \A d \in DOMAIN book' \ {c} : book'[d].amount # book'[c].amount
  /\ UNCHANGED <<walkVars, policyVars, settlements, viewVars, template, returns, counting,
                 importVars, adviceVars, scenario>>

ReturnsMoves ==
  /\ scenario = "returns" /\ ReturnsNext
  /\ today' <= 1
  /\ Cardinality(DOMAIN book') <= 1
  /\ \A c \in DOMAIN book' : book'[c].amount = 1 /\ book'[c].outcome # "rejected"
  /\ UNCHANGED <<walkVars, policyVars, settlements, viewVars, reviews, run, due, importVars,
                 adviceVars, scenario>>

ImportMoves ==
  /\ scenario = "import" /\ ImportNext
  /\ UNCHANGED <<walkVars, policyVars, bookVars, settlements, viewVars, reviews, run, due, template,
                 returns, counting, adviceVars, scenario>>

AdviceMoves ==
  /\ scenario = "advice" /\ AdviceNext
  /\ UNCHANGED <<walkVars, policyVars, bookVars, settlements, viewVars, reviews, run, due, template,
                 returns, counting, importVars, scenario>>

(* What a scenario does not move starts in one of its initial states.        *)
MCInit ==
  /\ scenario \in {"walk", "policy", "exposure", "quality", "returns", "import", "advice"}
  /\ LET calendars == IF scenario = "walk" THEN MCCalendars ELSE {CHOOSE c \in MCCalendars : TRUE}
     IN  WalkInit(calendars)
  /\ PolicyInit
  /\ BookInit
  /\ ExposureInit
  /\ QualityInit
  /\ ReturnsInit /\ (scenario # "returns" => template = <<CHOOSE rows \in Templates : TRUE>>)
  /\ ImportInit
  /\ AdviceInit /\ (scenario # "advice" => facts = [text |-> {}, size |-> "small"])

MCNext ==
  \/ WalkMoves
  \/ PolicyMoves
  \/ ExposureMoves
  \/ QualityMoves
  \/ ReturnsMoves
  \/ ImportMoves
  \/ AdviceMoves

MCSpec == MCInit /\ [][MCNext]_allVars

=============================================================================
