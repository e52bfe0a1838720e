--------------------------- MODULE MCExperimentRun ---------------------------
(* Instances of ExperimentRun for TLC.                                     *)
EXTENDS ExperimentRun

CONSTANTS s1, s2

TwoShots == <<s1, s2>>

\* Drafts at one dollar a unit, twice each shot, under a cap of nine.
Drafts(unit) ==
  [provider |-> "replicate", credentials |-> TRUE, tier |-> "draft", unit |-> unit,
   price |-> 1, cap |-> 9, maxAttempts |-> 2]

DryRun == [Drafts("output_second") EXCEPT !.provider = "offline", !.credentials = FALSE,
                                          !.price = None, !.cap = None]

(***************************************************************************)
(* Four units, of which one is billed beyond any estimate and one below    *)
(* it; a run for nothing; and two that are refused, one for want of a cap. *)
(***************************************************************************)
SomeEnvironments ==
  {Drafts("output_second"), Drafts("compute_second"), Drafts("generated_frame"), Drafts("request"),
   DryRun, [Drafts("request") EXCEPT !.cap = None], [Drafts("request") EXCEPT !.price = None]}

\* A short render, one past the maximum whose frames are not counted, and one
\* whose container does not say how long it is, nor its stream.
Short == [container |-> 4, stream |-> None, averageRate |-> 24, baseRate |-> 30,
          frames |-> 96, compute |-> 0]

SomeRenders ==
  {Short, [Short EXCEPT !.compute = 7], [Short EXCEPT !.container = None],
   [Short EXCEPT !.container = None, !.stream = 9, !.averageRate = None,
                 !.frames = None, !.compute = None]}

Unreached == [transport |-> "network_error", status |-> None, hint |-> None]
Answered(status, hint) == [transport |-> "responded", status |-> status, hint |-> hint]

\* A refusal may come as any status, also as one that is otherwise retried.
SomeFailures ==
  [request \in {"offline", "replicate"} \X {"submit", "poll"} |->
     CASE request = <<"offline", "submit">> -> {Answered(422, "moderation_rejected")}
       [] request = <<"offline", "poll">> -> {Answered(503, None)}
       [] request = <<"replicate", "submit">> ->
            {Unreached, NoneInTime, Answered(429, None), Answered(503, "moderation_rejected")}
       [] request = <<"replicate", "poll">> -> {Unreached, Answered(None, None)}]
=============================================================================
