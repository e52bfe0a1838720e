------------------------------ MODULE Readiness ------------------------------
(***************************************************************************)
(* The readiness reports of the api and of the worker                      *)
(* (packages/observability/src/readiness.ts, probes.ts, and the /ready     *)
(* route of each service): every report probes every dependency at once,   *)
(* each probe against a timer of its own, and answers when all of them     *)
(* have settled.                                                           *)
(*                                                                         *)
(* A probe opens a socket, sends a request and reads until the reply is    *)
(* recognised; of a reply only what the probe tells apart is kept.  The    *)
(* services behind the addresses come and go at any time.                  *)
(***************************************************************************)
EXTENDS FiniteSets

CONSTANTS
  Report,      \* requests of /ready that may be under way at once
  Dependency,
  KindOf,      \* the probe each dependency has: "postgres", "redis" or "http"
  NotYet

ASSUME ReadinessAssumption ==
  /\ KindOf \in [Dependency -> {"postgres", "redis", "http"}]
  /\ NotYet # <<>>

VARIABLES
  service,  \* who is behind each dependency's address
  probe,    \* the probes of each report under way
  answer    \* each report as it was last answered, NotYet while it is awaited

readyVars == <<service, probe, answer>>

Probe == Report \X Dependency

(***************************************************************************)
(* Refusing: nobody listens.  Silent: connections are accepted and nothing *)
(* is ever said, as a container runtime does for a stopped container.      *)
(* Foreign: another protocol.  Alike: another protocol whose reply passes  *)
(* for this one, such as the banner of an SSH server, which begins with S. *)
(***************************************************************************)
Service == {"serving", "refusing", "silent", "foreign", "alike"}

Speaking == {"serving", "alike"}

Idle == [step |-> "idle", peer |-> NotYet, reply |-> "nothing", spoken |-> FALSE, trouble |-> FALSE]

ReadyInit ==
  /\ service \in [Dependency -> Service]
  /\ probe = [p \in Probe |-> Idle]
  /\ answer = [r \in Report |-> <<>>]

Waiting(r) == answer[r] = NotYet

Running(p) == probe[p].step \in {"connecting", "asked"}

\* settle: the socket is destroyed, and what comes later is not heard.
Settled(p, step, troubled) ==
  [Idle EXCEPT !.step = step, !.spoken = probe[p].spoken, !.trouble = troubled]

Up(p) == probe' = [probe EXCEPT ![p] = Settled(p, "up", FALSE)]

Down(p) == probe' = [probe EXCEPT ![p] = Settled(p, "down", TRUE)]

-----------------------------------------------------------------------------
\* createReadinessReporter: all probes start together, and so do their timers.
Request(r) ==
  /\ ~Waiting(r)
  /\ answer' = [answer EXCEPT ![r] = NotYet]
  /\ probe' = [p \in Probe |->
       IF p[1] = r THEN [Idle EXCEPT !.step = "connecting", !.spoken = service[p[2]] \in Speaking]
       ELSE probe[p]]
  /\ UNCHANGED service

\* Mutant: an open socket is taken for an answer.
Connect_Suffices(p) ==
  /\ probe[p].step = "connecting"
  /\ IF service[p[2]] = "refusing" THEN Down(p) ELSE Up(p)
  /\ UNCHANGED <<service, answer>>

\* The socket opens and the request is written to it, or it cannot be opened.
Connect(p) ==
  /\ probe[p].step = "connecting"
  /\ IF service[p[2]] = "refusing"
     THEN Down(p)
     ELSE probe' = [probe EXCEPT ![p].step = "asked", ![p].peer = service[p[2]]]
  /\ UNCHANGED <<service, answer>>

(***************************************************************************)
(* What a reply has come to once the next chunk is appended to it: a Redis *)
(* reply may come in pieces, PostgreSQL is known by its first byte and     *)
(* HTTP by its headers.  A reply of another protocol that stays short is   *)
(* waited on; a long one is given up, except by fetch, which knows at once.*)
(***************************************************************************)
Grows(p) ==
  LET kind == KindOf[p[2]]
  IN  CASE probe[p].peer = "serving" -> {"whole"} \cup
             (IF kind = "redis" /\ probe[p].reply = "nothing" THEN {"part"} ELSE {})
        [] probe[p].peer = "alike"   -> {"whole"}
        [] probe[p].peer = "foreign" -> IF kind = "http" THEN {"long"} ELSE {"other", "long"}
        [] OTHER                     -> {}

\* A chunk is read and the reply judged as far as it has come.
Data(p) ==
  /\ probe[p].step = "asked"
  /\ \E reply \in Grows(p) :
       \/ reply = "whole" /\ Up(p)
       \/ reply = "long" /\ Down(p)
       \/ /\ reply \in {"part", "other"} /\ reply # probe[p].reply
          /\ probe' = [probe EXCEPT ![p].reply = reply]
  /\ UNCHANGED <<service, answer>>

\* The socket ends or fails before the reply was recognised.
Break(p) ==
  /\ probe[p].step = "asked"
  /\ Down(p)
  /\ UNCHANGED <<service, answer>>

\* Mutant: the timer is cleared as soon as the dependency accepts the socket.
Timeout_ConnectOnly(p) ==
  /\ probe[p].step = "connecting"
  /\ Down(p)
  /\ UNCHANGED <<service, answer>>

\* Mutant: the probes of a report share one controller.
Timeout_Shared(p) ==
  /\ Running(p)
  /\ probe' = [q \in Probe |->
       IF q[1] = p[1] /\ Running(q)
       THEN Settled(q, "down", q = p)
       ELSE probe[q]]
  /\ UNCHANGED <<service, answer>>

\* The timer aborts the probe, which rejects the race whatever the probe does.
Timeout(p) ==
  /\ Running(p)
  /\ Down(p)
  /\ UNCHANGED <<service, answer>>

\* Every probe has settled: 200 if all are up, 503 otherwise.
Respond(r) ==
  /\ Waiting(r)
  /\ \A d \in Dependency : ~Running(<<r, d>>)
  /\ answer' = [answer EXCEPT ![r] = [d \in Dependency |-> probe[<<r, d>>].step]]
  /\ UNCHANGED <<service, probe>>

\* A service starts, stops, hangs or is replaced.
Change(d) ==
  /\ \E s \in Service \ {service[d]} :
       /\ service' = [service EXCEPT ![d] = s]
       /\ probe' = [p \in Probe |->
            IF p[2] = d /\ Waiting(p[1])
            THEN [probe[p] EXCEPT !.spoken = @ \/ s \in Speaking] ELSE probe[p]]
  /\ UNCHANGED answer

ReadyNext ==
  \/ \E r \in Report : Request(r) \/ Respond(r)
  \/ \E p \in Probe : Connect(p) \/ Data(p) \/ Break(p) \/ Timeout(p)
  \/ \E d \in Dependency : Change(d)

\* Timers fire and the process runs on; nothing is expected of a dependency.
Fairness ==
  /\ \A r \in Report : WF_readyVars(Respond(r))
  /\ \A p \in Probe : WF_readyVars(Timeout(p))

ReadySpec == ReadyInit /\ [][ReadyNext]_readyVars /\ Fairness

-----------------------------------------------------------------------------
(* Properties.                                                             *)

ReadyTypeOK ==
  /\ service \in [Dependency -> Service]
  /\ probe \in [Probe -> [step : {"idle", "connecting", "asked", "up", "down"},
                         peer : Service \cup {NotYet},
                         reply : {"nothing", "part", "other"},
                         spoken : BOOLEAN, trouble : BOOLEAN]]
  /\ answer \in [Report -> {NotYet, <<>>} \cup [Dependency -> {"up", "down"}]]

Answered(r) == ~Waiting(r) /\ answer[r] # <<>>

(***************************************************************************)
(* A dependency is called up only if, since this report was asked for,     *)
(* something that speaks as it does was behind its address: not on the     *)
(* strength of an open socket, of an earlier report or of another probe.   *)
(***************************************************************************)
UpHasSpoken ==
  \A r \in Report : Answered(r) =>
    \A d \in Dependency : answer[r][d] = "up" => probe[<<r, d>>].spoken

(***************************************************************************)
(* One unreachable dependency does not hide the state of the others: one   *)
(* is called down only after trouble of its own, and every dependency is   *)
(* in the report.                                                          *)
(***************************************************************************)
DownIsItsOwn ==
  \A r \in Report : Answered(r) =>
    \A d \in Dependency :
      /\ answer[r][d] \in {"up", "down"}
      /\ answer[r][d] = "down" <=> probe[<<r, d>>].trouble

(***************************************************************************)
(* A report always answers, whatever the dependencies do or never do.      *)
(***************************************************************************)
ReportsAnswer == \A r \in Report : Waiting(r) ~> ~Waiting(r)
=============================================================================
