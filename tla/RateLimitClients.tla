-------------------------- MODULE RateLimitClients ------------------------
(***************************************************************************)
(* Clients of the rate limiter over time: what the `rateLimit' steps admit *)
(* is recorded, so that it can be compared with what the documentation     *)
(* says of the limiter (docs/middleware/rate_limit.md and the comments of  *)
(* runtime/context.rs).                                                    *)
(***************************************************************************)
EXTENDS RateLimit, Totals

CONSTANT Horizon   \* how many ticks the history goes back

ASSUME ClientsAssumption == Horizon \in Nat \ {0} /\ Configs # {}

VARIABLES
  answer,     \* the last answer of check_and_increment for each key
  recent      \* history: requests admitted for a key by their age in ticks,
              \* since the full map last dropped the key

vars == <<entries, rank, answer, recent>>

Ages == 0..(Horizon - 1)
Nothing == [a \in Ages |-> 0]

ClientsInit ==
  /\ Init
  /\ answer = [k \in Keys |-> "none"]
  /\ recent = [k \in Keys |-> Nothing]

\* The middleware: an admitted request goes on, a denied one is an error.
Request(k, c) ==
  /\ CheckAndIncrement(k, c)
  /\ answer' = [answer EXCEPT ![k] = IF Admits(k, c) THEN "allowed" ELSE "denied"]
  /\ recent' = [j \in Keys |->
                  IF j = k THEN IF Admits(k, c) THEN [recent[k] EXCEPT ![0] = @ + 1]
                                ELSE recent[k]
                  ELSE IF j \in Held \ Held' THEN Nothing
                  ELSE recent[j]]

Elapse ==
  /\ Tick
  /\ recent' = [k \in Keys |->
                  [a \in Ages |-> IF a = 0 THEN 0 ELSE recent[k][a - 1]]]
  /\ UNCHANGED answer

Peek(k) == GetCount(k) /\ UNCHANGED <<answer, recent>>

ClientsNext ==
  \/ Elapse
  \/ \E k \in Keys : Peek(k) \/ \E c \in Configs : Request(k, c)

ClientsSpec == ClientsInit /\ [][ClientsNext]_vars

\* The clock advances, and each client asks again and again.
Fairness ==
  /\ WF_vars(Elapse)
  /\ \A k \in Keys : WF_vars(\E c \in Configs : Request(k, c))

FairSpec == ClientsSpec /\ Fairness

---------------------------------------------------------------------------
(***************************************************************************)
(* Properties.                                                             *)
(***************************************************************************)
MaxLimit == CHOOSE n \in {EffectiveLimit(c) : c \in Configs} :
              \A c \in Configs : EffectiveLimit(c) <= n
ShortestWindow == CHOOSE t \in {Tps * WindowSecs(c) : c \in Configs} :
                    \A c \in Configs : t <= Tps * WindowSecs(c)

\* Requests admitted in the last t ticks.
Recently(k, t) == Total(recent[k], Ages \cap 0..(t - 1))

\* Two windows at most meet in a stretch as long as the shortest window, so
\* no more than twice the highest effective limit passes in it; at most one
\* request per window passes where that limit is zero.
AtMostTwoWindows ==
  \A k \in Keys :
    Recently(k, ShortestWindow) <= 2 * (IF MaxLimit = 0 THEN 1 ELSE MaxLimit)

\* A client that keeps asking is let through again and again: a denied
\* request does not prolong its window, whichever other keys and
\* configurations compete for the map.
NobodyStarves == \A k \in Keys : []<>(answer[k] = "allowed")
===========================================================================
