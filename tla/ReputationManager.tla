-------------------------- MODULE ReputationManager --------------------------
(***************************************************************************)
(* The reputation table of the bundler                                     *)
(* (packages/bundler/src/modules/ReputationManager.ts).  For every entity  *)
(* address it counts the operations seen in the mempool and the operations *)
(* included on chain, and derives a status from the two.                   *)
(*                                                                         *)
(* The methods are operators on a table, so that other modules can apply   *)
(* several of them within one synchronous stretch of JavaScript.  The      *)
(* state machine that drives one table with them is EventsManager's.       *)
(***************************************************************************)
EXTENDS Integers

CONSTANTS
  Addrs,                    \* the strings that can key the table
  NoAddr,                   \* undefined: the operation names no such entity
  NoEntry,                  \* undefined: the table has no entry
  whitelist, blackList,     \* fixed when the server starts (initServer.ts)
  MinInclusionDenominator,  \* ReputationParams.minInclusionDenominator
  ThrottlingSlack,          \* ReputationParams.throttlingSlack
  BanSlack,                 \* ReputationParams.banSlack
  CrashSeen,                \* the literal 100 of crashedHandleOps
  MaxOps                    \* bound on both counters, for model checking

ReputationEntry == [opsSeen : Nat, opsIncluded : Nat]

ASSUME AddrsAssumption ==
  /\ NoAddr \notin Addrs
  /\ NoEntry \notin ReputationEntry
  /\ whitelist \subseteq Addrs
  /\ blackList \subseteq Addrs

ASSUME ParamsAssumption ==
  /\ MinInclusionDenominator \in Nat
  /\ ThrottlingSlack \in Nat
  /\ BanSlack \in Nat
  /\ CrashSeen \in Nat

VARIABLE entries            \* Addrs -> ReputationEntry, or NoEntry

EntriesType == [Addrs -> ReputationEntry \cup {NoEntry}]
NoEntries == [a \in Addrs |-> NoEntry]
-----------------------------------------------------------------------------
(* Status *)

AlwaysOk(addr) == addr = NoAddr \/ addr \in whitelist

\* minExpectedIncluded > opsIncluded + slack.  The code divides without
\* rounding (Math.min of one argument), so the comparison is exact.
Behind(es, addr, slack) ==
  /\ es[addr] # NoEntry
  /\ es[addr].opsSeen > MinInclusionDenominator * (es[addr].opsIncluded + slack)

StatusUnlessListed(es, addr) ==
  IF ~Behind(es, addr, ThrottlingSlack) THEN "OK"
  ELSE IF ~Behind(es, addr, BanSlack) THEN "THROTTLED" ELSE "BANNED"

getStatus(es, addr) ==
  IF AlwaysOk(addr) THEN "OK"
  ELSE IF addr \in blackList THEN "BANNED" ELSE StatusUnlessListed(es, addr)
-----------------------------------------------------------------------------
(* Updates *)

getOrCreate(es, addr) ==
  IF es[addr] = NoEntry THEN [opsSeen |-> 0, opsIncluded |-> 0] ELSE es[addr]

updateSeenStatus(es, addr) ==
  IF addr = NoAddr THEN es
  ELSE [es EXCEPT ![addr] = [getOrCreate(es, addr) EXCEPT !.opsSeen = @ + 1]]

updateIncludedStatus(es, addr) ==
  [es EXCEPT ![addr] = [getOrCreate(es, addr) EXCEPT !.opsIncluded = @ + 1]]

\* "should be banned immediately" (ReputationManager.ts:150), but 100 operations
\* seen are what 10 * (0 + 10), the limit of BundlerReputationParams, tolerates.
crashedHandleOps(es, addr) ==
  IF addr = NoAddr THEN es
  ELSE [es EXCEPT ![addr] = [opsSeen |-> CrashSeen, opsIncluded |-> 0]]

\* Faulty variant: linear instead of exponential.
LinearDecay(n) == n - 2

Decay(n) == (n * 23) \div 24

\* Both counters are computed from opsSeen, which has just been decayed, although
\* the comment (ReputationManager.ts:65) speaks of a backoff of either.
cronEntry(e) ==
  LET seen     == Decay(e.opsSeen)
      included == Decay(seen)
  IN  IF seen = 0 /\ included = 0 THEN NoEntry
      ELSE [opsSeen |-> seen, opsIncluded |-> included]

hourlyCron(es) ==
  [a \in Addrs |-> IF es[a] = NoEntry THEN NoEntry ELSE cronEntry(es[a])]
-----------------------------------------------------------------------------
(* The table; EventsManager has its callers *)

Init == entries = NoEntries

\* Types: both counters stay natural numbers, whatever the cron takes away.
TypeOK == entries \in EntriesType
=============================================================================
