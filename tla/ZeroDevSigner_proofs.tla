------------------------- MODULE ZeroDevSigner_proofs -------------------------
(***************************************************************************)
(* What the retries of the signer can and cannot do, for any number of     *)
(* calls, fees and retries.  The invariant says where each call stands     *)
(* with its attempts (Recorded, Counted, Priced), which attempts the       *)
(* bundlers can have taken (TakenOK), why what was announced stays covered *)
(* (AnnouncedInv), and what the frames of a call that runs alone will put  *)
(* back when they return (ScopeInv).                                       *)
(***************************************************************************)
EXTENDS ZeroDevSigner, TLAPS

Taken == executed \cup dropped \cup UNION {pools[b] : b \in Providers}

\* The operation is made and not sent yet.
Unsent == {"prepared", "sponsored", "built"}
Pending == {"idle", "building"} \cup Unsent

Attempts(c) == 1..Len(sent[c])

\* The frames of c hold its last attempt, or one that is not sent yet.
Recorded(c) ==
  /\ calls[c].pc = "idle" => calls[c].retry = 0
  /\ \A i \in Attempts(c) : sent[c][i].op.call = c /\ sent[c][i].op.attempt = i
  /\ calls[c].pc \in Unsent =>
       /\ calls[c].op.call = c /\ calls[c].op.attempt = Len(sent[c]) + 1
       /\ calls[c].op.retry = calls[c].retry /\ calls[c].op.fallback = calls[c].fallback
  /\ calls[c].pc \notin Pending \cup {"threw"} =>
       Len(sent[c]) > 0 /\ calls[c].op = sent[c][Len(sent[c])].op

\* Without a fallback every attempt but the first is a retry.
Counted(c) ==
  ~config.fallback =>
    /\ calls[c].pc \in Pending => Len(sent[c]) = calls[c].retry
    /\ calls[c].pc \notin Pending \cup {"threw"} => Len(sent[c]) = calls[c].retry + 1
    /\ Len(sent[c]) <= calls[c].retry + 1

\* The fee of a resend is that of the attempt before, increased; Gelato's is 0.
Priced(c) ==
  ~config.session /\ ~config.paymasterFees =>
    /\ config.gelato =>
         /\ calls[c].pc \in Unsent => calls[c].op.fee = 0
         /\ \A i \in Attempts(c) : sent[c][i].op.fee = 0
    /\ calls[c].pc = "building" /\ calls[c].retry > 0 =>
         Len(sent[c]) > 0 /\ calls[c].fee = increasedFee(sent[c][Len(sent[c])].op.fee)
    /\ calls[c].pc \in Unsent /\ calls[c].retry > 0 =>
         Len(sent[c]) > 0 /\ (sent[c][Len(sent[c])].op.fee >= 34 =>
                                10 * calls[c].op.fee > 11 * sent[c][Len(sent[c])].op.fee)
    /\ \A i \in Attempts(c) :
         i > 1 /\ sent[c][i].op.retry > 0 /\ sent[c][i-1].op.fee >= 34 =>
           10 * sent[c][i].op.fee > 11 * sent[c][i-1].op.fee

\* Where the call of a taken last attempt may stand.
WillNotResend(c) ==
  \/ calls[c].pc \in {"accepted", "failed", "unreadable", "returning", "returned", "threw"}
  \/ calls[c].pc = "building" /\ calls[c].fallback
  \/ calls[c].pc \in Unsent /\ calls[c].op.fallback

\* A bundler took o: what follows it is a fallback, and if nothing does yet, its
\* call is not about to resend.
TakenOK(o) ==
  /\ o.call \in Calls /\ o.attempt \in Attempts(o.call)
  /\ o.attempt < Len(sent[o.call]) => sent[o.call][o.attempt + 1].op.fallback
  /\ o.attempt = Len(sent[o.call]) => WillNotResend(o.call)

CallInv == \A c \in Calls : Recorded(c) /\ Counted(c) /\ Priced(c)
TakenInv == \A o \in Taken : TakenOK(o)

\* What waits with a bundler, or was dropped by one.
Left == dropped \cup UNION {pools[b] : b \in Providers}

\* The account is past the nonce of o, or an operation of that nonce that pays no
\* less is left.
Covered(o) ==
  \/ o.nonce < nonce
  \/ \E p \in Left : p.nonce = o.nonce /\ p.fee >= o.fee

\* Neither what was announced nor an accepted operation ceases to be covered.
AnnouncedInv ==
  ~config.session =>
    /\ \A o \in announced : Covered(o)
    /\ \A c \in Calls : calls[c].pc = "accepted" => Covered(calls[c].op)

\* The providers that the frames of a call put aside: the first frame to fall
\* back found the primary ones, each further one those of the fallback.
Restores(saved) ==
  /\ saved = <<>> => providers = "primary"
  /\ saved # <<>> => providers = "fallback" /\ saved[1] = "primary"
  /\ \A i \in 1..Len(saved) : i > 1 => saved[i] = "fallback"

Failed(c) == calls[c].pc \in {"threw", "gaveUp"}

OneAtATime == \A c, d \in Calls : Active(c) /\ Active(d) => c = d

\* A frame in fallback mode has the fallback's providers until it returns.
ModeOK(c) ==
  /\ calls[c].pc = "idle" => ~calls[c].fallback /\ calls[c].saved = <<>>
  /\ Active(c) /\ calls[c].pc # "returning" /\ calls[c].fallback => providers = "fallback"
  /\ calls[c].pc \in {"sponsored", "built"} /\ calls[c].op.fallback => calls[c].op.sponsor = "fallback"

SentOK(c) ==
  \A i \in Attempts(c) :
    sent[c][i].op.fallback => sent[c][i].op.sponsor = "fallback" /\ sent[c][i].bundler = "fallback"

\* As long as no call failed, what is saved leads back to the primary providers.
ScopeInv ==
  config.serial =>
    /\ OneAtATime
    /\ \A c \in Calls : ModeOK(c) /\ SentOK(c)
    /\ (\A c \in Calls : ~Failed(c)) =>
         /\ \A c \in Calls : Active(c) => Restores(calls[c].saved)
         /\ (\A c \in Calls : ~Active(c)) => providers = "primary"

IInv == TypeOK /\ CallInv /\ TakenInv /\ AnnouncedInv /\ ScopeInv
-----------------------------------------------------------------------------
(* The frame of each step of the client *)

\* The frame of c becomes another of the right type.
FrameBecomes(c, frame) ==
  /\ frame \in FrameType
  /\ calls' \in [Calls -> FrameType]
  /\ calls'[c] = frame /\ \A d \in Calls \ {c} : calls'[d] = calls[d]
  /\ config' = config

\* It does so by a step of the client.
Becomes(c, frame) ==
  FrameBecomes(c, frame) /\ UNCHANGED <<pools, dropped, nonce, executed>>

LEMMA GoesBecomes ==
  ASSUME TypeOK, NEW c \in Calls, NEW frame \in FrameType, Goes(c, frame)
  PROVE  Becomes(c, frame)
  BY DEF TypeOK, Goes, Becomes, FrameBecomes, outside

LEMMA StartStep ==
  ASSUME TypeOK, NEW c \in Calls, Start(c)
  PROVE  /\ Becomes(c, [calls[c] EXCEPT !.pc = "building"])
         /\ calls[c].pc = "idle"
         /\ UNCHANGED <<providers, sent, announced>>
<1>1. [calls[c] EXCEPT !.pc = "building"] \in FrameType
  BY DEF TypeOK, FrameType, Ended
<1> QED BY <1>1, GoesBecomes DEF Start

LEMMA ThrowStep ==
  ASSUME TypeOK, NEW c \in Calls, BuildFails(c) \/ Throw(c)
  PROVE  /\ Becomes(c, [calls[c] EXCEPT !.pc = "threw"])
         /\ calls[c].pc \in {"building", "prepared", "sponsored", "failed", "unreadable"}
         /\ UNCHANGED <<providers, sent, announced>>
<1>1. [calls[c] EXCEPT !.pc = "threw"] \in FrameType
  BY DEF TypeOK, FrameType, Ended
<1> QED BY <1>1, GoesBecomes DEF BuildFails, Throw

NewOp(c, f) ==
  [call |-> c, attempt |-> Len(sent[c]) + 1, nonce |-> nonce, fee |-> f,
   retry |-> calls[c].retry, fallback |-> calls[c].fallback, sponsor |-> Nobody]

LEMMA PrepareStep ==
  ASSUME TypeOK, NEW c \in Calls, Prepare(c)
  PROVE  \E f \in ownFees(c) :
           /\ Becomes(c, [calls[c] EXCEPT !.pc = "prepared", !.op = NewOp(c, f)])
           /\ NewOp(c, f) \in OpType
           /\ calls[c].pc = "building"
           /\ UNCHANGED <<providers, sent, announced>>
<1>1. PICK f \in ownFees(c) : Goes(c, [calls[c] EXCEPT !.pc = "prepared", !.op = NewOp(c, f)])
  BY DEF Prepare, NewOp
<1>2. NewOp(c, f) \in OpType
  <2>1. Len(sent[c]) \in Nat
    BY DEF TypeOK
  <2>2. calls[c] \in FrameType
    BY DEF TypeOK
  <2>3. f \in Nat
    <3>1. calls[c].fee # NoFee => calls[c].fee \in Nat
      BY <2>2 DEF FrameType
    <3> QED BY <3>1, FeesAssumption DEF ownFees
  <2> QED BY <2>1, <2>2, <2>3 DEF TypeOK, FrameType, OpType, NewOp
<1>3. [calls[c] EXCEPT !.pc = "prepared", !.op = NewOp(c, f)] \in FrameType
  BY <1>2 DEF TypeOK, FrameType
<1> QED BY <1>1, <1>2, <1>3, GoesBecomes DEF Prepare

SponsoredOp(c, f) == [calls[c].op EXCEPT !.fee = f, !.sponsor = providers]

LEMMA AskStep ==
  ASSUME TypeOK, NEW c \in Calls, AskPaymaster(c)
  PROVE  \E f \in {calls[c].op.fee} \cup (IF config.paymasterFees THEN PaymasterFees ELSE {}) :
           /\ Becomes(c, [calls[c] EXCEPT !.pc = "sponsored", !.op = SponsoredOp(c, f)])
           /\ SponsoredOp(c, f) \in OpType /\ calls[c].op \in OpType
           /\ calls[c].pc = "prepared"
           /\ UNCHANGED <<providers, sent, announced>>
<1>1. PICK f \in {calls[c].op.fee} \cup (IF config.paymasterFees THEN PaymasterFees ELSE {}) :
        Goes(c, [calls[c] EXCEPT !.pc = "sponsored", !.op = SponsoredOp(c, f)])
  BY DEF AskPaymaster, SponsoredOp
<1>2. calls[c].op \in OpType
  BY DEF TypeOK, AskPaymaster
<1>3. SponsoredOp(c, f) \in OpType
  <2>1. f \in Nat
    BY <1>2, FeesAssumption DEF OpType
  <2> QED BY <1>2, <2>1 DEF TypeOK, OpType, SponsoredOp
<1>4. [calls[c] EXCEPT !.pc = "sponsored", !.op = SponsoredOp(c, f)] \in FrameType
  BY <1>3 DEF TypeOK, FrameType
<1> QED BY <1>1, <1>2, <1>3, <1>4, GoesBecomes DEF AskPaymaster

LEMMA SignStep ==
  ASSUME TypeOK, NEW c \in Calls, Sign(c)
  PROVE  /\ Becomes(c, [calls[c] EXCEPT !.pc = "built"])
         /\ calls[c].pc = "sponsored" /\ calls[c].op \in OpType
         /\ UNCHANGED <<providers, sent, announced>>
<1>1. [calls[c] EXCEPT !.pc = "built"] \in FrameType
  BY DEF TypeOK, FrameType
<1> QED BY <1>1, GoesBecomes DEF Sign, TypeOK

LEMMA SendStep ==
  ASSUME TypeOK, NEW c \in Calls, Send(c)
  PROVE  /\ Becomes(c, [calls[c] EXCEPT !.pc = "sent"])
         /\ calls[c].pc = "built" /\ calls[c].op \in OpType
         /\ sent' = [sent EXCEPT ![c] = Append(@, [op |-> calls[c].op, bundler |-> providers])]
         /\ announced' \subseteq announced \cup {calls[c].op}
         /\ UNCHANGED providers
<1>1. [calls[c] EXCEPT !.pc = "sent"] \in FrameType
  BY DEF TypeOK, FrameType
<1> QED BY <1>1, GoesBecomes DEF Send, TypeOK

LEMMA ResendStep ==
  ASSUME TypeOK, NEW c \in Calls, Resend(c)
  PROVE  /\ Becomes(c, [calls[c] EXCEPT !.pc = "building", !.retry = @ + 1, !.fallback = FALSE,
                                        !.fee = increasedFee(calls[c].op.fee)])
         /\ calls[c].pc = "underpriced" /\ calls[c].op \in OpType
         /\ UNCHANGED <<providers, sent, announced>>
<1>1. calls[c].op \in OpType /\ calls[c].pc = "underpriced"
  BY DEF TypeOK, Resend
<1>2. increasedFee(calls[c].op.fee) \in Nat
  BY <1>1 DEF OpType, increasedFee
<1>3. calls[c].retry + 1 \in 0..MaxTxRetries
  BY RetriesAssumption DEF TypeOK, FrameType, Resend
<1>4. [calls[c] EXCEPT !.pc = "building", !.retry = @ + 1, !.fallback = FALSE,
                       !.fee = increasedFee(calls[c].op.fee)] \in FrameType
  BY <1>2, <1>3 DEF TypeOK, FrameType
<1> QED BY <1>1, <1>4, GoesBecomes DEF Resend

LEMMA FallBackStep ==
  ASSUME TypeOK, NEW c \in Calls, FallBack(c)
  PROVE  /\ Becomes(c, [calls[c] EXCEPT !.pc = "building", !.retry = 0, !.fallback = TRUE,
                                        !.saved = Append(@, providers)])
         /\ calls[c].pc = "failed" /\ config.fallback
         /\ providers' = "fallback" /\ UNCHANGED <<sent, announced>>
<1>1. Append(calls[c].saved, providers) \in Seq(Providers)
  BY DEF TypeOK, FrameType
<1>2. [calls[c] EXCEPT !.pc = "building", !.retry = 0, !.fallback = TRUE,
                       !.saved = Append(@, providers)] \in FrameType
  <2>1. 0 \in 0..MaxTxRetries
    BY RetriesAssumption
  <2> DEFINE longer == Append(calls[c].saved, providers)
  <2>2. longer \in Seq(Providers)
    BY <1>1
  <2> HIDE DEF longer
  <2>3. [calls[c] EXCEPT !.pc = "building", !.retry = 0, !.fallback = TRUE, !.saved = longer] \in FrameType
    BY <2>1, <2>2 DEF TypeOK, FrameType
  <2> QED BY <2>3 DEF longer
<1> QED BY <1>2, GoesBecomes DEF FallBack, fallsBack

LEMMA EndStep ==
  ASSUME TypeOK, NEW c \in Calls, GiveUp(c) \/ Confirm(c)
  PROVE  \E pc \in {"gaveUp", "returning", "threw"} :
           /\ Becomes(c, [calls[c] EXCEPT !.pc = pc])
           /\ calls[c].pc = (IF pc = "gaveUp" THEN "underpriced" ELSE "accepted")
           /\ announced' \subseteq announced \cup {calls[c].op}
           /\ calls[c].op \in OpType
           /\ UNCHANGED <<providers, sent>>
<1>1. \A pc \in {"gaveUp", "returning", "threw"} : [calls[c] EXCEPT !.pc = pc] \in FrameType
  BY DEF TypeOK, FrameType, Ended
<1>2. CASE GiveUp(c)
  BY <1>1, <1>2, GoesBecomes DEF GiveUp, TypeOK
<1>3. CASE Confirm(c)
  BY <1>1, <1>3, GoesBecomes DEF Confirm, TypeOK
<1> QED BY <1>2, <1>3

LEMMA ReturnStep ==
  ASSUME TypeOK, NEW c \in Calls, Return(c)
  PROVE  /\ \/ Becomes(c, [calls[c] EXCEPT !.pc = "returned"])
            \/ Becomes(c, [calls[c] EXCEPT !.saved = Front(@)])
         /\ calls[c].pc = "returning" /\ calls[c].op \in OpType
         /\ providers' \in Providers /\ UNCHANGED <<sent, announced>>
<1>1. calls[c].pc = "returning" /\ calls[c].op \in OpType /\ calls[c].saved \in Seq(Providers)
  BY DEF TypeOK, FrameType, Return, Ended
<1>2. CASE calls[c].saved = <<>>
  <2>1. [calls[c] EXCEPT !.pc = "returned"] \in FrameType
    BY DEF TypeOK, FrameType, Ended
  <2> QED BY <1>1, <1>2, <2>1, GoesBecomes DEF Return, TypeOK
<1>3. CASE calls[c].saved # <<>>
  <2>1. Front(calls[c].saved) \in Seq(Providers) /\ Last(calls[c].saved) \in Providers
    <3>1. Len(calls[c].saved) \in Nat /\ Len(calls[c].saved) > 0
      BY <1>1, <1>3
    <3> QED BY <1>1, <3>1 DEF Front, Last
  <2>2. [calls[c] EXCEPT !.saved = Front(@)] \in FrameType
    BY <2>1 DEF TypeOK, FrameType
  <2> QED BY <1>1, <1>3, <2>1, <2>2, GoesBecomes DEF Return, TypeOK
<1> QED BY <1>2, <1>3

\* The bundler answers: only the frame's pc changes.
LEMMA AnswerStep ==
  ASSUME TypeOK, NEW c \in Calls, Accept(c) \/ Refuse(c)
  PROVE  \E answer \in {"accepted", "failed", "unreadable", "underpriced"} :
           /\ calls' = [calls EXCEPT ![c] = [calls[c] EXCEPT !.pc = answer]]
           /\ calls' \in [Calls -> FrameType]
           /\ calls[c].pc = "sent" /\ calls[c].op \in OpType
           /\ UNCHANGED <<config, providers, sent, announced, dropped, nonce, executed>>
           /\ \/ pools' = pools
              \/ /\ answer # "underpriced"
                 /\ pools' \in [Providers -> SUBSET OpType]
                 /\ \A b \in Providers : pools'[b] \subseteq pools[b] \cup {calls[c].op}
<1>1. calls[c].pc = "sent" /\ calls[c].op \in OpType
  BY DEF TypeOK, Accept, Refuse
<1>2. PICK answer \in {"accepted", "failed", "unreadable", "underpriced"} :
        /\ calls' = [calls EXCEPT ![c].pc = answer]
        /\ Accept(c) => answer # "underpriced"
  BY DEF Accept, Refuse
<1>3. [calls[c] EXCEPT !.pc = answer] \in FrameType
  BY DEF TypeOK, FrameType
<1>4. calls' = [calls EXCEPT ![c] = [calls[c] EXCEPT !.pc = answer]] /\ calls' \in [Calls -> FrameType]
  BY <1>2, <1>3 DEF TypeOK
<1>5. CASE Refuse(c)
  BY <1>1, <1>2, <1>4, <1>5 DEF Refuse, outside
<1>6. CASE Accept(c)
  <2> DEFINE b == Last(sent[c]).bundler
             op == calls[c].op
  <2>1. pools' = [pools EXCEPT ![b] = (pools[b] \ competitors(b, op)) \cup {op}]
    BY <1>6 DEF Accept
  <2>2. \A p \in Providers : pools'[p] \subseteq pools[p] \cup {op}
    BY <2>1 DEF TypeOK
  <2>3. pools' \in [Providers -> SUBSET OpType]
    BY <2>1, <2>2, <1>1 DEF TypeOK
  <2> QED BY <1>1, <1>2, <1>4, <1>6, <2>2, <2>3 DEF Accept
<1> QED BY <1>5, <1>6

\* Membership, spelled out.
LEMMA LeftMembers ==
  /\ \A o : o \in Left <=> o \in dropped \/ \E b \in Providers : o \in pools[b]
  /\ \A o : o \in Left' <=> o \in dropped' \/ \E b \in Providers : o \in pools'[b]
  /\ Taken = executed \cup Left /\ Taken' = executed' \cup Left'
<1>1. \A o : o \in Left <=> o \in dropped \/ \E b \in Providers : o \in pools[b]
  BY DEF Left
<1>2. \A o : o \in Left' <=> o \in dropped' \/ \E b \in Providers : o \in pools'[b]
  BY DEF Left
<1>3. Taken = executed \cup Left
  BY DEF Left, Taken
<1>4. Taken' = executed' \cup Left'
  BY DEF Left, Taken
<1> QED BY <1>1, <1>2, <1>3, <1>4

LEMMA MineStep ==
  ASSUME TypeOK, Mine
  PROVE  /\ UNCHANGED <<config, providers, calls, sent, announced>>
         /\ nonce' \in Nat /\ executed' \subseteq OpType /\ dropped' \subseteq OpType
         /\ pools' \in [Providers -> SUBSET OpType]
         /\ Taken' \subseteq Taken
<1>1. PICK op \in Left :
        /\ executed' = executed \cup {op}
        /\ nonce' = nonce + 1
        /\ pools' = [b \in Providers |-> {o \in pools[b] : o.nonce > nonce}]
        /\ dropped' = {o \in dropped : o.nonce > nonce}
  BY DEF Mine, Left
<1>2. Taken' \subseteq Taken
  <2>1. \A b \in Providers : pools'[b] \subseteq pools[b]
    BY <1>1
  <2>2. Left' \subseteq Left
    BY <1>1, <2>1, LeftMembers
  <2> QED BY <1>1, <2>2, LeftMembers
<1>3. op \in OpType
  BY LeftMembers DEF TypeOK
<1> QED BY <1>1, <1>2, <1>3 DEF TypeOK, Mine

LEMMA DropStep ==
  ASSUME TypeOK, NEW b \in Providers, Drop(b)
  PROVE  /\ UNCHANGED <<config, providers, calls, sent, announced, nonce, executed>>
         /\ dropped' \subseteq OpType /\ pools' \in [Providers -> SUBSET OpType]
         /\ Left' = Left
<1>1. PICK op \in pools[b] :
        /\ pools' = [pools EXCEPT ![b] = pools[b] \ {op}]
        /\ dropped' = dropped \cup {op}
  BY DEF Drop
<1>2. op \in OpType
  BY DEF TypeOK
<1>3. pools'[b] = pools[b] \ {op} /\ \A d \in Providers : d # b => pools'[d] = pools[d]
  BY <1>1 DEF TypeOK
<1>5. Left' = Left
  <2>1. \A o : o \in Left' <=> o \in Left
    BY <1>1, <1>3, LeftMembers
  <2> QED BY <2>1
<1> QED BY <1>1, <1>2, <1>3, <1>5 DEF TypeOK, Drop
-----------------------------------------------------------------------------
(* Types *)

LEMMA InitType == Init => TypeOK
<1> SUFFICES ASSUME Init PROVE TypeOK
  OBVIOUS
<1>1. Idle \in FrameType
  BY RetriesAssumption DEF Idle, NoFee, FrameType, Ended
<1>2. <<>> \in Seq([op : OpType, bundler : Providers])
  OBVIOUS
<1> QED BY <1>1, <1>2 DEF Init, TypeOK, Providers, Idle

LEMMA BecomesType ==
  ASSUME TypeOK, NEW c \in Calls, NEW f, Becomes(c, f), UNCHANGED sent,
         providers' \in Providers, announced' \subseteq OpType,
         f.pc \notin {"idle", "building", "threw"} => f.op \in OpType
  PROVE  TypeOK'
  BY DEF TypeOK, Becomes, FrameBecomes

\* A frame that changed in pc only.
LEMMA PcOnly ==
  ASSUME TypeOK, NEW c \in Calls, NEW pc
  PROVE  LET f == [calls[c] EXCEPT !.pc = pc]
         IN  /\ f.pc = pc /\ f.retry = calls[c].retry /\ f.fallback = calls[c].fallback
             /\ f.fee = calls[c].fee /\ f.op = calls[c].op
  BY DEF TypeOK, FrameType

LEMMA ClientType == ASSUME TypeOK, NEW c \in Calls, Signer(c) PROVE TypeOK'
<1>0. providers \in Providers /\ announced \subseteq OpType /\ "fallback" \in Providers
  BY DEF TypeOK, Providers
<1>3. CASE Start(c)
  BY <1>3, <1>0, StartStep, PcOnly, BecomesType
<1>4. CASE BuildFails(c) \/ Throw(c)
  BY <1>4, <1>0, ThrowStep, PcOnly, BecomesType
<1>5. CASE Prepare(c) \/ AskPaymaster(c)
  <2>1. PICK pc \in {"prepared", "sponsored"}, o \in OpType :
           /\ Becomes(c, [calls[c] EXCEPT !.pc = pc, !.op = o])
           /\ UNCHANGED <<providers, sent, announced>>
    BY <1>5, PrepareStep, AskStep
  <2>2. [calls[c] EXCEPT !.pc = pc, !.op = o].op = o
    BY DEF TypeOK, FrameType
  <2> QED BY <1>0, <2>1, <2>2, BecomesType
<1>51. CASE Sign(c)
  <2> DEFINE f == [calls[c] EXCEPT !.pc = "built"]
  <2>1. Becomes(c, f) /\ calls[c].op \in OpType /\ UNCHANGED <<providers, sent, announced>>
    BY <1>51, SignStep
  <2>2. f.op = calls[c].op
    BY PcOnly
  <2> HIDE DEF f
  <2> QED BY <1>0, <2>1, <2>2, BecomesType
<1>6. CASE Send(c)
  <2> DEFINE attempt == [op |-> calls[c].op, bundler |-> providers]
             SentType == [op : OpType, bundler : Providers]
  <2>1. attempt \in SentType
    BY <1>6, SendStep DEF TypeOK
  <2>2. sent \in [Calls -> Seq(SentType)] /\ sent' = [sent EXCEPT ![c] = Append(sent[c], attempt)]
    BY <1>6, SendStep DEF TypeOK
  <2> HIDE DEF attempt, SentType
  <2>3. sent' \in [Calls -> Seq(SentType)]
    BY <2>1, <2>2
  <2>4. \A d \in Calls : calls'[d].pc \notin {"idle", "building", "threw"} => calls'[d].op \in OpType
    <3>1. calls'[c].op \in OpType
      <4>1. [calls[c] EXCEPT !.pc = "sent"].op = calls[c].op
        BY PcOnly
      <4>2. calls'[c] = [calls[c] EXCEPT !.pc = "sent"] /\ calls[c].op \in OpType
        BY <1>6, SendStep DEF Becomes, FrameBecomes
      <4> QED BY <4>1, <4>2
    <3>2. \A d \in Calls \ {c} : calls'[d] = calls[d]
      BY <1>6, SendStep DEF Becomes, FrameBecomes
    <3> QED BY <3>1, <3>2 DEF TypeOK
  <2>5. announced' \subseteq OpType
    BY <1>0, <1>6, SendStep
  <2> QED BY <1>6, <2>3, <2>4, <2>5, SendStep DEF Becomes, FrameBecomes, TypeOK, SentType
<1>7. CASE Resend(c)
  <2> DEFINE f == [calls[c] EXCEPT !.pc = "building", !.retry = @ + 1, !.fallback = FALSE,
                                   !.fee = increasedFee(calls[c].op.fee)]
  <2>1. f.pc = "building"
    BY DEF TypeOK, FrameType
  <2> QED BY <1>0, <1>7, <2>1, ResendStep, BecomesType
<1>8. CASE FallBack(c)
  <2> DEFINE f == [calls[c] EXCEPT !.pc = "building", !.retry = 0, !.fallback = TRUE,
                                   !.saved = Append(@, providers)]
  <2>1. f.pc = "building"
    BY DEF TypeOK, FrameType
  <2> QED BY <1>0, <1>8, <2>1, FallBackStep, BecomesType
<1>9. CASE GiveUp(c) \/ Confirm(c)
  <2>1. PICK pc \in {"gaveUp", "returning", "threw"} :
           /\ Becomes(c, [calls[c] EXCEPT !.pc = pc])
           /\ announced' \subseteq announced \cup {calls[c].op} /\ calls[c].op \in OpType
           /\ UNCHANGED <<providers, sent>>
    BY <1>9, EndStep
  <2>2. announced' \subseteq OpType /\ providers' \in Providers
    BY <1>0, <2>1
  <2>3. [calls[c] EXCEPT !.pc = pc].op \in OpType
    BY <2>1, PcOnly
  <2> QED BY <2>1, <2>2, <2>3, BecomesType
<1>10. CASE Return(c)
  <2>1. [calls[c] EXCEPT !.saved = Front(@)].op \in OpType /\ [calls[c] EXCEPT !.pc = "returned"].op \in OpType
    BY <1>10, ReturnStep DEF TypeOK, FrameType
  <2>2. announced' \subseteq OpType /\ UNCHANGED sent /\ providers' \in Providers
    BY <1>0, <1>10, ReturnStep
  <2>3. CASE Becomes(c, [calls[c] EXCEPT !.pc = "returned"])
    BY <2>1, <2>2, <2>3, BecomesType
  <2>4. CASE Becomes(c, [calls[c] EXCEPT !.saved = Front(@)])
    BY <2>1, <2>2, <2>4, BecomesType
  <2> QED BY <1>10, <2>3, <2>4, ReturnStep
<1> QED BY <1>3, <1>4, <1>5, <1>51, <1>6, <1>7, <1>8, <1>9, <1>10 DEF Signer

LEMMA TypeKeeps == TypeOK /\ [Next]_vars => TypeOK'
<1> SUFFICES ASSUME TypeOK, [Next]_vars PROVE TypeOK'
  OBVIOUS
<1>1. CASE UNCHANGED vars
  BY <1>1 DEF TypeOK, vars, outside
<1>2. ASSUME NEW c \in Calls, Accept(c) \/ Refuse(c) PROVE TypeOK'
  <2>1. PICK answer \in {"accepted", "failed", "unreadable", "underpriced"} :
           /\ calls' = [calls EXCEPT ![c] = [calls[c] EXCEPT !.pc = answer]]
           /\ calls' \in [Calls -> FrameType]
           /\ calls[c].op \in OpType
           /\ UNCHANGED <<config, providers, sent, announced, dropped, nonce, executed>>
           /\ pools' = pools \/ pools' \in [Providers -> SUBSET OpType]
    BY <1>2, AnswerStep
  <2>2. \A d \in Calls : calls'[d].pc \notin {"idle", "building", "threw"} => calls'[d].op \in OpType
    BY <2>1, PcOnly DEF TypeOK
  <2> QED BY <2>1, <2>2 DEF TypeOK
<1>3. CASE Mine
  BY <1>3, MineStep DEF TypeOK
<1>4. ASSUME NEW b \in Providers, Drop(b) PROVE TypeOK'
  BY <1>4, DropStep DEF TypeOK
<1> QED BY <1>1, <1>2, <1>3, <1>4, ClientType DEF Next, Bundler
-----------------------------------------------------------------------------
(* The calls and their attempts *)

LEMMA IncreaseReplaces ==
  ASSUME NEW f \in Nat, f >= 34
  PROVE  10 * increasedFee(f) > 11 * f /\ increasedFee(f) # NoFee /\ increasedFee(f) \in Nat
<1>1. 100 * increasedFee(f) > 113 * f - 100
  BY DEF increasedFee
<1>2. increasedFee(f) \in Int
  BY DEF increasedFee
<1>3. 1000 * increasedFee(f) > 1130 * f - 1000 /\ 1130 * f - 1000 >= 1100 * f
  BY <1>1, <1>2
<1> QED BY <1>2, <1>3 DEF NoFee

\* A step of c leaves the other calls as they are.
LEMMA OthersKeep ==
  ASSUME CallInv, NEW c \in Calls, config' = config,
         \A d \in Calls \ {c} : calls'[d] = calls[d] /\ sent'[d] = sent[d],
         Recorded(c)', Counted(c)', Priced(c)'
  PROVE  CallInv'
<1> SUFFICES ASSUME NEW d \in Calls, d # c PROVE Recorded(d)' /\ Counted(d)' /\ Priced(d)'
  BY DEF CallInv
<1>1. calls'[d] = calls[d] /\ sent'[d] = sent[d] /\ config' = config
  OBVIOUS
<1>2. Recorded(d) /\ Counted(d) /\ Priced(d)
  BY DEF CallInv
<1> QED BY <1>1, <1>2 DEF Recorded, Counted, Priced, Attempts

\* A step that sends nothing, from what the frame becomes.
LEMMA SameAttempts ==
  ASSUME TypeOK, CallInv, NEW c \in Calls, UNCHANGED sent, NEW f, FrameBecomes(c, f),
         f.pc # "idle",
         f.pc \in Unsent => /\ f.op.call = c /\ f.op.attempt = Len(sent[c]) + 1
                           /\ f.op.retry = f.retry /\ f.op.fallback = f.fallback,
         f.pc \notin Pending \cup {"threw"} =>
           calls[c].pc \notin Pending \cup {"threw"} /\ f.op = calls[c].op,
         ~config.fallback =>
           /\ f.pc \in Pending => Len(sent[c]) = f.retry
           /\ f.pc \notin Pending \cup {"threw"} => Len(sent[c]) = f.retry + 1
           /\ Len(sent[c]) <= f.retry + 1,
         ~config.session /\ ~config.paymasterFees =>
           /\ config.gelato /\ f.pc \in Unsent => f.op.fee = 0
           /\ f.pc = "building" /\ f.retry > 0 =>
                Len(sent[c]) > 0 /\ f.fee = increasedFee(sent[c][Len(sent[c])].op.fee)
           /\ f.pc \in Unsent /\ f.retry > 0 =>
                Len(sent[c]) > 0 /\ (sent[c][Len(sent[c])].op.fee >= 34 =>
                                       10 * f.op.fee > 11 * sent[c][Len(sent[c])].op.fee)
  PROVE  CallInv'
<1>1. config' = config /\ calls'[c] = f /\ sent' = sent
  BY DEF FrameBecomes
<1>2. Recorded(c) /\ Counted(c) /\ Priced(c)
  BY DEF CallInv
<1>3. Recorded(c)'
  BY <1>1, <1>2 DEF Recorded, Attempts, Pending
<1>4. Counted(c)'
  BY <1>1 DEF Counted
<1>5. Priced(c)'
  BY <1>1, <1>2 DEF Priced, Attempts
<1> QED BY <1>1, <1>3, <1>4, <1>5, OthersKeep DEF FrameBecomes

\* A step that changes neither the retries nor the operation, and does not build.
LEMMA OnlyPc ==
  ASSUME TypeOK, CallInv, NEW c \in Calls, UNCHANGED sent, NEW f, FrameBecomes(c, f),
         f.retry = calls[c].retry, f.op = calls[c].op,
         \/ f.pc = "building" /\ calls[c].pc = "idle"
         \/ f.pc = "threw"
         \/ f.pc \notin Pending \cup {"threw"} /\ calls[c].pc \notin Pending \cup {"threw"}
  PROVE  CallInv'
<1>1. Recorded(c) /\ Counted(c)
  BY DEF CallInv
<1>2. f.pc = "building" => f.retry = 0
  BY <1>1 DEF Recorded, Pending
<1>3. f.pc \in Pending => calls[c].pc \in Pending /\ f.pc = "building"
  BY DEF Pending, Unsent
<1>4. f.pc \notin Unsent /\ f.pc # "idle"
  BY DEF Pending, Unsent
<1>5. f.pc \notin Pending \cup {"threw"} =>
        calls[c].pc \notin Pending \cup {"threw"} /\ f.op = calls[c].op
  BY DEF Pending
<1>6. ~config.fallback =>
        /\ f.pc \in Pending => Len(sent[c]) = f.retry
        /\ f.pc \notin Pending \cup {"threw"} => Len(sent[c]) = f.retry + 1
        /\ Len(sent[c]) <= f.retry + 1
  BY <1>1, <1>3, <1>5 DEF Counted
<1>7. calls[c].retry \in Nat
  BY DEF TypeOK, FrameType
<1> QED BY <1>2, <1>4, <1>5, <1>6, <1>7, SameAttempts

\* The attempts of c after one more.
LEMMA Appended ==
  ASSUME TypeOK, NEW c \in Calls, Send(c)
  PROVE  /\ Len(sent[c]) \in Nat /\ Len(sent'[c]) = Len(sent[c]) + 1
         /\ \A i \in 1..Len(sent[c]) : sent'[c][i] = sent[c][i]
         /\ sent'[c][Len(sent[c]) + 1].op = calls[c].op
         /\ \A d \in Calls \ {c} : sent'[d] = sent[d]
<1> DEFINE attempt == [op |-> calls[c].op, bundler |-> providers]
           SentType == [op : OpType, bundler : Providers]
<1>1. attempt \in SentType /\ attempt.op = calls[c].op
  BY SendStep DEF TypeOK
<1>2. sent \in [Calls -> Seq(SentType)] /\ sent' = [sent EXCEPT ![c] = Append(sent[c], attempt)]
  BY SendStep DEF TypeOK
<1> HIDE DEF attempt, SentType
<1>3. sent'[c] = Append(sent[c], attempt) /\ sent[c] \in Seq(SentType)
  BY <1>2
<1>4. \A d \in Calls \ {c} : sent'[d] = sent[d]
  BY <1>2
<1> QED BY <1>1, <1>3, <1>4

LEMMA SendCalls == ASSUME TypeOK, CallInv, NEW c \in Calls, Send(c) PROVE CallInv'
<1> DEFINE n == Len(sent[c])
<1>1. Recorded(c) /\ Counted(c) /\ Priced(c)
  BY DEF CallInv
<1>2. calls[c].pc = "built" /\ calls'[c] = [calls[c] EXCEPT !.pc = "sent"] /\ config' = config
  BY SendStep DEF Becomes, FrameBecomes
<1>3. /\ calls'[c].pc = "sent" /\ calls'[c].retry = calls[c].retry /\ calls'[c].op = calls[c].op
  BY <1>2, PcOnly
<1>4. /\ n \in Nat /\ Len(sent'[c]) = n + 1
      /\ \A i \in 1..n : sent'[c][i] = sent[c][i]
      /\ sent'[c][n + 1].op = calls[c].op
  BY Appended
<1> HIDE DEF n
<1>5. /\ calls[c].op.call = c /\ calls[c].op.attempt = n + 1 /\ calls[c].op.retry = calls[c].retry
      /\ \A i \in 1..n : sent[c][i].op.call = c /\ sent[c][i].op.attempt = i
  BY <1>1, <1>2 DEF Recorded, Attempts, Unsent, n
<1>6. Recorded(c)'
  BY <1>3, <1>4, <1>5 DEF Recorded, Attempts, Unsent
<1>7. ~config.fallback => n = calls[c].retry
  BY <1>1, <1>2 DEF Counted, Pending, Unsent, n
<1>8. Counted(c)'
  BY <1>2, <1>3, <1>4, <1>7 DEF Counted, Pending, Unsent
<1>9. Priced(c)'
  <2>0. ASSUME ~config.session, ~config.paymasterFees, config.gelato, NEW i \in 1..n + 1
        PROVE  sent'[c][i].op.fee = 0
    <3>1. calls[c].op.fee = 0 /\ \A k \in 1..n : sent[c][k].op.fee = 0
      BY <1>1, <1>2, <2>0 DEF Priced, Attempts, Unsent, n
    <3> QED BY <1>4, <3>1
  <2> SUFFICES ASSUME ~config.session, ~config.paymasterFees, NEW i \in 2..n + 1,
                      sent'[c][i].op.retry > 0, sent'[c][i-1].op.fee >= 34
               PROVE  10 * sent'[c][i].op.fee > 11 * sent'[c][i-1].op.fee
    BY <1>2, <1>3, <1>4, <2>0 DEF Priced, Attempts, Unsent
  <2>1. CASE i = n + 1
    <3>1. n > 0 /\ n = i - 1 /\ n \in 1..n
      BY <1>4, <2>1
    <3>2. sent'[c][i].op = calls[c].op /\ sent'[c][i-1] = sent[c][n]
      BY <1>4, <2>1, <3>1
    <3>3. sent[c][n].op.fee >= 34 => 10 * calls[c].op.fee > 11 * sent[c][n].op.fee
      BY <1>1, <1>2, <1>5, <3>2 DEF Priced, Unsent, n
    <3> QED BY <3>2, <3>3
  <2>2. CASE i # n + 1
    <3>1. i \in 1..n /\ i - 1 \in 1..n /\ i > 1
      BY <1>4, <2>2
    <3>2. sent'[c][i] = sent[c][i] /\ sent'[c][i-1] = sent[c][i-1]
      BY <1>4, <3>1
    <3> QED BY <1>1, <3>1, <3>2 DEF Priced, Attempts, n
  <2> QED BY <2>1, <2>2
<1> QED BY <1>2, <1>6, <1>8, <1>9, Appended, SendStep, OthersKeep DEF Becomes, FrameBecomes

LEMMA ClientCalls == ASSUME TypeOK, CallInv, NEW c \in Calls, Signer(c) PROVE CallInv'
<1>1. Recorded(c) /\ Counted(c) /\ Priced(c)
  BY DEF CallInv
<1>2. CASE Start(c)
  <2> DEFINE f == [calls[c] EXCEPT !.pc = "building"]
  <2>1. f.pc = "building" /\ f.retry = calls[c].retry /\ f.op = calls[c].op
    BY PcOnly
  <2>2. Becomes(c, f) /\ calls[c].pc = "idle" /\ UNCHANGED sent
    BY <1>2, StartStep
  <2> HIDE DEF f
  <2> QED BY <2>1, <2>2, OnlyPc DEF Becomes
<1>3. CASE BuildFails(c) \/ Throw(c)
  <2> DEFINE f == [calls[c] EXCEPT !.pc = "threw"]
  <2>1. f.pc = "threw" /\ f.retry = calls[c].retry /\ f.op = calls[c].op
    BY PcOnly
  <2>2. Becomes(c, f) /\ UNCHANGED sent
    BY <1>3, ThrowStep
  <2> HIDE DEF f
  <2> QED BY <2>1, <2>2, OnlyPc DEF Becomes
<1>4. CASE Prepare(c)
  <2>1. PICK fee \in ownFees(c) :
           /\ Becomes(c, [calls[c] EXCEPT !.pc = "prepared", !.op = NewOp(c, fee)])
           /\ calls[c].pc = "building"
           /\ UNCHANGED sent
    BY <1>4, PrepareStep
  <2> DEFINE f == [calls[c] EXCEPT !.pc = "prepared", !.op = NewOp(c, fee)]
             last == sent[c][Len(sent[c])].op
  <2>2. f.pc = "prepared" /\ f.retry = calls[c].retry /\ f.fallback = calls[c].fallback /\ f.op = NewOp(c, fee)
    BY DEF TypeOK, FrameType
  <2>3. f.op.call = c /\ f.op.attempt = Len(sent[c]) + 1 /\ f.op.retry = f.retry
        /\ f.op.fallback = f.fallback /\ f.op.fee = fee
    BY <2>2 DEF NewOp
  <2>4. ASSUME ~config.session, ~config.paymasterFees, calls[c].retry > 0
        PROVE  Len(sent[c]) > 0 /\ (last.fee >= 34 => 10 * fee > 11 * last.fee)
    <3>1. Len(sent[c]) > 0 /\ calls[c].fee = increasedFee(last.fee)
      BY <1>1, <2>1, <2>4 DEF Priced
    <3>2. last \in OpType
      <4> DEFINE SentType == [op : OpType, bundler : Providers]
      <4>1. sent[c] \in Seq(SentType)
        BY DEF TypeOK
      <4> HIDE DEF SentType
      <4>2. sent[c][Len(sent[c])] \in SentType
        BY <3>1, <4>1
      <4> QED BY <4>2 DEF SentType
    <3>3. last.fee \in Nat
      BY <3>2 DEF OpType
    <3>4. ASSUME last.fee >= 34 PROVE 10 * fee > 11 * last.fee
      <4>1. calls[c].fee # NoFee /\ 10 * calls[c].fee > 11 * last.fee
        BY <3>1, <3>3, <3>4, IncreaseReplaces
      <4>2. ~config.gelato
        <5>1. Len(sent[c]) \in Attempts(c)
          BY <3>1 DEF TypeOK, Attempts
        <5> QED BY <1>1, <2>4, <3>4, <5>1 DEF Priced
      <4>3. fee = calls[c].fee
        BY <2>4, <4>1, <4>2 DEF ownFees
      <4> QED BY <4>1, <4>3
    <3> QED BY <3>1, <3>4
  <2>5. ~config.fallback => Len(sent[c]) = f.retry /\ Len(sent[c]) <= f.retry + 1
    <3>1. Len(sent[c]) \in Nat
      BY DEF TypeOK
    <3> QED BY <1>1, <2>1, <2>2, <3>1 DEF Counted, Pending
  <2>6. config.gelato => fee = 0
    BY DEF ownFees
  <2>7. f.pc \in Pending
    BY <2>2 DEF Pending, Unsent
  <2> HIDE DEF f
  <2> QED BY <2>1, <2>2, <2>3, <2>4, <2>5, <2>6, <2>7, SameAttempts DEF Becomes, f
\* The paymaster's answer and the signature, of an operation that is made.
<1>41. ASSUME NEW f, Becomes(c, f), UNCHANGED sent, f.pc \in Unsent, calls[c].pc \in Unsent,
              f.retry = calls[c].retry, f.fallback = calls[c].fallback,
              f.op.call = calls[c].op.call, f.op.attempt = calls[c].op.attempt,
              f.op.retry = calls[c].op.retry, f.op.fallback = calls[c].op.fallback,
              ~config.paymasterFees => f.op.fee = calls[c].op.fee
       PROVE  CallInv'
  <2>1. f.pc \in Pending /\ f.pc \notin {"idle", "building", "threw"} /\ calls[c].pc \in Pending
    BY <1>41 DEF Pending, Unsent
  <2>2. FrameBecomes(c, f)
    BY <1>41 DEF Becomes
  <2>3. /\ f.op.call = c /\ f.op.attempt = Len(sent[c]) + 1
        /\ f.op.retry = f.retry /\ f.op.fallback = f.fallback
    BY <1>1, <1>41 DEF Recorded
  <2>4. ~config.fallback => Len(sent[c]) = f.retry /\ Len(sent[c]) <= f.retry + 1
    BY <1>1, <1>41, <2>1 DEF Counted
  <2>5. ~config.session /\ ~config.paymasterFees =>
           /\ config.gelato => f.op.fee = 0
           /\ f.retry > 0 =>
                Len(sent[c]) > 0 /\ (sent[c][Len(sent[c])].op.fee >= 34 =>
                                       10 * f.op.fee > 11 * sent[c][Len(sent[c])].op.fee)
    BY <1>1, <1>41 DEF Priced
  <2> QED BY <1>41, <2>1, <2>2, <2>3, <2>4, <2>5, SameAttempts
<1>42. CASE AskPaymaster(c)
  <2>1. PICK fee \in {calls[c].op.fee} \cup (IF config.paymasterFees THEN PaymasterFees ELSE {}) :
           /\ Becomes(c, [calls[c] EXCEPT !.pc = "sponsored", !.op = SponsoredOp(c, fee)])
           /\ calls[c].op \in OpType /\ calls[c].pc = "prepared" /\ UNCHANGED sent
    BY <1>42, AskStep
  <2> DEFINE f == [calls[c] EXCEPT !.pc = "sponsored", !.op = SponsoredOp(c, fee)]
  <2>2. f.pc = "sponsored" /\ f.retry = calls[c].retry /\ f.fallback = calls[c].fallback
        /\ f.op = SponsoredOp(c, fee)
    BY DEF TypeOK, FrameType
  <2>3. SponsoredOp(c, fee).call = calls[c].op.call /\ SponsoredOp(c, fee).attempt = calls[c].op.attempt
        /\ SponsoredOp(c, fee).retry = calls[c].op.retry /\ SponsoredOp(c, fee).fallback = calls[c].op.fallback
        /\ SponsoredOp(c, fee).fee = fee
    BY <2>1 DEF SponsoredOp, OpType
  <2>4. Becomes(c, f) /\ f.pc \in Unsent /\ calls[c].pc \in Unsent
    BY <2>1, <2>2 DEF Unsent
  <2> HIDE DEF f
  <2> QED BY <1>41, <2>1, <2>2, <2>3, <2>4
<1>43. CASE Sign(c)
  <2> DEFINE f == [calls[c] EXCEPT !.pc = "built"]
  <2>1. Becomes(c, f) /\ calls[c].pc \in Unsent /\ UNCHANGED sent
    BY <1>43, SignStep DEF Unsent
  <2>2. f.pc \in Unsent /\ f.retry = calls[c].retry /\ f.fallback = calls[c].fallback /\ f.op = calls[c].op
    BY PcOnly DEF Unsent
  <2> HIDE DEF f
  <2> QED BY <1>41, <2>1, <2>2
<1>5. CASE Resend(c)
  <2> DEFINE f == [calls[c] EXCEPT !.pc = "building", !.retry = @ + 1, !.fallback = FALSE,
                                   !.fee = increasedFee(calls[c].op.fee)]
  <2>1. Becomes(c, f) /\ calls[c].pc = "underpriced" /\ UNCHANGED sent
    BY <1>5, ResendStep
  <2>2. f.pc = "building" /\ f.retry = calls[c].retry + 1 /\ f.fee = increasedFee(calls[c].op.fee)
    BY DEF TypeOK, FrameType
  <2>3. Len(sent[c]) > 0 /\ calls[c].op = sent[c][Len(sent[c])].op
    BY <1>1, <2>1 DEF Recorded, Pending, Unsent
  <2>4. ~config.fallback => Len(sent[c]) = f.retry /\ Len(sent[c]) <= f.retry + 1
    <3>1. calls[c].retry \in Nat
      BY DEF TypeOK, FrameType
    <3> QED BY <1>1, <2>1, <2>2, <3>1 DEF Counted, Pending, Unsent
  <2> HIDE DEF f
  <2>5. f.pc \in Pending /\ f.pc \notin Unsent
    BY <2>2 DEF Pending, Unsent
  <2> QED BY <2>1, <2>2, <2>3, <2>4, <2>5, SameAttempts DEF Becomes
<1>6. CASE FallBack(c)
  <2> DEFINE f == [calls[c] EXCEPT !.pc = "building", !.retry = 0, !.fallback = TRUE,
                                   !.saved = Append(@, providers)]
  <2>1. Becomes(c, f) /\ config.fallback /\ UNCHANGED sent
    BY <1>6, FallBackStep
  <2>2. f.pc = "building" /\ f.retry = 0
    BY DEF TypeOK, FrameType
  <2> HIDE DEF f
  <2>3. f.pc \in Pending /\ f.pc \notin Unsent
    BY <2>2 DEF Pending, Unsent
  <2> QED BY <2>1, <2>2, <2>3, SameAttempts DEF Becomes
<1>7. CASE GiveUp(c) \/ Confirm(c)
  <2>1. PICK pc \in {"gaveUp", "returning", "threw"} :
           /\ Becomes(c, [calls[c] EXCEPT !.pc = pc])
           /\ calls[c].pc = (IF pc = "gaveUp" THEN "underpriced" ELSE "accepted")
           /\ UNCHANGED sent
    BY <1>7, EndStep
  <2> DEFINE f == [calls[c] EXCEPT !.pc = pc]
  <2>2. f.pc = pc /\ f.retry = calls[c].retry /\ f.op = calls[c].op
    BY PcOnly
  <2>3. Becomes(c, f)
    BY <2>1
  <2> HIDE DEF f
  <2>4. f.pc \notin Pending /\ calls[c].pc \notin Pending \cup {"threw"}
    BY <2>1, <2>2 DEF Pending, Unsent
  <2> QED BY <2>1, <2>2, <2>3, <2>4, OnlyPc DEF Becomes
<1>8. CASE Return(c)
  <2>1. calls[c].pc = "returning" /\ UNCHANGED sent
    BY <1>8, ReturnStep
  <2>2. PICK f \in {[calls[c] EXCEPT !.pc = "returned"], [calls[c] EXCEPT !.saved = Front(@)]} :
           Becomes(c, f)
    BY <1>8, ReturnStep
  <2>3. f.pc \in {"returning", "returned"} /\ f.retry = calls[c].retry /\ f.op = calls[c].op
    BY <2>1 DEF TypeOK, FrameType
  <2>4. f.pc \notin Pending \cup {"threw"} /\ calls[c].pc \notin Pending \cup {"threw"}
    BY <2>1, <2>3 DEF Pending, Unsent
  <2> QED BY <2>1, <2>2, <2>3, <2>4, OnlyPc DEF Becomes
<1> QED BY <1>2, <1>3, <1>4, <1>42, <1>43, <1>5, <1>6, <1>7, <1>8, SendCalls DEF Signer

LEMMA NextCalls == ASSUME TypeOK, CallInv, [Next]_vars PROVE CallInv'
<1>1. CASE UNCHANGED vars
  BY <1>1 DEF CallInv, Recorded, Counted, Priced, Attempts, vars, outside
<1>2. ASSUME NEW c \in Calls, Accept(c) \/ Refuse(c) PROVE CallInv'
  <2>1. PICK answer \in {"accepted", "failed", "unreadable", "underpriced"} :
           /\ calls' = [calls EXCEPT ![c] = [calls[c] EXCEPT !.pc = answer]]
           /\ calls' \in [Calls -> FrameType]
           /\ calls[c].pc = "sent"
           /\ UNCHANGED <<config, sent>>
    BY <1>2, AnswerStep
  <2> DEFINE f == [calls[c] EXCEPT !.pc = answer]
  <2>2. f.pc = answer /\ f.retry = calls[c].retry /\ f.op = calls[c].op
    BY PcOnly
  <2>3. calls'[c] = f /\ \A d \in Calls \ {c} : calls'[d] = calls[d]
    BY <2>1 DEF TypeOK
  <2>4. FrameBecomes(c, f)
    BY <2>1, <2>3 DEF FrameBecomes
  <2> HIDE DEF f
  <2>5. f.pc \notin Pending \cup {"threw"} /\ calls[c].pc \notin Pending \cup {"threw"}
    BY <2>1, <2>2 DEF Pending, Unsent
  <2> QED BY <2>1, <2>2, <2>4, <2>5, OnlyPc
<1>3. CASE Mine
  BY <1>3, MineStep DEF CallInv, Recorded, Counted, Priced, Attempts
<1>4. ASSUME NEW b \in Providers, Drop(b) PROVE CallInv'
  <2>1. UNCHANGED <<config, calls, sent>>
    BY <1>4, DropStep
  <2>2. \A c \in Calls : /\ Recorded(c) => Recorded(c)'
                         /\ Counted(c) => Counted(c)'
                         /\ Priced(c) => Priced(c)'
    BY <2>1 DEF Recorded, Counted, Priced, Attempts
  <2> QED BY <2>2 DEF CallInv
<1> QED BY <1>1, <1>2, <1>3, <1>4, ClientCalls DEF Next, Bundler
-----------------------------------------------------------------------------
(* What the bundlers took *)

LEMMA ClientTakes == ASSUME NEW c \in Calls, NEW f, Becomes(c, f) PROVE Taken' = Taken
  BY DEF Becomes, Taken

\* A step that sends nothing and leaves c where a taken attempt may be the last.
LEMMA SameTaken ==
  ASSUME TypeOK, TakenInv, NEW c \in Calls, UNCHANGED sent, NEW f, FrameBecomes(c, f),
         \A o \in Taken' : o \in Taken \/ (o.call = c /\ o.attempt = Len(sent[c]) /\ Len(sent[c]) > 0),
         (\E o \in Taken' : o.call = c /\ o.attempt = Len(sent[c])) => WillNotResend(c)'
  PROVE  TakenInv'
<1> SUFFICES ASSUME NEW o \in Taken' PROVE TakenOK(o)'
  BY DEF TakenInv
<1>0. sent' = sent /\ calls'[c] = f /\ \A d \in Calls \ {c} : calls'[d] = calls[d]
  BY DEF FrameBecomes
<1>1. Len(sent[c]) \in Nat
  BY DEF TypeOK
<1>2. o \in Taken => TakenOK(o)
  BY DEF TakenInv
<1>3. CASE o.call = c /\ o.attempt = Len(sent[c])
  <2>1. o.attempt \in 1..Len(sent[c])
    BY <1>1, <1>2, <1>3 DEF TakenOK, Attempts
  <2> QED BY <1>0, <1>1, <1>3, <2>1 DEF TakenOK, Attempts
<1>4. CASE o.call = c /\ o.attempt # Len(sent[c])
  BY <1>0, <1>2, <1>4 DEF TakenOK, Attempts
<1>5. CASE o.call # c
  <2>1. o.call \in Calls /\ (WillNotResend(o.call) => WillNotResend(o.call)')
    BY <1>0, <1>2, <1>5 DEF TakenOK, WillNotResend
  <2> QED BY <1>0, <1>2, <1>5, <2>1 DEF TakenOK, Attempts
<1> QED BY <1>3, <1>4, <1>5

\* Where the call of a taken last attempt stands.
LEMMA WhereTaken ==
  ASSUME TakenInv, NEW c \in Calls, \E o \in Taken : o.call = c /\ o.attempt = Len(sent[c])
  PROVE  WillNotResend(c)
  BY DEF TakenInv, TakenOK

LEMMA SendTaken == ASSUME TypeOK, CallInv, TakenInv, NEW c \in Calls, Send(c) PROVE TakenInv'
<1> SUFFICES ASSUME NEW o \in Taken' PROVE TakenOK(o)'
  BY DEF TakenInv
<1>1. TakenOK(o)
  BY SendStep, ClientTakes DEF TakenInv
<1>2. calls[c].pc = "built" /\ \A d \in Calls \ {c} : calls'[d] = calls[d]
  BY SendStep DEF Becomes, FrameBecomes
<1>3. /\ Len(sent[c]) \in Nat /\ Len(sent'[c]) = Len(sent[c]) + 1
      /\ \A i \in 1..Len(sent[c]) : sent'[c][i] = sent[c][i]
      /\ sent'[c][Len(sent[c]) + 1].op = calls[c].op
      /\ \A d \in Calls \ {c} : sent'[d] = sent[d]
  BY Appended
<1>4. CASE o.call # c
  <2>1. o.call \in Calls /\ (WillNotResend(o.call) => WillNotResend(o.call)')
    BY <1>1, <1>2, <1>4 DEF TakenOK, WillNotResend
  <2> QED BY <1>1, <1>3, <1>4, <2>1 DEF TakenOK, Attempts
<1>5. CASE o.call = c /\ o.attempt = Len(sent[c])
  BY <1>1, <1>2, <1>3, <1>5 DEF TakenOK, Attempts, WillNotResend
<1>6. CASE o.call = c /\ o.attempt # Len(sent[c])
  <2>1. o.attempt \in 1..Len(sent[c]) /\ o.attempt + 1 \in 1..Len(sent[c])
    BY <1>1, <1>3, <1>6 DEF TakenOK, Attempts
  <2> QED BY <1>1, <1>3, <1>6, <2>1 DEF TakenOK, Attempts
<1> QED BY <1>4, <1>5, <1>6

LEMMA ClientTaken == ASSUME TypeOK, CallInv, TakenInv, NEW c \in Calls, Signer(c) PROVE TakenInv'
<1>1. ASSUME NEW f, Becomes(c, f), UNCHANGED sent,
             \/ f.pc \in {"returning", "returned", "threw"}
             \/ f.pc = "building" /\ f.fallback
             \/ calls[c].pc \in {"idle", "underpriced"}
             \/ f.pc = "prepared" /\ calls[c].pc = "building" /\ f.op.fallback = calls[c].fallback
             \/ f.pc \in Unsent /\ calls[c].pc \in Unsent /\ f.op.fallback = calls[c].op.fallback
      PROVE  TakenInv'
  <2>1. Taken' = Taken
    BY <1>1, ClientTakes
  <2>2. FrameBecomes(c, f)
    BY <1>1 DEF Becomes
  <2>3. WillNotResend(c) => WillNotResend(c)'
    BY <1>1, <2>2 DEF WillNotResend, FrameBecomes, Unsent
  <2> QED BY <1>1, <2>1, <2>2, <2>3, WhereTaken, SameTaken
<1>2. CASE Start(c)
  BY <1>1, <1>2, StartStep
<1>3. CASE BuildFails(c) \/ Throw(c)
  <2> DEFINE f == [calls[c] EXCEPT !.pc = "threw"]
  <2>1. Becomes(c, f) /\ f.pc = "threw" /\ UNCHANGED sent
    BY <1>3, ThrowStep, PcOnly
  <2> HIDE DEF f
  <2> QED BY <1>1, <2>1
<1>4. CASE Prepare(c)
  <2>1. PICK fee \in ownFees(c) :
           /\ Becomes(c, [calls[c] EXCEPT !.pc = "prepared", !.op = NewOp(c, fee)])
           /\ calls[c].pc = "building"
           /\ UNCHANGED sent
    BY <1>4, PrepareStep
  <2> DEFINE f == [calls[c] EXCEPT !.pc = "prepared", !.op = NewOp(c, fee)]
  <2>2. f.pc = "prepared" /\ f.op.fallback = calls[c].fallback
    BY DEF TypeOK, FrameType, NewOp
  <2>3. Becomes(c, f)
    BY <2>1
  <2> HIDE DEF f
  <2> QED BY <1>1, <2>1, <2>2, <2>3
<1>41. CASE AskPaymaster(c)
  <2>1. PICK fee : /\ Becomes(c, [calls[c] EXCEPT !.pc = "sponsored", !.op = SponsoredOp(c, fee)])
                   /\ calls[c].op \in OpType /\ calls[c].pc = "prepared" /\ UNCHANGED sent
    BY <1>41, AskStep
  <2> DEFINE f == [calls[c] EXCEPT !.pc = "sponsored", !.op = SponsoredOp(c, fee)]
  <2>2. f.pc = "sponsored" /\ f.op = SponsoredOp(c, fee)
    BY DEF TypeOK, FrameType
  <2>3. SponsoredOp(c, fee).fallback = calls[c].op.fallback
    BY <2>1 DEF SponsoredOp, OpType
  <2>4. Becomes(c, f) /\ f.pc \in Unsent /\ calls[c].pc \in Unsent
    BY <2>1, <2>2 DEF Unsent
  <2> HIDE DEF f
  <2> QED BY <1>1, <2>1, <2>2, <2>3, <2>4
<1>42. CASE Sign(c)
  <2> DEFINE f == [calls[c] EXCEPT !.pc = "built"]
  <2>1. Becomes(c, f) /\ calls[c].pc \in Unsent /\ UNCHANGED sent
    BY <1>42, SignStep DEF Unsent
  <2>2. f.pc \in Unsent /\ f.op = calls[c].op
    BY PcOnly DEF Unsent
  <2> HIDE DEF f
  <2> QED BY <1>1, <2>1, <2>2
<1>5. CASE Resend(c)
  BY <1>1, <1>5, ResendStep
<1>6. CASE FallBack(c)
  <2> DEFINE f == [calls[c] EXCEPT !.pc = "building", !.retry = 0, !.fallback = TRUE,
                                   !.saved = Append(@, providers)]
  <2>1. Becomes(c, f) /\ UNCHANGED sent
    BY <1>6, FallBackStep
  <2>2. f.pc = "building" /\ f.fallback
    BY DEF TypeOK, FrameType
  <2> HIDE DEF f
  <2> QED BY <1>1, <2>1, <2>2
<1>7. CASE GiveUp(c) \/ Confirm(c)
  <2>1. PICK pc \in {"gaveUp", "returning", "threw"} :
           /\ Becomes(c, [calls[c] EXCEPT !.pc = pc])
           /\ calls[c].pc = (IF pc = "gaveUp" THEN "underpriced" ELSE "accepted")
           /\ UNCHANGED sent
    BY <1>7, EndStep
  <2>2. [calls[c] EXCEPT !.pc = pc].pc = pc
    BY PcOnly
  <2> QED BY <1>1, <2>1, <2>2
<1>8. CASE Return(c)
  <2>1. PICK f \in {[calls[c] EXCEPT !.pc = "returned"], [calls[c] EXCEPT !.saved = Front(@)]} :
           Becomes(c, f)
    BY <1>8, ReturnStep
  <2>2. calls[c].pc = "returning" /\ UNCHANGED sent
    BY <1>8, ReturnStep
  <2>3. f.pc \in {"returning", "returned"}
    BY <2>2 DEF TypeOK, FrameType
  <2> QED BY <1>1, <2>1, <2>2, <2>3
<1> QED BY <1>2, <1>3, <1>4, <1>41, <1>42, <1>5, <1>6, <1>7, <1>8, SendTaken DEF Signer

LEMMA AnswerTaken ==
  ASSUME TypeOK, CallInv, TakenInv, NEW c \in Calls, Accept(c) \/ Refuse(c)
  PROVE  TakenInv'
<1>1. PICK answer \in {"accepted", "failed", "unreadable", "underpriced"} :
         /\ calls' = [calls EXCEPT ![c] = [calls[c] EXCEPT !.pc = answer]]
         /\ calls' \in [Calls -> FrameType]
         /\ calls[c].pc = "sent"
         /\ UNCHANGED <<config, sent, dropped, executed>>
         /\ \/ pools' = pools
            \/ /\ answer # "underpriced"
               /\ \A b \in Providers : pools'[b] \subseteq pools[b] \cup {calls[c].op}
  BY AnswerStep
<1> DEFINE f == [calls[c] EXCEPT !.pc = answer]
<1>2. f.pc = answer
  BY PcOnly
<1>3. calls'[c] = f /\ \A d \in Calls \ {c} : calls'[d] = calls[d]
  BY <1>1 DEF TypeOK
<1>4. FrameBecomes(c, f)
  BY <1>1, <1>3 DEF FrameBecomes
<1> HIDE DEF f
<1>5. ~ \E o \in Taken : o.call = c /\ o.attempt = Len(sent[c])
  BY <1>1, WhereTaken DEF WillNotResend, Unsent
<1>50. answer # "underpriced" => WillNotResend(c)'
  BY <1>2, <1>3 DEF WillNotResend
<1>6. CASE pools' = pools
  <2>1. Taken' = Taken
    BY <1>1, <1>6 DEF Taken
  <2> QED BY <1>1, <1>4, <1>5, <2>1, SameTaken
<1>7. CASE answer # "underpriced" /\ \A b \in Providers : pools'[b] \subseteq pools[b] \cup {calls[c].op}
  <2>1. Taken' \subseteq Taken \cup {calls[c].op}
    BY <1>1, <1>7 DEF Taken
  <2>2. calls[c].op.call = c /\ calls[c].op.attempt = Len(sent[c]) /\ Len(sent[c]) > 0
    <3>1. Recorded(c)
      BY DEF CallInv
    <3>2. Len(sent[c]) > 0 /\ calls[c].op = sent[c][Len(sent[c])].op
      BY <1>1, <3>1 DEF Recorded, Pending, Unsent
    <3>3. Len(sent[c]) \in Attempts(c)
      BY <3>2 DEF TypeOK, Attempts
    <3> QED BY <3>1, <3>2, <3>3 DEF Recorded
  <2> QED BY <1>1, <1>4, <1>50, <1>7, <2>1, <2>2, SameTaken
<1> QED BY <1>1, <1>6, <1>7
-----------------------------------------------------------------------------
(* What the client is told *)

\* A bundler replaces what it holds only by something that pays more.
LEMMA AcceptCovers ==
  ASSUME TypeOK, CallInv, NEW c \in Calls, Accept(c), NEW o \in OpType,
         Covered(o) \/ o = calls[c].op
  PROVE  Covered(o)'
<1> DEFINE b == Last(sent[c]).bundler
           op == calls[c].op
<1>1. op \in OpType /\ nonce' = nonce /\ dropped' = dropped
    BY DEF TypeOK, Accept
<1>2. b \in Providers
  <2> DEFINE SentType == [op : OpType, bundler : Providers]
  <2>1. sent[c] \in Seq(SentType) /\ Len(sent[c]) > 0
      BY DEF TypeOK, CallInv, Recorded, Accept, Pending, Unsent
  <2> HIDE DEF SentType
  <2>2. sent[c][Len(sent[c])] \in SentType
      BY <2>1
  <2> QED BY <2>2 DEF SentType, Last
<1>3. /\ pools' = [pools EXCEPT ![b] = (pools[b] \ competitors(b, op)) \cup {op}]
      /\ ~underpriced(b, op)
    BY DEF Accept
<1> HIDE DEF b, op
<1>4. pools'[b] = (pools[b] \ competitors(b, op)) \cup {op}
      /\ \A d \in Providers : d # b => pools'[d] = pools[d]
    BY <1>2, <1>3 DEF TypeOK
<1>5. op \in Left' /\ \A p \in Left : p \in Left' \/ p \in competitors(b, op)
    BY <1>1, <1>2, <1>4 DEF Left
<1>6. CASE o = op
    BY <1>1, <1>5, <1>6 DEF Covered, OpType
<1>7. CASE o.nonce < nonce
    BY <1>1, <1>7 DEF Covered
<1>8. ASSUME NEW p \in Left, p.nonce = o.nonce, p.fee >= o.fee
      PROVE  Covered(o)'
  <2>1. CASE p \in Left'
      BY <1>8, <2>1 DEF Covered
  <2>2. CASE p \in competitors(b, op)
    <3>1. p \in OpType
        BY <1>2, <2>2 DEF competitors, TypeOK
    <3>2. p.fee \in Nat /\ op.fee \in Nat /\ o.fee \in Nat
        BY <1>1, <3>1 DEF OpType
    <3>3. p.nonce = op.nonce /\ 10 * op.fee > 11 * p.fee
        BY <1>3, <2>2, <3>2 DEF competitors, underpriced
    <3>4. op.fee >= o.fee
        BY <1>8, <3>2, <3>3
    <3> QED BY <1>5, <1>8, <3>3, <3>4 DEF Covered
  <2> QED BY <1>5, <2>1, <2>2
<1> QED BY <1>6, <1>7, <1>8 DEF Covered, op

\* Mining an operation overtakes those of its nonce and leaves the later ones.
LEMMA MineCovers ==
  ASSUME TypeOK, Mine, NEW o \in OpType, Covered(o)
  PROVE  Covered(o)'
<1>1. /\ nonce' = nonce + 1 /\ nonce \in Nat /\ o.nonce \in Nat
      /\ \A p \in Left : p.nonce > nonce => p \in Left'
  <2>1. /\ nonce' = nonce + 1
        /\ \A d \in Providers : pools'[d] = {p \in pools[d] : p.nonce > nonce}
        /\ dropped' = {p \in dropped : p.nonce > nonce}
      BY DEF Mine
  <2>2. \A p \in Left : p.nonce > nonce => p \in Left'
      BY <2>1, LeftMembers
  <2> QED BY <2>1, <2>2 DEF TypeOK, OpType
<1>2. CASE o.nonce <= nonce
    BY <1>1, <1>2 DEF Covered
<1>3. CASE o.nonce > nonce
    BY <1>1, <1>3 DEF Covered
<1> QED BY <1>1, <1>2, <1>3

\* The client moves an operation from "accepted" to announced, and no other way
\* (a session signer, which announces before it sends, is left out).
LEMMA ClientAnnounced ==
  ASSUME TypeOK, AnnouncedInv, NEW c \in Calls, Signer(c)
  PROVE  AnnouncedInv'
<1> SUFFICES ASSUME ~config'.session PROVE AnnouncedInv'
    BY DEF AnnouncedInv
<1>1. config' = config /\ nonce' = nonce /\ Left' = Left
    BY DEF Signer, Start, Prepare, AskPaymaster, Sign, BuildFails, Send, Resend, GiveUp, FallBack,
           Throw, Confirm, Return, Goes, outside, Left
<1>2. \A o : Covered(o)' <=> Covered(o)
    BY <1>1 DEF Covered
<1>3. ASSUME NEW f, Becomes(c, f), f.pc # "accepted", announced' = announced
      PROVE  AnnouncedInv'
    BY <1>1, <1>2, <1>3 DEF AnnouncedInv, Becomes, FrameBecomes
<1>4. CASE Start(c)
  <2> DEFINE f == [calls[c] EXCEPT !.pc = "building"]
  <2>1. Becomes(c, f) /\ f.pc = "building" /\ announced' = announced
      BY <1>4, StartStep, PcOnly
  <2> HIDE DEF f
  <2> QED BY <1>3, <2>1
<1>5. CASE BuildFails(c) \/ Throw(c)
  <2> DEFINE f == [calls[c] EXCEPT !.pc = "threw"]
  <2>1. Becomes(c, f) /\ f.pc = "threw" /\ announced' = announced
      BY <1>5, ThrowStep, PcOnly
  <2> HIDE DEF f
  <2> QED BY <1>3, <2>1
<1>6. CASE Prepare(c) \/ AskPaymaster(c)
  <2>1. PICK pc \in {"prepared", "sponsored"}, o \in OpType :
           /\ Becomes(c, [calls[c] EXCEPT !.pc = pc, !.op = o])
           /\ UNCHANGED announced
      BY <1>6, PrepareStep, AskStep
  <2>2. [calls[c] EXCEPT !.pc = pc, !.op = o].pc = pc
      BY DEF TypeOK, FrameType
  <2> QED BY <1>3, <2>1, <2>2
<1>61. CASE Sign(c)
  <2> DEFINE f == [calls[c] EXCEPT !.pc = "built"]
  <2>1. Becomes(c, f) /\ f.pc = "built" /\ announced' = announced
      BY <1>61, SignStep, PcOnly
  <2> HIDE DEF f
  <2> QED BY <1>3, <2>1
<1>7. CASE Send(c)
  <2> DEFINE f == [calls[c] EXCEPT !.pc = "sent"]
  <2>1. Becomes(c, f) /\ f.pc = "sent"
      BY <1>7, SendStep, PcOnly
  <2>2. announced' = announced
      BY <1>1, <1>7 DEF Send
  <2> HIDE DEF f
  <2> QED BY <1>3, <2>1, <2>2
<1>8. CASE Resend(c)
  <2> DEFINE f == [calls[c] EXCEPT !.pc = "building", !.retry = @ + 1, !.fallback = FALSE,
                                   !.fee = increasedFee(calls[c].op.fee)]
  <2>1. f.pc = "building"
      BY DEF TypeOK, FrameType
  <2> QED BY <1>3, <1>8, <2>1, ResendStep
<1>9. CASE FallBack(c)
  <2> DEFINE f == [calls[c] EXCEPT !.pc = "building", !.retry = 0, !.fallback = TRUE,
                                   !.saved = Append(@, providers)]
  <2>1. f.pc = "building"
      BY DEF TypeOK, FrameType
  <2> QED BY <1>3, <1>9, <2>1, FallBackStep
<1>10. CASE GiveUp(c) \/ Confirm(c)
  <2>1. PICK pc \in {"gaveUp", "returning", "threw"} :
           /\ Becomes(c, [calls[c] EXCEPT !.pc = pc])
           /\ calls[c].pc = (IF pc = "gaveUp" THEN "underpriced" ELSE "accepted")
           /\ announced' \subseteq announced \cup {calls[c].op}
      BY <1>10, EndStep
  <2>2. announced' \subseteq announced \/ (calls[c].pc = "accepted" /\ announced' \subseteq announced \cup {calls[c].op})
      BY <1>10, <2>1 DEF GiveUp, Confirm
  <2>3. \A o \in announced' : Covered(o)
      BY <1>1, <2>2 DEF AnnouncedInv
  <2>4. [calls[c] EXCEPT !.pc = pc].pc = pc
      BY PcOnly
  <2> QED BY <1>1, <1>2, <2>1, <2>3, <2>4 DEF AnnouncedInv, Becomes, FrameBecomes
<1>11. CASE Return(c)
  <2>1. PICK f \in {[calls[c] EXCEPT !.pc = "returned"], [calls[c] EXCEPT !.saved = Front(@)]} :
           Becomes(c, f)
      BY <1>11, ReturnStep
  <2>2. f.pc \in {"returning", "returned"} /\ announced' = announced
      BY <1>11, ReturnStep DEF TypeOK, FrameType
  <2> QED BY <1>3, <2>1, <2>2
<1> QED BY <1>4, <1>5, <1>6, <1>61, <1>7, <1>8, <1>9, <1>10, <1>11 DEF Signer

\* Every step, then.
LEMMA NextAnnounced ==
  ASSUME TypeOK, CallInv, AnnouncedInv, [Next]_vars
  PROVE  AnnouncedInv'
<1> SUFFICES ASSUME ~config'.session PROVE AnnouncedInv'
    BY DEF AnnouncedInv
<1> USE DEF AnnouncedInv
<1>1. CASE UNCHANGED vars
    BY <1>1 DEF Covered, Left, vars, outside
<1>2. ASSUME NEW c \in Calls, Accept(c) PROVE AnnouncedInv'
  <2>1. /\ config' = config /\ announced' = announced
        /\ \A d \in Calls : d # c => calls'[d] = calls[d]
        /\ calls'[c].op = calls[c].op
      BY <1>2 DEF Accept, TypeOK, FrameType
  <2>2. \A d \in Calls : calls[d].pc = "accepted" => calls[d].op \in OpType
      BY DEF TypeOK
  <2>3. calls[c].op \in OpType /\ announced \subseteq OpType
      BY <1>2 DEF TypeOK, Accept
  <2> QED BY <1>2, <2>1, <2>2, <2>3, AcceptCovers
<1>3. ASSUME NEW c \in Calls, Refuse(c) PROVE AnnouncedInv'
  <2>1. /\ config' = config /\ announced' = announced /\ nonce' = nonce /\ Left' = Left
        /\ \A d \in Calls : calls'[d].pc = "accepted" => calls'[d] = calls[d]
      BY <1>3 DEF Refuse, TypeOK, FrameType, Left, outside
  <2>2. \A o : Covered(o)' <=> Covered(o)
      BY <2>1 DEF Covered
  <2> QED BY <2>1, <2>2
<1>4. CASE Mine
  <2>1. \A d \in Calls : calls[d].pc = "accepted" => calls[d].op \in OpType
      BY DEF TypeOK
  <2>2. announced \subseteq OpType
      BY DEF TypeOK
  <2> QED BY <1>4, <2>1, <2>2, MineStep, MineCovers
<1>5. ASSUME NEW b \in Providers, Drop(b) PROVE AnnouncedInv'
    BY <1>5, DropStep DEF Covered
<1> QED BY <1>1, <1>2, <1>3, <1>4, <1>5, ClientAnnounced DEF Next, Bundler
-----------------------------------------------------------------------------
(* Where the fallback reaches, when no two calls run at once *)

\* A step of the only active call, from what its frame and the providers become.
LEMMA AloneKeeps ==
  ASSUME TypeOK, ScopeInv, config.serial, NEW c \in Calls, NEW f, FrameBecomes(c, f),
         \A d \in Calls : Active(d) => d = c,
         f.pc # "idle", ModeOK(c)', SentOK(c)',
         \A d \in Calls : d # c => sent'[d] = sent[d],
         f.pc \notin {"threw", "gaveUp"} /\ (\A d \in Calls : ~Failed(d)) =>
           IF f.pc = "returned" THEN providers' = "primary"
           ELSE providers' = (IF f.saved = <<>> THEN "primary" ELSE "fallback")
                /\ (f.saved # <<>> => f.saved[1] = "primary")
                /\ \A i \in 1..Len(f.saved) : i > 1 => f.saved[i] = "fallback",
         ~Failed(c)
  PROVE  ScopeInv'
<1> USE DEF ScopeInv, FrameBecomes
<1>1. \A d \in Calls : d # c => ~Active(d) /\ ~Active(d)' /\ (Failed(d)' <=> Failed(d))
    BY DEF Active, Failed
<1>2. OneAtATime'
    BY <1>1 DEF OneAtATime
<1>3. \A d \in Calls : d # c => ModeOK(d)' /\ SentOK(d)'
  <2> SUFFICES ASSUME NEW d \in Calls, d # c PROVE ModeOK(d)' /\ SentOK(d)'
      OBVIOUS
  <2>1. calls'[d] = calls[d] /\ sent'[d] = sent[d] /\ ~Active(d)'
      BY <1>1
  <2>2. calls[d].pc \notin {"sponsored", "built"}
      BY <1>1 DEF Active, Ended
  <2> QED BY <2>1, <2>2 DEF ModeOK, SentOK, Attempts
<1>4. ASSUME \A d \in Calls : ~Failed(d)'
      PROVE  /\ \A d \in Calls : Active(d)' => Restores(calls[d].saved)'
             /\ (\A d \in Calls : ~Active(d)') => providers' = "primary"
  <2>1. f.pc \notin {"threw", "gaveUp"} /\ \A d \in Calls : ~Failed(d)
      BY <1>1, <1>4 DEF Failed
  <2>2. Active(c)' <=> f.pc # "returned"
      BY <2>1 DEF Active, Ended
  <2> QED BY <1>1, <2>1, <2>2 DEF Restores
<1> QED BY <1>2, <1>3, <1>4

\* The last frame that fell back puts back what the one before it needs.
LEMMA FrontRestores ==
  ASSUME NEW s \in Seq(Providers), s # <<>>
  PROVE  /\ Front(s) \in Seq(Providers)
         /\ Restores(s) =>
              /\ Last(s) = (IF Front(s) = <<>> THEN "primary" ELSE "fallback")
              /\ Front(s) # <<>> => Front(s)[1] = "primary"
              /\ \A i \in 1..Len(Front(s)) : i > 1 => Front(s)[i] = "fallback"
<1>1. Len(s) \in Nat /\ Len(s) > 0
  OBVIOUS
<1>2. /\ Front(s) \in Seq(Providers) /\ Len(Front(s)) = Len(s) - 1
      /\ \A i \in 1..Len(s) - 1 : Front(s)[i] = s[i]
  <2> DEFINE n == Len(s) - 1
  <2>1. n \in Nat /\ n <= Len(s) /\ n - 1 + 1 = n
    BY <1>1
  <2>2. /\ SubSeq(s, 1, n) \in Seq(Providers) /\ Len(SubSeq(s, 1, n)) = n
        /\ \A i \in 1..n : SubSeq(s, 1, n)[i] = s[i]
    <3> HIDE DEF n
    <3> QED BY <2>1
  <2> QED BY <2>2 DEF Front
<1>3. Last(s) = s[Len(s)]
  BY DEF Last
<1>4. Front(s) = <<>> <=> Len(s) = 1
  BY <1>1, <1>2
<1>5. ASSUME Restores(s)
      PROVE  s[1] = "primary" /\ \A i \in 1..Len(s) : i > 1 => s[i] = "fallback"
  BY <1>5 DEF Restores
<1>6. ASSUME Restores(s)
      PROVE  Last(s) = (IF Front(s) = <<>> THEN "primary" ELSE "fallback")
  <2>1. CASE Len(s) = 1
    BY <1>3, <1>4, <1>5, <1>6, <2>1
  <2>2. CASE Len(s) # 1
    <3>1. Len(s) \in 1..Len(s) /\ Len(s) > 1
      BY <1>1, <2>2
    <3>2. s[Len(s)] = "fallback"
      BY <1>5, <1>6, <3>1
    <3> QED BY <1>3, <1>4, <2>2, <3>2
  <2> QED BY <2>1, <2>2
<1> QED BY <1>1, <1>2, <1>4, <1>5, <1>6

\* Which the client's steps are, for a client that awaits each call.
LEMMA ClientScope ==
  ASSUME TypeOK, CallInv, ScopeInv, NEW c \in Calls, Signer(c)
  PROVE  ScopeInv'
<1>1. config' = config
    BY DEF Signer, Start, Prepare, AskPaymaster, Sign, BuildFails, Send, Resend, GiveUp,
           FallBack, Throw, Confirm,
           Return, Goes
<1> SUFFICES ASSUME config.serial PROVE ScopeInv'
    BY <1>1 DEF ScopeInv
<1>2. ~Failed(c) /\ calls[c].pc # "returned"
    BY DEF Signer, Start, Prepare, AskPaymaster, Sign, BuildFails, Send, Resend, GiveUp,
           FallBack, Throw, Confirm,
           Return, Failed
<1>3. \A d \in Calls : Active(d) => d = c
  <2>1. CASE Start(c)
      BY <2>1 DEF Start
  <2>2. CASE ~Start(c)
    <3>1. Active(c)
        BY <2>2 DEF Signer, Prepare, AskPaymaster, Sign, BuildFails, Send, Resend, GiveUp,
           FallBack, Throw, Confirm,
                    Return, Active, Ended
    <3> QED BY <3>1 DEF ScopeInv, OneAtATime
  <2> QED BY <2>1, <2>2
<1>4. ModeOK(c) /\ SentOK(c) /\ Recorded(c) /\ calls[c].saved \in Seq(Providers)
    BY DEF ScopeInv, CallInv, TypeOK, FrameType
<1>5. (\A d \in Calls : ~Failed(d)) => Restores(calls[c].saved)
  <2>1. CASE Start(c)
      BY <1>3, <1>4, <2>1 DEF Start, ScopeInv, ModeOK, Restores, Active, Ended
  <2>2. CASE ~Start(c)
    <3>1. Active(c)
        BY <2>2 DEF Signer, Prepare, AskPaymaster, Sign, BuildFails, Send, Resend, GiveUp,
           FallBack, Throw, Confirm,
                    Return, Active, Ended
    <3> QED BY <3>1 DEF ScopeInv
  <2> QED BY <2>1, <2>2
\* Providers and what is saved stay as they are.
<1>6. ASSUME NEW f, Becomes(c, f), UNCHANGED providers, f.saved = calls[c].saved,
             f.pc \notin {"idle", "returned"}, ModeOK(c)', SentOK(c)',
             \A d \in Calls : d # c => sent'[d] = sent[d]
      PROVE  ScopeInv'
  <2>1. FrameBecomes(c, f)
      BY <1>6 DEF Becomes
  <2> QED BY <1>2, <1>3, <1>5, <1>6, <2>1, AloneKeeps DEF Restores
<1>7. UNCHANGED sent => SentOK(c)'
    BY <1>4 DEF SentOK, Attempts
<1>8. CASE Start(c)
  <2> DEFINE f == [calls[c] EXCEPT !.pc = "building"]
  <2>1. Becomes(c, f) /\ calls[c].pc = "idle" /\ UNCHANGED <<providers, sent>>
      BY <1>8, StartStep
  <2>2. f.pc = "building" /\ f.fallback = calls[c].fallback /\ f.saved = calls[c].saved
      BY DEF TypeOK, FrameType
  <2> HIDE DEF f
  <2>3. ModeOK(c)'
      BY <1>4, <2>1, <2>2 DEF ModeOK, Becomes, FrameBecomes
  <2> QED BY <1>6, <1>7, <2>1, <2>2, <2>3
<1>9. CASE BuildFails(c) \/ Throw(c)
  <2> DEFINE f == [calls[c] EXCEPT !.pc = "threw"]
  <2>1. Becomes(c, f) /\ UNCHANGED <<providers, sent>>
      BY <1>9, ThrowStep
  <2>2. f.pc = "threw" /\ f.saved = calls[c].saved
      BY DEF TypeOK, FrameType
  <2> HIDE DEF f
  <2>3. ModeOK(c)'
      BY <2>1, <2>2 DEF ModeOK, Becomes, FrameBecomes, Active, Ended
  <2> QED BY <1>6, <1>7, <2>1, <2>2, <2>3
<1>10. CASE Prepare(c)
  <2>1. PICK fee \in ownFees(c) :
           /\ Becomes(c, [calls[c] EXCEPT !.pc = "prepared", !.op = NewOp(c, fee)])
           /\ calls[c].pc = "building"
           /\ UNCHANGED <<providers, sent>>
      BY <1>10, PrepareStep
  <2> DEFINE f == [calls[c] EXCEPT !.pc = "prepared", !.op = NewOp(c, fee)]
  <2>2. f.pc = "prepared" /\ f.fallback = calls[c].fallback /\ f.saved = calls[c].saved
      BY DEF TypeOK, FrameType
  <2>3. Becomes(c, f)
      BY <2>1
  <2> HIDE DEF f
  <2>4. ModeOK(c)'
      BY <1>4, <2>1, <2>2, <2>3 DEF ModeOK, Becomes, FrameBecomes, Active, Ended
  <2> QED BY <1>6, <1>7, <2>1, <2>2, <2>3, <2>4
<1>101. CASE AskPaymaster(c)
  <2>1. PICK fee : /\ Becomes(c, [calls[c] EXCEPT !.pc = "sponsored", !.op = SponsoredOp(c, fee)])
                   /\ calls[c].op \in OpType /\ calls[c].pc = "prepared"
                   /\ UNCHANGED <<providers, sent>>
      BY <1>101, AskStep
  <2> DEFINE f == [calls[c] EXCEPT !.pc = "sponsored", !.op = SponsoredOp(c, fee)]
  <2>2. /\ f.pc = "sponsored" /\ f.fallback = calls[c].fallback /\ f.saved = calls[c].saved
        /\ f.op = SponsoredOp(c, fee)
      BY DEF TypeOK, FrameType
  <2>3. SponsoredOp(c, fee).fallback = calls[c].op.fallback /\ SponsoredOp(c, fee).sponsor = providers
      BY <2>1 DEF SponsoredOp, OpType
  <2>4. Becomes(c, f) /\ calls[c].op.fallback = calls[c].fallback
      BY <1>4, <2>1 DEF Recorded, Unsent
  <2> HIDE DEF f
  <2>5. ModeOK(c)'
      BY <1>4, <2>1, <2>2, <2>3, <2>4 DEF ModeOK, Becomes, FrameBecomes, Active, Ended
  <2> QED BY <1>6, <1>7, <2>1, <2>2, <2>4, <2>5
<1>102. CASE Sign(c)
  <2> DEFINE f == [calls[c] EXCEPT !.pc = "built"]
  <2>1. Becomes(c, f) /\ calls[c].pc = "sponsored" /\ UNCHANGED <<providers, sent>>
      BY <1>102, SignStep
  <2>2. f.pc = "built" /\ f.fallback = calls[c].fallback /\ f.saved = calls[c].saved
        /\ f.op = calls[c].op
      BY DEF TypeOK, FrameType
  <2> HIDE DEF f
  <2>3. ModeOK(c)'
      BY <1>4, <2>1, <2>2 DEF ModeOK, Becomes, FrameBecomes, Active, Ended
  <2> QED BY <1>6, <1>7, <2>1, <2>2, <2>3
<1>11. CASE Send(c)
  <2> DEFINE f == [calls[c] EXCEPT !.pc = "sent"]
             n == Len(sent[c])
  <2>1. Becomes(c, f) /\ calls[c].pc = "built" /\ UNCHANGED providers
      BY <1>11, SendStep
  <2>2. f.pc = "sent" /\ f.fallback = calls[c].fallback /\ f.saved = calls[c].saved
      BY DEF TypeOK, FrameType
  <2> HIDE DEF f
  <2>3. ModeOK(c)'
      BY <1>4, <2>1, <2>2 DEF ModeOK, Becomes, FrameBecomes, Active, Ended
  <2>4. /\ n \in Nat /\ Len(sent'[c]) = n + 1
        /\ \A i \in 1..n : sent'[c][i] = sent[c][i]
        /\ sent'[c][n + 1].op = calls[c].op
        /\ \A d \in Calls \ {c} : sent'[d] = sent[d]
      BY <1>11, Appended
  <2>5. sent'[c][n + 1].bundler = providers
    <3> DEFINE attempt == [op |-> calls[c].op, bundler |-> providers]
               SentType == [op : OpType, bundler : Providers]
    <3>1. attempt \in SentType /\ attempt.bundler = providers
        BY <1>11, SendStep DEF TypeOK
    <3>2. sent \in [Calls -> Seq(SentType)] /\ sent' = [sent EXCEPT ![c] = Append(sent[c], attempt)]
        BY <1>11, SendStep DEF TypeOK
    <3> HIDE DEF attempt, SentType
    <3> QED BY <3>1, <3>2
  <2>6. calls[c].op.fallback => calls[c].op.sponsor = "fallback" /\ providers = "fallback"
    <3>1. calls[c].op.fallback = calls[c].fallback /\ Active(c)
        BY <1>4, <2>1 DEF Recorded, Unsent, Active, Ended
    <3> QED BY <1>4, <2>1, <3>1 DEF ModeOK
  <2>7. SentOK(c)'
      BY <1>4, <2>4, <2>5, <2>6 DEF SentOK, Attempts
  <2> QED BY <1>6, <2>1, <2>2, <2>3, <2>4, <2>7
<1>12. CASE Resend(c)
  <2> DEFINE f == [calls[c] EXCEPT !.pc = "building", !.retry = @ + 1, !.fallback = FALSE,
                                   !.fee = increasedFee(calls[c].op.fee)]
  <2>1. Becomes(c, f) /\ UNCHANGED <<providers, sent>>
      BY <1>12, ResendStep
  <2>2. f.pc = "building" /\ ~f.fallback /\ f.saved = calls[c].saved
      BY DEF TypeOK, FrameType
  <2> HIDE DEF f
  <2>3. ModeOK(c)'
      BY <2>1, <2>2 DEF ModeOK, Becomes, FrameBecomes
  <2> QED BY <1>6, <1>7, <2>1, <2>2, <2>3
<1>13. CASE GiveUp(c) \/ Confirm(c)
  <2>1. PICK pc \in {"gaveUp", "returning", "threw"} :
           /\ Becomes(c, [calls[c] EXCEPT !.pc = pc])
           /\ UNCHANGED <<providers, sent>>
      BY <1>13, EndStep
  <2> DEFINE f == [calls[c] EXCEPT !.pc = pc]
  <2>2. f.pc = pc /\ f.saved = calls[c].saved
      BY DEF TypeOK, FrameType
  <2>3. Becomes(c, f)
      BY <2>1
  <2> HIDE DEF f
  <2>4. ModeOK(c)'
      BY <2>2, <2>3 DEF ModeOK, Becomes, FrameBecomes, Active, Ended
  <2> QED BY <1>6, <1>7, <2>1, <2>2, <2>3, <2>4
<1>14. CASE FallBack(c)
  <2> DEFINE f == [calls[c] EXCEPT !.pc = "building", !.retry = 0, !.fallback = TRUE,
                                   !.saved = Append(@, providers)]
             s == calls[c].saved
  <2>1. Becomes(c, f) /\ providers' = "fallback" /\ UNCHANGED sent
      BY <1>14, FallBackStep
  <2>2. f.pc = "building" /\ f.fallback /\ f.saved = Append(s, providers)
      BY DEF TypeOK, FrameType
  <2> HIDE DEF f
  <2>3. ModeOK(c)'
      BY <2>1, <2>2 DEF ModeOK, Becomes, FrameBecomes
  <2>4. /\ f.saved # <<>>
        /\ Len(f.saved) = Len(s) + 1 /\ Len(s) \in Nat
        /\ \A i \in 1..Len(s) : f.saved[i] = s[i]
        /\ f.saved[Len(s) + 1] = providers
        /\ s # <<>> => Len(s) > 0
    <3> HIDE DEF s
    <3>1. providers \in Providers
        BY DEF TypeOK
    <3> QED BY <1>4, <2>2, <3>1 DEF s
  <2>5. ASSUME \A d \in Calls : ~Failed(d)
        PROVE  f.saved[1] = "primary" /\ \A i \in 1..Len(f.saved) : i > 1 => f.saved[i] = "fallback"
      BY <1>4, <1>5, <2>4, <2>5 DEF Restores
  <2>6. FrameBecomes(c, f)
      BY <2>1 DEF Becomes
  <2> HIDE DEF s
  <2> QED BY <1>2, <1>3, <1>7, <2>1, <2>2, <2>3, <2>4, <2>5, <2>6, AloneKeeps
<1>15. CASE Return(c)
  <2> DEFINE s == calls[c].saved
  <2>1. calls[c].pc = "returning" /\ UNCHANGED sent
      BY <1>15, ReturnStep
  <2>2. CASE s = <<>>
    <3> DEFINE f == [calls[c] EXCEPT !.pc = "returned"]
    <3>1. Goes(c, f) /\ UNCHANGED providers /\ f \in FrameType /\ f.pc = "returned"
        BY <1>15, <2>2 DEF Return, TypeOK, FrameType, Ended
    <3> HIDE DEF f
    <3>2. FrameBecomes(c, f)
        BY <3>1, GoesBecomes DEF Becomes
    <3>3. ModeOK(c)'
        BY <3>1, <3>2 DEF ModeOK, FrameBecomes, Active, Ended
    <3> QED BY <1>2, <1>3, <1>5, <1>7, <2>1, <2>2, <3>1, <3>2, <3>3, AloneKeeps DEF Restores
  <2>3. CASE s # <<>>
    <3> DEFINE f == [calls[c] EXCEPT !.saved = Front(s)]
    <3>1. s \in Seq(Providers)
        BY <1>4
    <3>2. Front(s) \in Seq(Providers)
        BY <2>3, <3>1, FrontRestores
    <3>3. Goes(c, f) /\ providers' = Last(s)
        BY <1>15, <2>3 DEF Return
    <3>4. f \in FrameType /\ f.pc = "returning" /\ f.saved = Front(s)
        BY <2>1, <3>2 DEF TypeOK, FrameType
    <3>5. ASSUME \A d \in Calls : ~Failed(d)
          PROVE  /\ providers' = (IF Front(s) = <<>> THEN "primary" ELSE "fallback")
                 /\ Front(s) # <<>> => Front(s)[1] = "primary"
                 /\ \A i \in 1..Len(Front(s)) : i > 1 => Front(s)[i] = "fallback"
        BY <1>5, <2>3, <3>1, <3>3, <3>5, FrontRestores
    <3> HIDE DEF f
    <3>6. FrameBecomes(c, f)
        BY <3>3, <3>4, GoesBecomes DEF Becomes
    <3>7. ModeOK(c)'
        BY <3>4, <3>6 DEF ModeOK, FrameBecomes
    <3> QED BY <1>2, <1>3, <1>7, <2>1, <3>4, <3>5, <3>6, <3>7, AloneKeeps
  <2> QED BY <2>2, <2>3
<1> QED BY <1>8, <1>9, <1>10, <1>101, <1>102, <1>11, <1>12, <1>13, <1>14, <1>15 DEF Signer

\* Every step, then: the bundlers and the chain change no more than where the
\* frame stands.
LEMMA NextScope ==
  ASSUME TypeOK, CallInv, ScopeInv, [Next]_vars
  PROVE  ScopeInv'
<1>1. CASE UNCHANGED <<config, providers, calls, sent>>
  <2>1. \A c \in Calls : (Active(c)' <=> Active(c)) /\ (Failed(c)' <=> Failed(c))
        /\ (ModeOK(c)' <=> ModeOK(c)) /\ (SentOK(c)' <=> SentOK(c))
        /\ (Restores(calls[c].saved)' <=> Restores(calls[c].saved))
      BY <1>1 DEF Active, Failed, ModeOK, SentOK, Attempts, Restores
  <2> QED BY <1>1, <2>1 DEF ScopeInv, OneAtATime
<1>2. ASSUME NEW c \in Calls, Accept(c) \/ Refuse(c) PROVE ScopeInv'
  <2>1. PICK answer \in {"accepted", "failed", "unreadable", "underpriced"} :
           /\ calls' = [calls EXCEPT ![c] = [calls[c] EXCEPT !.pc = answer]]
           /\ calls[c].pc = "sent"
           /\ UNCHANGED <<config, providers, sent>>
      BY <1>2, AnswerStep
  <2>2. \A d \in Calls :
           /\ Active(d)' <=> Active(d)
           /\ Failed(d)' <=> Failed(d)
           /\ calls'[d].saved = calls[d].saved /\ calls'[d].fallback = calls[d].fallback
           /\ calls'[d] = calls[d] \/ (calls'[d].pc = answer /\ calls[d].pc = "sent")
      BY <2>1 DEF TypeOK, FrameType, Active, Failed, Ended
  <2>3. \A d \in Calls : (ModeOK(d) => ModeOK(d)') /\ (SentOK(d) => SentOK(d)')
        /\ (Restores(calls[d].saved)' <=> Restores(calls[d].saved))
      BY <2>1, <2>2 DEF ModeOK, SentOK, Attempts, Restores
  <2> QED BY <2>1, <2>2, <2>3 DEF ScopeInv, OneAtATime
<1>3. CASE Mine
    BY <1>1, <1>3, MineStep
<1>4. ASSUME NEW b \in Providers, Drop(b) PROVE ScopeInv'
    BY <1>1, <1>4, DropStep
<1> QED BY <1>1, <1>2, <1>3, <1>4, ClientScope DEF Next, Bundler, vars
-----------------------------------------------------------------------------
LEMMA InitIInv == Init => IInv
<1> SUFFICES ASSUME Init PROVE IInv
  OBVIOUS
<1>1. \A c \in Calls : calls[c] = Idle /\ Len(sent[c]) = 0
  BY DEF Init
<1>2. CallInv
  BY <1>1 DEF CallInv, Recorded, Counted, Priced, Attempts, Pending, Unsent, Idle
<1>3. TakenInv
  BY DEF Init, TakenInv, Taken
<1>4. AnnouncedInv
  BY <1>1 DEF Init, AnnouncedInv, Idle
<1>5. ScopeInv
  BY <1>1 DEF Init, ScopeInv, OneAtATime, ModeOK, SentOK, Restores, Attempts, Active, Ended, Idle
<1> QED BY <1>2, <1>3, <1>4, <1>5, InitType DEF IInv

LEMMA NextIInv == IInv /\ [Next]_vars => IInv'
<1> SUFFICES ASSUME IInv, [Next]_vars PROVE IInv'
  OBVIOUS
<1>1. TypeOK /\ CallInv /\ TakenInv /\ AnnouncedInv /\ ScopeInv
  BY DEF IInv
<1>2. ASSUME UNCHANGED vars PROVE TakenInv'
  BY <1>1, <1>2 DEF TakenInv, TakenOK, WillNotResend, Taken, Attempts, vars, outside
<1>3. ASSUME Mine PROVE TakenInv'
  <2>1. Taken' \subseteq Taken /\ UNCHANGED <<calls, sent>>
    BY <1>1, <1>3, MineStep
  <2>2. \A o : TakenOK(o) => TakenOK(o)'
    BY <2>1 DEF TakenOK, WillNotResend, Attempts
  <2> QED BY <1>1, <2>1, <2>2 DEF TakenInv
<1>31. ASSUME NEW b \in Providers, Drop(b) PROVE TakenInv'
  <2>1. Taken' = Taken
    BY <1>1, <1>31, DropStep, LeftMembers
  <2> QED BY <1>1, <1>31, <2>1, DropStep DEF TakenInv, TakenOK, WillNotResend, Attempts
<1>4. TakenInv'
  <2>1. ASSUME NEW c \in Calls, Signer(c) PROVE TakenInv'
    BY <1>1, <2>1, ClientTaken
  <2>2. ASSUME NEW c \in Calls, Bundler(c) PROVE TakenInv'
    BY <1>1, <2>2, AnswerTaken DEF Bundler
  <2> QED BY <1>2, <1>3, <1>31, <2>1, <2>2 DEF Next
<1> QED BY <1>1, <1>4, TypeKeeps, NextCalls, NextAnnounced, NextScope DEF IInv

\* The invariant holds along every behaviour of the signer.
THEOREM SignerInvariant == Spec => []IInv
  BY InitIInv, NextIInv, PTL DEF Spec

\* Types; the retries of every frame stay within maxTxRetries.
THEOREM SignerType == Spec => []TypeOK
<1>1. IInv => TypeOK
  BY DEF IInv
<1> QED BY <1>1, SignerInvariant, PTL

\* Without a fallback a call sends at most maxTxRetries + 1 operations, for any
\* maxTxRetries (sendTransaction, retryCount).
THEOREM AttemptsWithinRetries == Spec => []AttemptsBounded
<1>1. IInv => AttemptsBounded
  <2> SUFFICES ASSUME IInv, ~config.fallback, NEW c \in Calls
               PROVE  Len(sent[c]) <= MaxTxRetries + 1
    BY DEF AttemptsBounded
  <2>1. calls[c].retry \in 0..MaxTxRetries /\ Len(sent[c]) \in Nat
    BY DEF IInv, TypeOK, FrameType
  <2>2. Len(sent[c]) <= calls[c].retry + 1
    BY DEF IInv, CallInv, Counted
  <2> QED BY <2>1, <2>2, RetriesAssumption
<1> QED BY <1>1, SignerInvariant, PTL

\* What a call asked for runs twice only with a fallback in between, although
\* answers get lost, others' operations take nonces, and nonces are read anew.
THEOREM OnlyFallBackRepeatsCalls == Spec => []OnlyFallBackRepeats
<1>1. IInv => OnlyFallBackRepeats
  <2> SUFFICES ASSUME IInv, NEW o1 \in executed, NEW o2 \in executed,
                      o1.call = o2.call, o1.attempt < o2.attempt
               PROVE  \E i \in DOMAIN sent[o1.call] :
                        i > o1.attempt /\ i <= o2.attempt /\ sent[o1.call][i].op.fallback
    BY DEF OnlyFallBackRepeats
  <2>1. TakenOK(o1) /\ TakenOK(o2)
    BY DEF IInv, TakenInv, Taken
  <2>2. Len(sent[o1.call]) \in Nat /\ DOMAIN sent[o1.call] = 1..Len(sent[o1.call])
    BY <2>1 DEF IInv, TypeOK, TakenOK
  <2>3. o1.attempt \in 1..Len(sent[o1.call]) /\ o2.attempt \in 1..Len(sent[o1.call])
    BY <2>1 DEF TakenOK, Attempts
  <2>4. sent[o1.call][o1.attempt + 1].op.fallback
    BY <2>1, <2>2, <2>3 DEF TakenOK
  <2>5. o1.attempt + 1 \in DOMAIN sent[o1.call] /\ o1.attempt + 1 > o1.attempt
        /\ o1.attempt + 1 <= o2.attempt
    BY <2>2, <2>3
  <2> QED BY <2>4, <2>5
<1> QED BY <1>1, SignerInvariant, PTL

\* Every resend whose fees the signer sets replaces what it follows by the 10%
\* rule, from a priority fee of 34 on (resendTransactionWithIncreasedGasFees).
THEOREM ResendsReplace == Spec => []ResendsCanReplace
<1>1. IInv => ResendsCanReplace
  <2> SUFFICES ASSUME IInv, ~config.session, ~config.paymasterFees, NEW c \in Calls,
                      NEW i \in DOMAIN sent[c], i > 1, sent[c][i].op.retry > 0,
                      sent[c][i-1].op.fee >= 34
               PROVE  10 * sent[c][i].op.fee > 11 * sent[c][i-1].op.fee
    BY DEF ResendsCanReplace
  <2>1. i \in Attempts(c)
    BY DEF IInv, TypeOK, Attempts
  <2> QED BY <2>1 DEF IInv, CallInv, Priced
<1> QED BY <1>1, SignerInvariant, PTL
\* A client of ZeroDevSigner is told only of operations that a bundler took: each
\* of them, or one of its nonce that pays no less, waits or was dropped by a
\* bundler until the account is past the nonce, for any calls, fees and retries
\* (the hook after sendUserOpToBundler).
THEOREM ToldOnlyOfAccepted == Spec => []AnnouncedWereAccepted
<1>1. IInv => AnnouncedWereAccepted
  BY DEF IInv, AnnouncedInv, Covered, Left, AnnouncedWereAccepted
<1> QED BY <1>1, SignerInvariant, PTL

\* The fallback bundler and paymaster are used by frames in fallback mode only
\* and given back, however deep the frames of a client that awaits each call
\* (sendTransaction, the switch of the providers and its reversal).
THEOREM FallbackStaysInScope == Spec => []FallbackIsScoped
<1>1. IInv => FallbackIsScoped
  <2> SUFFICES ASSUME IInv, config.serial PROVE FallbackIsScoped
    BY DEF FallbackIsScoped
  <2>1. ASSUME NEW c \in Calls, NEW i \in DOMAIN sent[c], sent[c][i].op.fallback
        PROVE  sent[c][i].op.sponsor = "fallback" /\ sent[c][i].bundler = "fallback"
    <3>1. i \in Attempts(c)
      BY DEF IInv, TypeOK, Attempts
    <3> QED BY <2>1, <3>1 DEF IInv, ScopeInv, SentOK
  <2>2. (\A c \in Calls : calls[c].pc \in {"idle", "returned"}) => providers = "primary"
    BY DEF IInv, ScopeInv, Active, Failed, Ended
  <2> QED BY <2>1, <2>2 DEF FallbackIsScoped
<1> QED BY <1>1, SignerInvariant, PTL
=============================================================================
