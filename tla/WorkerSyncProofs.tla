--------------------------- MODULE WorkerSyncProofs ---------------------------
(***************************************************************************)
(* Proofs about WorkerSync, for any number of sessions, losses and retries. *)
(*                                                                         *)
(* A position is only ever set to a number the enclave named, and without  *)
(* a rollback the enclave's numbers only grow: that makes NeverAhead       *)
(* inductive once the numbers are known to be numbers, which takes the     *)
(* bounds of the blobs that are under way.                                 *)
(*                                                                         *)
(* LossesAreSurvived is an account: the attempts that failed, the positions *)
(* that are behind the enclave, the header a session believes in and the   *)
(* requests that are still late are together never more than two for each  *)
(* loss and one (Paid).                                                    *)
(***************************************************************************)
EXTENDS WorkerSync, FiniteSetTheorems, TLAPS

\* The enclave has nothing that is not offered, and no blob reaches beyond what is.
EnclaveBounded ==
    /\ legacy \in BOOLEAN
    /\ parentHeight \in 0..MaxRelay /\ paraHeight \in 0..MaxPara
    /\ ParaAt[parentHeight] <= paraHeight
    /\ enclave \in [relay : Nat, para : Nat, block : Nat]
    /\ enclave.relay \in 1..(parentHeight + 1)
    /\ enclave.para \in 1..(paraHeight + 1)
    /\ enclave.block \in 1..enclave.para

Reach(kind) == IF kind = "headers" THEN parentHeight ELSE paraHeight

LateBounded == \A r \in late : r \in Requests /\ r.to <= Reach(r.kind)

Kinds == {"none", "headers", "batch", "blocks"}

LoopsTyped ==
    /\ losses \in 0..MaxLosses /\ rollbacks \in 0..MaxRollbacks
    /\ pc \in [Loops -> {"off", "turn", "fetch", "send", "error", "ended", "fatal"}]
    /\ fn \in [Loops -> Kinds]
    /\ point \in [Loops -> {"top", "headers", "rest"}]
    /\ attempt \in [Loops -> 0..(Retries + 1)]

BlobsBounded ==
    /\ to \in [Loops -> Nat]
    /\ \A l \in Loops : IF pc[l] = "send" THEN to[l] <= Reach(Kind(l)) ELSE to[l] = 0

PositionsTyped ==
    /\ headerSyncNumber \in [Sessions -> 0..(MaxRelay + 1)]
    /\ paraHeaderSyncNumber \in [Sessions -> 0..(MaxPara + 1)]
    /\ paraBlockSyncNumber \in [Sessions -> 0..(MaxPara + 1)]
    /\ paraHeaderSynchedTo \in [Sessions -> -1..(MaxPara + 1)]

SessionsTyped ==
    /\ shouldStop \in [Sessions -> BOOLEAN]
    /\ promise \in [Sessions -> {"pending", "resolved", "rejected"}]

\* The inductive invariant.
Inv ==
    /\ EnclaveBounded /\ LateBounded
    /\ LoopsTyped /\ BlobsBounded
    /\ PositionsTyped /\ SessionsTyped
    /\ NeverAhead

USE DEF Loops, LoopsOf
-------------------------------------------------------------------------------
(* What the enclave does with a request                                    *)

\* The enclave has come to e: within what is offered and never behind where it was.
Grown(e) ==
    /\ e \in [relay : Nat, para : Nat, block : Nat]
    /\ e.relay \in 1..(parentHeight + 1) /\ e.relay >= enclave.relay
    /\ e.para \in 1..(paraHeight + 1) /\ e.para >= enclave.para
    /\ e.block \in 1..e.para /\ e.block >= enclave.block

\* A request that is taken makes the enclave grow.
LEMMA TakenBounded ==
    ASSUME EnclaveBounded, NEW r, r \in Requests, r.to <= Reach(r.kind), Fits(r)
    PROVE  Grown(Taken(r))
<1>0. enclave = [relay |-> enclave.relay, para |-> enclave.para, block |-> enclave.block]
    BY DEF EnclaveBounded
<1>1. CASE r.kind = "headers"
    <2>1. r.to \in 0..parentHeight
        BY <1>1, WorkerSyncAssumption DEF Requests, Numbers, Larger, Reach, EnclaveBounded
    <2>2. ParaAt[r.to] \in Nat /\ ParaAt[r.to] <= paraHeight
        <3>1. r.to \in 0..MaxRelay /\ parentHeight \in 0..MaxRelay /\ r.to <= parentHeight
            BY <2>1, WorkerSyncAssumption DEF EnclaveBounded
        <3>2. ParaAt[r.to] <= ParaAt[parentHeight]
            BY <3>1, WorkerSyncAssumption
        <3>3. ParaAt[r.to] \in Nat /\ ParaAt[parentHeight] \in Nat
            BY <3>1, WorkerSyncAssumption
        <3> QED BY <3>2, <3>3 DEF EnclaveBounded
    <2> DEFINE relay == Larger(enclave.relay, r.to + 1)
               para == Larger(enclave.para, ParaAt[r.to] + 1)
    <2>3. Taken(r) = [relay |-> relay, para |-> para, block |-> enclave.block]
        BY <1>0, <1>1 DEF Taken
    <2>4. relay \in 1..(parentHeight + 1) /\ relay >= enclave.relay
        BY SMTT(30), <2>1, WorkerSyncAssumption DEF Larger, EnclaveBounded
    <2>6. parentHeight \in Nat /\ paraHeight \in Nat /\ enclave.block \in 1..enclave.para
        BY WorkerSyncAssumption DEF EnclaveBounded
    <2>7. enclave.para \in Nat /\ enclave.block \in Nat /\ enclave.para \in 1..(paraHeight + 1)
        BY DEF EnclaveBounded
    <2>5. para \in 1..(paraHeight + 1) /\ para >= enclave.para
        <3> SUFFICES ASSUME NEW p \in Nat, p <= paraHeight
                     PROVE  /\ Larger(enclave.para, p + 1) \in 1..(paraHeight + 1)
                            /\ Larger(enclave.para, p + 1) >= enclave.para
            BY <2>2
        <3> QED BY <2>6, <2>7 DEF Larger
    <2> HIDE DEF relay, para
    <2>8. relay \in Nat /\ para \in Nat /\ enclave.block \in 1..para
        BY <2>4, <2>5, <2>6, <2>7
    <2>9. /\ Taken(r).relay = relay /\ Taken(r).para = para /\ Taken(r).block = enclave.block
          /\ Taken(r) \in [relay : Nat, para : Nat, block : Nat]
        BY <2>3, <2>7, <2>8
    <2>10. enclave.block >= enclave.block
        BY <2>7
    <2> QED BY <2>4, <2>5, <2>8, <2>9, <2>10 DEF Grown
<1>2. CASE r.kind = "blocks"
    <2>1. r.to \in 0..paraHeight
        BY <1>2, WorkerSyncAssumption DEF Requests, Numbers, Larger, Reach, EnclaveBounded
    <2>2. r.to + 1 <= enclave.para
        BY <1>2, <2>1, WorkerSyncAssumption DEF Fits, EnclaveBounded
    <2>3. Taken(r) = [relay |-> enclave.relay, para |-> enclave.para,
                      block |-> Larger(enclave.block, r.to + 1)]
        BY <1>0, <1>2 DEF Taken
    <2>4. /\ Larger(enclave.block, r.to + 1) \in 1..enclave.para
          /\ Larger(enclave.block, r.to + 1) >= enclave.block
        BY SMTT(30), <2>1, <2>2, WorkerSyncAssumption DEF Larger, EnclaveBounded
    <2> QED BY <2>3, <2>4, WorkerSyncAssumption DEF EnclaveBounded, Grown
<1> QED BY <1>1, <1>2 DEF Requests

\* So does one that is refused.
LEMMA RefusedBounded ==
    ASSUME EnclaveBounded, NEW r, r \in Requests
    PROVE  Grown(Refused(r))
<1>0. enclave = [relay |-> enclave.relay, para |-> enclave.para, block |-> enclave.block]
    BY DEF EnclaveBounded
<1>1. Refused(r) = enclave \/
      Refused(r) = [relay |-> enclave.relay, para |-> enclave.para, block |-> enclave.para]
    BY <1>0 DEF Refused
<1> QED BY <1>1, WorkerSyncAssumption DEF EnclaveBounded, Grown

\* What a loop sends is a request within what is offered, and begins at no more than what
\* the enclave needs.
LEMMA RequestTyped ==
    ASSUME Inv, NEW l \in Loops, pc[l] = "send"
    PROVE  /\ Request(l) \in Requests
           /\ Request(l).kind = Kind(l) /\ Request(l).to = to[l]
           /\ Request(l).to <= Reach(Request(l).kind)
           /\ rollbacks = 0 =>
                Request(l).from <= IF Request(l).kind = "headers" THEN enclave.relay ELSE enclave.block
<1>1. l[1] \in Sessions
    OBVIOUS
<1>2. /\ Kind(l) \in {"headers", "blocks"}
      /\ fn[l] = "blocks" <=> Kind(l) = "blocks"
    BY DEF Kind
<1>3. to[l] \in Nat /\ to[l] <= Reach(Kind(l))
    BY DEF Inv, BlobsBounded
<1>4. to[l] \in Numbers
    BY SMTT(30), <1>2, <1>3, WorkerSyncAssumption DEF Numbers, Larger, Reach, Inv, EnclaveBounded
<1>5. headerSyncNumber[l[1]] \in Numbers /\ paraBlockSyncNumber[l[1]] \in Numbers
    <2>1. headerSyncNumber[l[1]] \in 0..(MaxRelay + 1) /\ paraBlockSyncNumber[l[1]] \in 0..(MaxPara + 1)
        BY <1>1 DEF Inv, PositionsTyped
    <2>2. MaxRelay \in Nat /\ MaxPara \in Nat
        BY WorkerSyncAssumption
    <2> QED BY <2>1, <2>2 DEF Numbers, Larger
<1>6. Request(l) \in Requests /\ Request(l).kind = Kind(l) /\ Request(l).to = to[l]
    BY <1>2, <1>4, <1>5 DEF Request, Requests
<1>7. rollbacks = 0 =>
          headerSyncNumber[l[1]] <= enclave.relay /\ paraBlockSyncNumber[l[1]] <= enclave.block
    BY <1>1 DEF Inv, NeverAhead
<1>8. Request(l).from = IF Kind(l) = "blocks" THEN paraBlockSyncNumber[l[1]] ELSE headerSyncNumber[l[1]]
    BY <1>2 DEF Request
<1> QED BY <1>2, <1>3, <1>6, <1>7, <1>8
-------------------------------------------------------------------------------
(* Steps                                                                   *)

LEMMA InitInv == Init => Inv
<1> SUFFICES ASSUME Init PROVE Inv
    OBVIOUS
<1>1. parentHeight \in 0..MaxRelay /\ ParaAt[parentHeight] \in Nat /\ ParaAt[parentHeight] <= MaxPara
    <2>1. parentHeight \in 0..MaxRelay /\ MaxRelay \in 0..MaxRelay /\ parentHeight <= MaxRelay
        BY WorkerSyncAssumption DEF Init
    <2>2. ParaAt[parentHeight] <= ParaAt[MaxRelay] /\ ParaAt[parentHeight] \in Nat /\ ParaAt[MaxRelay] \in Nat
        BY <2>1, WorkerSyncAssumption
    <2> QED BY <2>1, <2>2, WorkerSyncAssumption
<1>2. EnclaveBounded
    BY <1>1, WorkerSyncAssumption DEF Init, EnclaveBounded
<1>3. LateBounded
    BY DEF Init, LateBounded
<1>4. LoopsTyped /\ BlobsBounded /\ SessionsTyped
    BY WorkerSyncAssumption DEF Init, LoopsTyped, BlobsBounded, SessionsTyped, Kinds
<1>5. PositionsTyped
    BY WorkerSyncAssumption DEF Init, PositionsTyped
<1>6. NeverAhead
    <2>1. enclave.relay >= 0 /\ enclave.para >= 0 /\ enclave.block >= 0
        BY <1>2 DEF EnclaveBounded
    <2>2. /\ late = {}
          /\ \A s \in Sessions : /\ headerSyncNumber[s] = 0 /\ paraHeaderSyncNumber[s] = 0
                                 /\ paraBlockSyncNumber[s] = 0
        BY DEF Init
    <2> QED BY <2>1, <2>2 DEF NeverAhead
<1> QED BY <1>2, <1>3, <1>4, <1>5, <1>6 DEF Inv

\* What most steps leave alone.
LEMMA EnclaveKept ==
    ASSUME Inv, UNCHANGED <<sourceVars, enclave>>
    PROVE  EnclaveBounded'
BY DEF Inv, EnclaveBounded, sourceVars

LEMMA LateKept ==
    ASSUME Inv, UNCHANGED <<sourceVars, late>>
    PROVE  LateBounded'
BY DEF Inv, LateBounded, Reach, sourceVars, Requests, Numbers

LEMMA NeverAheadKept ==
    ASSUME Inv, UNCHANGED <<enclaveVars, positionVars>>
    PROVE  NeverAhead'
BY DEF Inv, NeverAhead, enclaveVars, positionVars

\* A step of a loop that has no blob afterwards keeps the blobs bounded.
LEMMA BlobsKept ==
    ASSUME Inv, NEW l \in Loops, UNCHANGED sourceVars,
           pc'[l] # "send", to'[l] = 0,
           to' \in [Loops -> Nat],
           \A k \in Loops \ {l} : pc'[k] = pc[k] /\ to'[k] = to[k] /\ fn'[k] = fn[k]
    PROVE  BlobsBounded'
BY DEF Inv, BlobsBounded, Kind, Reach, sourceVars

LEMMA GrownKeeps ==
    ASSUME Inv, UNCHANGED sourceVars, Grown(enclave')
    PROVE  EnclaveBounded'
BY DEF Inv, EnclaveBounded, sourceVars, Grown

LEMMA GrownNeverAhead ==
    ASSUME Inv, UNCHANGED <<rollbacks, positionVars>>, Grown(enclave'), late' \subseteq late
    PROVE  NeverAhead'
<1>1. /\ enclave.relay \in Nat /\ enclave'.relay \in Nat /\ enclave.relay <= enclave'.relay
      /\ enclave.para \in Nat /\ enclave'.para \in Nat /\ enclave.para <= enclave'.para
      /\ enclave.block \in Nat /\ enclave'.block \in Nat /\ enclave.block <= enclave'.block
    BY DEF Inv, EnclaveBounded, Grown
<1>2. SUFFICES ASSUME rollbacks = 0, rollbacks' = 0 PROVE NeverAhead'
    BY DEF NeverAhead
<1>3. ASSUME NEW s \in Sessions
      PROVE  /\ headerSyncNumber'[s] <= enclave'.relay /\ paraHeaderSyncNumber'[s] <= enclave'.para
             /\ paraBlockSyncNumber'[s] <= enclave'.block
    <2>1. /\ headerSyncNumber[s] \in Int /\ paraHeaderSyncNumber[s] \in Int
          /\ paraBlockSyncNumber[s] \in Int
        BY WorkerSyncAssumption DEF Inv, PositionsTyped
    <2>2. /\ headerSyncNumber[s] <= enclave.relay /\ paraHeaderSyncNumber[s] <= enclave.para
          /\ paraBlockSyncNumber[s] <= enclave.block
        BY <1>2 DEF Inv, NeverAhead
    <2> QED BY <1>1, <2>1, <2>2 DEF positionVars
<1>4. ASSUME NEW r \in late'
      PROVE  r.from <= IF r.kind = "headers" THEN enclave'.relay ELSE enclave'.block
    <2>1. r.from \in Int
        BY WorkerSyncAssumption DEF Inv, LateBounded, Requests, Numbers, Larger
    <2>2. r.from <= IF r.kind = "headers" THEN enclave.relay ELSE enclave.block
        BY <1>2 DEF Inv, NeverAhead
    <2> QED BY <1>1, <2>1, <2>2
<1> QED BY <1>3, <1>4 DEF NeverAhead

LEMMA PublishInv == Inv /\ Publish => Inv'
<1> SUFFICES ASSUME Inv, Publish PROVE Inv'
    OBVIOUS
<1>1. parentHeight \in Nat /\ paraHeight \in Nat /\ parentHeight' = parentHeight + 1 /\ paraHeight' = paraHeight
    BY WorkerSyncAssumption DEF Inv, EnclaveBounded, Publish
<1>2. EnclaveBounded'
    BY <1>1, WorkerSyncAssumption DEF Inv, EnclaveBounded, Publish, enclaveVars
<1>3. \A kind \in {"headers", "blocks"} : Reach(kind) \in Nat /\ Reach(kind)' \in Nat /\ Reach(kind) <= Reach(kind)'
    BY <1>1 DEF Reach
<1>4. LateBounded'
    BY <1>1, WorkerSyncAssumption DEF Inv, LateBounded, Publish, enclaveVars, Reach, Requests, Numbers, Larger
<1>5. BlobsBounded'
    BY <1>1 DEF Inv, BlobsBounded, Publish, loopVars, Reach, Kind
<1>6. LoopsTyped' /\ PositionsTyped' /\ SessionsTyped'
    BY DEF Inv, LoopsTyped, PositionsTyped, SessionsTyped, Publish, enclaveVars, loopVars, positionVars, sessionVars
<1> QED BY <1>2, <1>4, <1>5, <1>6, NeverAheadKept DEF Inv, Publish

LEMMA FetchParaInv == Inv /\ FetchPara => Inv'
<1> SUFFICES ASSUME Inv, FetchPara PROVE Inv'
    OBVIOUS
<1>1. parentHeight \in Nat /\ paraHeight \in Nat /\ parentHeight' = parentHeight /\ paraHeight' = paraHeight + 1
    BY WorkerSyncAssumption DEF Inv, EnclaveBounded, FetchPara
<1>2. EnclaveBounded'
    <2>1. parentHeight \in 0..MaxRelay /\ ParaAt[parentHeight] \in Nat
        BY WorkerSyncAssumption DEF Inv, EnclaveBounded
    <2> QED BY SMTT(30), <1>1, <2>1, WorkerSyncAssumption DEF Inv, EnclaveBounded, FetchPara, enclaveVars
<1>4. LateBounded'
    BY <1>1, WorkerSyncAssumption DEF Inv, LateBounded, FetchPara, enclaveVars, Reach, Requests, Numbers, Larger
<1>5. BlobsBounded'
    BY <1>1 DEF Inv, BlobsBounded, FetchPara, loopVars, Reach, Kind
<1>6. LoopsTyped' /\ PositionsTyped' /\ SessionsTyped'
    BY DEF Inv, LoopsTyped, PositionsTyped, SessionsTyped, FetchPara, enclaveVars, loopVars, positionVars, sessionVars
<1> QED BY <1>2, <1>4, <1>5, <1>6, NeverAheadKept DEF Inv, FetchPara

LEMMA LateInv == ASSUME Inv, NEW r \in late, Late(r) PROVE Inv'
<1>1. r \in Requests /\ r.to <= Reach(r.kind)
    BY DEF Inv, LateBounded
<1>2. Grown(enclave)
    <2>1. parentHeight \in Nat /\ paraHeight \in Nat
        BY WorkerSyncAssumption DEF Inv, EnclaveBounded
    <2> QED BY <2>1 DEF Inv, EnclaveBounded, Grown
<1>3. Grown(enclave')
    BY <1>1, <1>2, TakenBounded, RefusedBounded DEF Inv, Late
<1>4. late' \subseteq late
    BY DEF Late
<1>5. LateBounded'
    BY <1>4 DEF Inv, LateBounded, Reach, sourceVars, Requests, Numbers, Late
<1>6. BlobsBounded'
    BY DEF Inv, BlobsBounded, Late, loopVars, Reach, Kind, sourceVars
<1>7. LoopsTyped' /\ PositionsTyped' /\ SessionsTyped'
    BY DEF Inv, LoopsTyped, PositionsTyped, SessionsTyped, Late, loopVars, positionVars, sessionVars
<1> QED BY <1>3, <1>4, <1>5, <1>6, <1>7, GrownKeeps, GrownNeverAhead DEF Inv, Late

LEMMA RollbackInv == Inv /\ Rollback => Inv'
<1> SUFFICES ASSUME Inv, Rollback PROVE Inv'
    OBVIOUS
<1>1. EnclaveBounded'
    <2>0. PICK n \in 0..(enclave.relay - 1) :
              \E b \in 1..(ParaAt[n] + 1) :
                 enclave' = [relay |-> n + 1, para |-> ParaAt[n] + 1, block |-> b]
        BY DEF Rollback
    <2>1. PICK b \in 1..(ParaAt[n] + 1) :
              enclave' = [relay |-> n + 1, para |-> ParaAt[n] + 1, block |-> b]
        BY <2>0
    <2>2. n \in 0..parentHeight /\ parentHeight \in 0..MaxRelay /\ n \in 0..MaxRelay /\ paraHeight \in Nat
        BY WorkerSyncAssumption DEF Inv, EnclaveBounded
    <2>3. ParaAt[n] <= ParaAt[parentHeight] /\ ParaAt[n] \in Nat /\ ParaAt[parentHeight] \in Nat
        BY <2>2, WorkerSyncAssumption
    <2>4. ParaAt[parentHeight] <= paraHeight
        BY DEF Inv, EnclaveBounded
    <2>5. ParaAt[n] + 1 \in 1..(paraHeight + 1) /\ n + 1 \in 1..(parentHeight + 1)
        BY <2>2, <2>3, <2>4, WorkerSyncAssumption
    <2>6. enclave' \in [relay : Nat, para : Nat, block : Nat]
        BY <2>1, <2>2, <2>3, WorkerSyncAssumption
    <2> QED BY <2>1, <2>5, <2>6 DEF Inv, EnclaveBounded, Rollback, sourceVars
<1>2. NeverAhead' /\ LoopsTyped'
    <2>1. rollbacks \in Nat /\ rollbacks' = rollbacks + 1 /\ rollbacks < MaxRollbacks
        BY WorkerSyncAssumption DEF Inv, LoopsTyped, Rollback
    <2> QED BY SMTT(30), <2>1, WorkerSyncAssumption DEF NeverAhead, Inv, LoopsTyped, Rollback, loopVars
<1>3. LateBounded'
    BY LateKept DEF Rollback
<1>4. BlobsBounded'
    BY DEF Inv, BlobsBounded, Rollback, loopVars, Reach, Kind, sourceVars
<1>5. PositionsTyped' /\ SessionsTyped'
    BY DEF Inv, PositionsTyped, SessionsTyped, Rollback, positionVars, sessionVars
<1> QED BY <1>1, <1>2, <1>3, <1>4, <1>5 DEF Inv

LEMMA UpdateInfoInv == ASSUME Inv, NEW s \in Sessions, UpdateInfo(s) PROVE Inv'
<1>1. EnclaveBounded' /\ LateBounded'
    BY EnclaveKept, LateKept DEF UpdateInfo, enclaveVars
<1>2. /\ enclave.relay \in 0..(MaxRelay + 1) /\ enclave.para \in 0..(MaxPara + 1)
      /\ enclave.block \in 0..(MaxPara + 1)
    BY SMTT(30), WorkerSyncAssumption DEF Inv, EnclaveBounded
<1>3. PositionsTyped'
    BY <1>2 DEF Inv, PositionsTyped, UpdateInfo
<1>4. NeverAhead'
    <2>1. /\ enclave.relay <= enclave.relay /\ enclave.para <= enclave.para
          /\ enclave.block <= enclave.block
        BY <1>2, WorkerSyncAssumption
    <2>2. /\ headerSyncNumber' = [headerSyncNumber EXCEPT ![s] = enclave.relay]
          /\ paraHeaderSyncNumber' = [paraHeaderSyncNumber EXCEPT ![s] = enclave.para]
          /\ paraBlockSyncNumber' = [paraBlockSyncNumber EXCEPT ![s] = enclave.block]
          /\ enclave' = enclave /\ late' = late /\ rollbacks' = rollbacks
        BY DEF UpdateInfo, enclaveVars
    <2>3. ASSUME rollbacks = 0, NEW t \in Sessions
          PROVE  /\ headerSyncNumber'[t] <= enclave.relay /\ paraHeaderSyncNumber'[t] <= enclave.para
                 /\ paraBlockSyncNumber'[t] <= enclave.block
        BY <2>1, <2>2, <2>3 DEF Inv, NeverAhead, PositionsTyped
    <2> QED BY <2>2, <2>3 DEF Inv, NeverAhead
<1>5. LoopsTyped' /\ SessionsTyped' /\ BlobsBounded'
    BY DEF Inv, LoopsTyped, SessionsTyped, BlobsBounded, UpdateInfo, loopVars, sessionVars, enclaveVars,
           Reach, Kind, sourceVars
<1> QED BY <1>1, <1>3, <1>4, <1>5 DEF Inv

LEMMA StartSyncInv == ASSUME Inv, NEW s \in Sessions, StartSync(s) PROVE Inv'
<1>1. EnclaveBounded' /\ LateBounded'
    BY EnclaveKept, LateKept DEF StartSync, enclaveVars
<1>2. PositionsTyped'
    <2>1. paraHeaderSyncNumber[s] \in -1..(MaxPara + 1) /\ -1 \in -1..(MaxPara + 1)
        BY WorkerSyncAssumption DEF Inv, PositionsTyped
    <2> QED BY <2>1 DEF Inv, PositionsTyped, StartSync
<1>3. NeverAhead'
    BY DEF Inv, NeverAhead, StartSync, enclaveVars
<1>4. LoopsTyped' /\ SessionsTyped'
    BY DEF Inv, LoopsTyped, SessionsTyped, StartSync, loopVars, sessionVars, enclaveVars
<1>5. BlobsBounded'
    <2>1. to' = to /\ fn' = fn /\ parentHeight' = parentHeight /\ paraHeight' = paraHeight
        BY DEF StartSync, loopVars, sourceVars
    <2>2. ASSUME NEW l \in Loops
          PROVE  pc'[l] = pc[l] \/ (pc[l] = "off" /\ pc'[l] = "turn")
        BY DEF StartSync
    <2> QED BY <2>1, <2>2 DEF Inv, BlobsBounded, Reach, Kind
<1> QED BY <1>1, <1>2, <1>3, <1>4, <1>5 DEF Inv

LEMMA StopSyncInv == ASSUME Inv, NEW s \in Sessions, StopSync(s) PROVE Inv'
<1>1. EnclaveBounded' /\ LateBounded' /\ NeverAhead'
    BY EnclaveKept, LateKept, NeverAheadKept DEF StopSync, enclaveVars
<1>2. SessionsTyped'
    BY DEF Inv, SessionsTyped, StopSync
<1>3. LoopsTyped' /\ PositionsTyped' /\ BlobsBounded'
    BY DEF Inv, LoopsTyped, PositionsTyped, BlobsBounded, StopSync, loopVars, positionVars, enclaveVars,
           Reach, Kind, sourceVars
<1> QED BY <1>1, <1>2, <1>3 DEF Inv
-------------------------------------------------------------------------------
(* Steps of a loop                                                         *)

\* A function that is called leaves the loop at its first request or at the iterator.
LEMMA CallsTyped ==
    ASSUME Inv, NEW l \in Loops, NEW f, NEW block, Calls(l, f, block)
    PROVE  /\ pc' \in [Loops -> {"off", "turn", "fetch", "send", "error", "ended", "fatal"}]
           /\ pc'[l] \in {"fetch", "turn"}
           /\ \A k \in Loops \ {l} : pc'[k] = pc[k]
BY DEF Inv, LoopsTyped, Calls

LEMMA YieldsTyped ==
    ASSUME Inv, NEW l \in Loops, NEW f \in Kinds, NEW next \in {"top", "headers", "rest"},
           Yields(l, f, next)
    PROVE  /\ pc' \in [Loops -> {"off", "turn", "fetch", "send", "error", "ended", "fatal"}]
           /\ pc'[l] \in {"fetch", "turn"}
           /\ \A k \in Loops \ {l} : pc'[k] = pc[k] /\ fn'[k] = fn[k]
           /\ fn' \in [Loops -> Kinds]
           /\ point' \in [Loops -> {"top", "headers", "rest"}]
           /\ attempt' \in [Loops -> 0..(Retries + 1)]
<1>1. /\ pc' \in [Loops -> {"off", "turn", "fetch", "send", "error", "ended", "fatal"}]
      /\ pc'[l] \in {"fetch", "turn"}
      /\ \A k \in Loops \ {l} : pc'[k] = pc[k]
    BY CallsTyped DEF Yields
<1>2. fn' \in [Loops -> Kinds] /\ point' \in [Loops -> {"top", "headers", "rest"}]
    BY DEF Yields, Inv, LoopsTyped
<1>3. attempt' \in [Loops -> 0..(Retries + 1)]
    BY WorkerSyncAssumption DEF Yields, Inv, LoopsTyped
<1>4. \A k \in Loops \ {l} : fn'[k] = fn[k]
    BY DEF Yields, Inv, LoopsTyped
<1> QED BY <1>1, <1>2, <1>3, <1>4

LEMMA TurnInv == ASSUME Inv, NEW l \in Loops, Turn(l) PROVE Inv'
<1>1. /\ pc' \in [Loops -> {"off", "turn", "fetch", "send", "error", "ended", "fatal"}]
      /\ pc'[l] \in {"fetch", "turn"}
      /\ \A k \in Loops \ {l} : pc'[k] = pc[k] /\ fn'[k] = fn[k]
      /\ fn' \in [Loops -> Kinds]
      /\ point' \in [Loops -> {"top", "headers", "rest"}]
      /\ attempt' \in [Loops -> 0..(Retries + 1)]
    <2> DEFINE Goal == /\ pc' \in [Loops -> {"off", "turn", "fetch", "send", "error", "ended", "fatal"}]
                       /\ pc'[l] \in {"fetch", "turn"}
                       /\ \A k \in Loops \ {l} : pc'[k] = pc[k] /\ fn'[k] = fn[k]
                       /\ fn' \in [Loops -> Kinds]
                       /\ point' \in [Loops -> {"top", "headers", "rest"}]
                       /\ attempt' \in [Loops -> 0..(Retries + 1)]
    <2> SUFFICES Goal
        OBVIOUS
    <2>1. ASSUME NEW f \in Kinds, NEW next \in {"top", "headers", "rest"}, Yields(l, f, next)
          PROVE  Goal
        BY <2>1, YieldsTyped
    <2>2. ASSUME YieldsHeaders(l)
          PROVE  Goal
        <3> HIDE DEF Goal
        <3> QED BY <2>1, <2>2 DEF YieldsHeaders, Kinds
    <2>3. CASE UNCHANGED <<pc, fn, attempt>> /\ point' = [point EXCEPT ![l] = "top"]
        BY <2>3 DEF Inv, LoopsTyped, Turn
    <2> HIDE DEF Goal
    <2>4. CASE SyncIterator(l)
        <3>1. \/ Yields(l, "blocks", "headers")
              \/ YieldsHeaders(l)
              \/ Yields(l, "blocks", "top")
              \/ UNCHANGED <<pc, fn, attempt>> /\ point' = [point EXCEPT ![l] = "top"]
            BY <2>4 DEF SyncIterator
        <3>2. "blocks" \in Kinds
            BY DEF Kinds
        <3> QED BY <2>1, <2>2, <2>3, <3>1, <3>2
    <2>5. CASE HeaderSyncIterator(l)
        BY <2>1, <2>5 DEF HeaderSyncIterator, Kinds
    <2>6. CASE ParaBlockSyncIterator(l)
        BY <2>1, <2>6 DEF ParaBlockSyncIterator, Kinds
    <2> QED BY <2>4, <2>5, <2>6 DEF Turn
<1>2. BlobsBounded'
    <2>1. to' = to /\ to[l] = 0 /\ UNCHANGED sourceVars
        BY DEF Turn, Inv, BlobsBounded
    <2> QED BY <1>1, <2>1, BlobsKept DEF Inv, BlobsBounded
<1>3. LoopsTyped'
    BY <1>1 DEF Inv, LoopsTyped, Turn, enclaveVars
<1>4. EnclaveBounded' /\ LateBounded' /\ NeverAhead'
    BY EnclaveKept, LateKept, NeverAheadKept DEF Turn, enclaveVars
<1>5. PositionsTyped' /\ SessionsTyped'
    BY DEF Inv, PositionsTyped, SessionsTyped, Turn, positionVars, sessionVars
<1> QED BY <1>2, <1>3, <1>4, <1>5 DEF Inv

LEMMA EndsInv == ASSUME Inv, NEW l \in Loops, Ends(l) PROVE Inv'
<1>1. EnclaveBounded' /\ LateBounded' /\ NeverAhead'
    BY EnclaveKept, LateKept, NeverAheadKept DEF Ends, enclaveVars
<1>2. LoopsTyped' /\ PositionsTyped' /\ SessionsTyped'
    BY DEF Inv, LoopsTyped, PositionsTyped, SessionsTyped, Ends, enclaveVars, loopVars, positionVars, sessionVars
<1>3. BlobsBounded'
    <2>1. to' = to /\ to[l] = 0 /\ fn' = fn /\ pc'[l] # "send" /\ UNCHANGED sourceVars
        BY DEF Ends, Inv, BlobsBounded, LoopsTyped, loopVars
    <2> QED BY <2>1, BlobsKept DEF Inv, BlobsBounded, LoopsTyped, Ends
<1> QED BY <1>1, <1>2, <1>3 DEF Inv

LEMMA FetchInv == ASSUME Inv, NEW l \in Loops, Fetch(l) PROVE Inv'
<1>1. EnclaveBounded' /\ LateBounded' /\ NeverAhead'
    BY EnclaveKept, LateKept, NeverAheadKept DEF Fetch, enclaveVars
<1>2. LoopsTyped' /\ PositionsTyped' /\ SessionsTyped'
    BY DEF Inv, LoopsTyped, PositionsTyped, SessionsTyped, Fetch, enclaveVars, positionVars, sessionVars
<1>3. BlobsBounded'
    <2>1. PICK n \in Blobs(l) : to' = [to EXCEPT ![l] = n]
        BY DEF Fetch
    <2>2. n \in Nat /\ n <= Reach(Kind(l))
        <3>1. l[1] \in Sessions
            OBVIOUS
        <3>2. headerSyncNumber[l[1]] \in Nat /\ paraBlockSyncNumber[l[1]] \in Nat
            <4>1. /\ headerSyncNumber[l[1]] \in 0..(MaxRelay + 1)
                  /\ paraBlockSyncNumber[l[1]] \in 0..(MaxPara + 1)
                BY <3>1 DEF Inv, PositionsTyped
            <4> QED BY <4>1, WorkerSyncAssumption
        <3>3. parentHeight \in Nat /\ paraHeight \in Nat
            BY WorkerSyncAssumption DEF Inv, EnclaveBounded
        <3>4. CASE fn[l] = "blocks"
            <4>1. n \in paraBlockSyncNumber[l[1]]..paraHeight
                BY <3>4 DEF Blobs
            <4> QED BY <3>2, <3>3, <3>4, <4>1 DEF Reach, Kind
        <3>5. CASE fn[l] # "blocks"
            <4>1. n \in headerSyncNumber[l[1]]..parentHeight
                BY <3>5 DEF Blobs
            <4> QED BY <3>2, <3>3, <3>5, <4>1 DEF Reach, Kind
        <3> QED BY <3>4, <3>5
    <2>3. /\ to' \in [Loops -> Nat] /\ to'[l] = n
          /\ \A k \in Loops \ {l} : to'[k] = to[k] /\ pc'[k] = pc[k]
          /\ fn' = fn /\ parentHeight' = parentHeight /\ paraHeight' = paraHeight
        BY <2>1, <2>2 DEF Fetch, Inv, BlobsBounded, LoopsTyped, sourceVars
    <2>4. pc'[l] = "send"
        BY DEF Fetch, Inv, LoopsTyped
    <2> QED BY <2>2, <2>3, <2>4 DEF Inv, BlobsBounded, Reach, Kind
<1> QED BY <1>1, <1>2, <1>3 DEF Inv

\* What a step that loses its blob and ends at a place where none is sent does to a loop.
LEMMA BlobGone ==
    ASSUME Inv, NEW l \in Loops, BlobIsGone(l), UNCHANGED sourceVars,
           pc' \in [Loops -> {"off", "turn", "fetch", "send", "error", "ended", "fatal"}],
           pc'[l] # "send",
           \A k \in Loops \ {l} : pc'[k] = pc[k]
    PROVE  BlobsBounded'
<1>1. to' \in [Loops -> Nat] /\ to'[l] = 0 /\ \A k \in Loops \ {l} : to'[k] = to[k]
    BY DEF Inv, BlobsBounded, BlobIsGone
<1> QED BY <1>1, BlobsKept DEF BlobIsGone

LEMMA HeadersSynchedInv == ASSUME Inv, NEW l \in Loops, HeadersSynched(l) PROVE Inv'
<1> DEFINE e == Taken(Request(l))
<1>0. l[1] \in Sessions /\ UNCHANGED sourceVars /\ enclave' = e
    BY DEF HeadersSynched
<1>1. Grown(e)
    BY RequestTyped, TakenBounded DEF Inv, HeadersSynched
<1>2. EnclaveBounded' /\ LateBounded'
    BY <1>0, <1>1, GrownKeeps, LateKept DEF HeadersSynched
<1>3. /\ e.relay \in 0..(MaxRelay + 1) /\ afterAnswer(e.relay - 1) = e.relay
      /\ e.para \in 0..(MaxPara + 1) /\ afterAnswer(e.para - 1) = e.para
      /\ e.para - 1 \in -1..(MaxPara + 1)
      /\ e.block \in Nat
    <2>1. /\ e.relay \in 1..(parentHeight + 1) /\ parentHeight \in 0..MaxRelay
          /\ e.para \in 1..(paraHeight + 1) /\ paraHeight \in 0..MaxPara
          /\ e.block \in 1..e.para
        BY <1>1 DEF Grown, Inv, EnclaveBounded
    <2> HIDE DEF e
    <2>2. MaxRelay \in Nat /\ MaxPara \in Nat
        BY WorkerSyncAssumption
    <2> QED BY <2>1, <2>2 DEF afterAnswer
<1>4. /\ headerSyncNumber' = [headerSyncNumber EXCEPT ![l[1]] = e.relay]
      /\ paraHeaderSyncNumber' =
            [paraHeaderSyncNumber EXCEPT ![l[1]] = IF legacy THEN paraHeaderSyncNumber[l[1]] ELSE e.para]
      /\ paraHeaderSynchedTo' = [paraHeaderSynchedTo EXCEPT ![l[1]] = e.para - 1]
      /\ paraBlockSyncNumber' = paraBlockSyncNumber
      /\ late' = late /\ rollbacks' = rollbacks
    BY <1>3 DEF HeadersSynched
<1>5. PositionsTyped'
    <2> HIDE DEF e
    <2> QED BY <1>0, <1>3, <1>4 DEF Inv, PositionsTyped
<1>6. NeverAhead'
    <2>1. /\ enclave.relay \in Nat /\ enclave.para \in Nat /\ enclave.block \in Nat
          /\ e.relay >= enclave.relay /\ e.para >= enclave.para /\ e.block >= enclave.block
          /\ e.relay \in Nat /\ e.para \in Nat /\ e.block \in Nat
        BY <1>1, <1>3 DEF Grown, Inv, EnclaveBounded
    <2> HIDE DEF e
    <2> SUFFICES ASSUME rollbacks = 0 PROVE NeverAhead'
        BY <1>4 DEF NeverAhead
    <2>2. ASSUME NEW s \in Sessions
          PROVE  /\ headerSyncNumber'[s] <= e.relay /\ paraHeaderSyncNumber'[s] <= e.para
                 /\ paraBlockSyncNumber'[s] <= e.block
        <3>1. /\ headerSyncNumber[s] <= enclave.relay /\ paraHeaderSyncNumber[s] <= enclave.para
              /\ paraBlockSyncNumber[s] <= enclave.block
            BY DEF Inv, NeverAhead
        <3>2. /\ headerSyncNumber[s] \in Int /\ paraHeaderSyncNumber[s] \in Int
              /\ paraBlockSyncNumber[s] \in Int
            BY DEF Inv, PositionsTyped
        <3>3. /\ headerSyncNumber'[s] \in {headerSyncNumber[s], e.relay}
              /\ paraHeaderSyncNumber'[s] \in {paraHeaderSyncNumber[s], e.para}
              /\ paraBlockSyncNumber'[s] = paraBlockSyncNumber[s]
            BY <1>4 DEF Inv, PositionsTyped
        <3> QED BY <2>1, <3>1, <3>2, <3>3
    <2>3. ASSUME NEW r \in late
          PROVE  r.from <= IF r.kind = "headers" THEN e.relay ELSE e.block
        <3>1. r.from <= IF r.kind = "headers" THEN enclave.relay ELSE enclave.block
            BY DEF Inv, NeverAhead
        <3>2. r.from \in Int
            BY WorkerSyncAssumption DEF Inv, LateBounded, Requests, Numbers, Larger
        <3> QED BY <2>1, <3>1, <3>2
    <2> QED BY <1>0, <1>4, <2>2, <2>3 DEF NeverAhead
<1>7. /\ pc' \in [Loops -> {"off", "turn", "fetch", "send", "error", "ended", "fatal"}]
      /\ pc'[l] # "send"
      /\ \A k \in Loops \ {l} : pc'[k] = pc[k]
    <2>1. CASE pc' = [pc EXCEPT ![l] = "turn"]
        BY <2>1 DEF Inv, LoopsTyped
    <2>2. CASE Calls(l, "batch", paraBlockSyncNumber[l[1]])
        BY <2>2, CallsTyped
    <2> QED BY <2>1, <2>2 DEF HeadersSynched
<1>8. BlobsBounded'
    BY <1>0, <1>7, BlobGone DEF HeadersSynched
<1>9. LoopsTyped' /\ SessionsTyped'
    BY <1>7 DEF Inv, LoopsTyped, SessionsTyped, HeadersSynched, BlobIsGone, sessionVars
<1> QED BY <1>2, <1>5, <1>6, <1>8, <1>9 DEF Inv

LEMMA BlocksDispatchedInv == ASSUME Inv, NEW l \in Loops, BlocksDispatched(l) PROVE Inv'
<1> DEFINE e == Taken(Request(l))
<1>0. l[1] \in Sessions /\ UNCHANGED sourceVars /\ enclave' = e
    BY DEF BlocksDispatched
<1>1. Grown(e)
    BY RequestTyped, TakenBounded DEF Inv, BlocksDispatched
<1>2. EnclaveBounded' /\ LateBounded'
    BY <1>0, <1>1, GrownKeeps, LateKept DEF BlocksDispatched
<1>3. /\ e.relay \in Nat /\ e.para \in Nat
      /\ e.block \in 0..(MaxPara + 1) /\ afterAnswer(e.block - 1) = e.block
    <2>1. e.block \in 1..e.para /\ e.para \in 1..(paraHeight + 1) /\ paraHeight \in 0..MaxPara /\ e.relay \in Nat
        BY <1>1 DEF Grown, Inv, EnclaveBounded
    <2> HIDE DEF e
    <2>2. MaxRelay \in Nat /\ MaxPara \in Nat
        BY WorkerSyncAssumption
    <2> QED BY <2>1, <2>2 DEF afterAnswer
<1>4. /\ paraBlockSyncNumber' = [paraBlockSyncNumber EXCEPT ![l[1]] = e.block]
      /\ UNCHANGED <<headerSyncNumber, paraHeaderSyncNumber, paraHeaderSynchedTo>>
      /\ late' = late /\ rollbacks' = rollbacks
    BY <1>3 DEF BlocksDispatched
<1>5. PositionsTyped'
    <2> HIDE DEF e
    <2> QED BY <1>0, <1>3, <1>4 DEF Inv, PositionsTyped
<1>6. NeverAhead'
    <2>1. /\ enclave.relay \in Nat /\ enclave.para \in Nat /\ enclave.block \in Nat
          /\ e.relay >= enclave.relay /\ e.para >= enclave.para /\ e.block >= enclave.block
          /\ e.relay \in Nat /\ e.para \in Nat /\ e.block \in Nat
        BY <1>1, <1>3 DEF Grown, Inv, EnclaveBounded
    <2> HIDE DEF e
    <2> SUFFICES ASSUME rollbacks = 0 PROVE NeverAhead'
        BY <1>4 DEF NeverAhead
    <2>2. ASSUME NEW s \in Sessions
          PROVE  /\ headerSyncNumber'[s] <= e.relay /\ paraHeaderSyncNumber'[s] <= e.para
                 /\ paraBlockSyncNumber'[s] <= e.block
        <3>1. /\ headerSyncNumber[s] <= enclave.relay /\ paraHeaderSyncNumber[s] <= enclave.para
              /\ paraBlockSyncNumber[s] <= enclave.block
            BY DEF Inv, NeverAhead
        <3>2. /\ headerSyncNumber[s] \in Int /\ paraHeaderSyncNumber[s] \in Int
              /\ paraBlockSyncNumber[s] \in Int
            BY DEF Inv, PositionsTyped
        <3>3. /\ headerSyncNumber'[s] = headerSyncNumber[s]
              /\ paraHeaderSyncNumber'[s] = paraHeaderSyncNumber[s]
              /\ paraBlockSyncNumber'[s] \in {paraBlockSyncNumber[s], e.block}
            BY <1>4 DEF Inv, PositionsTyped
        <3> QED BY <2>1, <3>1, <3>2, <3>3
    <2>3. ASSUME NEW r \in late
          PROVE  r.from <= IF r.kind = "headers" THEN e.relay ELSE e.block
        <3>1. r.from <= IF r.kind = "headers" THEN enclave.relay ELSE enclave.block
            BY DEF Inv, NeverAhead
        <3>2. r.from \in Int
            BY WorkerSyncAssumption DEF Inv, LateBounded, Requests, Numbers, Larger
        <3> QED BY <2>1, <3>1, <3>2
    <2> QED BY <1>0, <1>4, <2>2, <2>3 DEF NeverAhead
<1>7. /\ pc' \in [Loops -> {"off", "turn", "fetch", "send", "error", "ended", "fatal"}]
      /\ pc'[l] # "send"
      /\ \A k \in Loops \ {l} : pc'[k] = pc[k]
    <2>1. CASE legacy
        BY <2>1 DEF BlocksDispatched, Inv, LoopsTyped
    <2>2. CASE ~legacy
        BY <2>2, CallsTyped DEF BlocksDispatched
    <2> QED BY <2>1, <2>2
<1>8. BlobsBounded'
    BY <1>0, <1>7, BlobGone DEF BlocksDispatched
<1>9. LoopsTyped'
    BY <1>7 DEF Inv, LoopsTyped, BlocksDispatched, BlobIsGone
<1>10. SessionsTyped'
    BY DEF Inv, SessionsTyped, BlocksDispatched
<1> QED BY <1>2, <1>5, <1>6, <1>8, <1>9, <1>10 DEF Inv

LEMMA RequestRefusedInv == ASSUME Inv, NEW l \in Loops, RequestRefused(l) PROVE Inv'
<1>1. Grown(enclave')
    BY RequestTyped, RefusedBounded DEF Inv, RequestRefused
<1>2. EnclaveBounded' /\ LateBounded' /\ NeverAhead'
    BY <1>1, GrownKeeps, LateKept, GrownNeverAhead DEF RequestRefused
<1>3. /\ pc' \in [Loops -> {"off", "turn", "fetch", "send", "error", "ended", "fatal"}]
      /\ pc'[l] # "send"
      /\ \A k \in Loops \ {l} : pc'[k] = pc[k]
    BY DEF RequestRefused, Inv, LoopsTyped
<1>4. BlobsBounded'
    BY <1>3, BlobGone DEF RequestRefused
<1>5. LoopsTyped' /\ PositionsTyped' /\ SessionsTyped'
    BY <1>3 DEF Inv, LoopsTyped, PositionsTyped, SessionsTyped, RequestRefused, BlobIsGone,
                positionVars, sessionVars
<1> QED BY <1>2, <1>4, <1>5 DEF Inv

LEMMA TimedOutInv == ASSUME Inv, NEW l \in Loops, TimedOut(l) PROVE Inv'
<1>1. EnclaveBounded'
    BY EnclaveKept DEF TimedOut
<1>2. LateBounded' /\ NeverAhead'
    <2>1. CASE pc[l] = "send"
        <3>1. late' = late \cup {Request(l)} /\ UNCHANGED <<sourceVars, enclave, rollbacks, positionVars>>
            BY <2>1 DEF TimedOut
        <3>2. LateBounded'
            BY <2>1, <3>1, RequestTyped DEF Inv, LateBounded, Reach, sourceVars, Requests, Numbers
        <3>3. NeverAhead'
            BY <2>1, <3>1, RequestTyped DEF Inv, NeverAhead, positionVars
        <3> QED BY <3>2, <3>3
    <2>2. CASE pc[l] # "send"
        BY <2>2, LateKept, NeverAheadKept DEF TimedOut, enclaveVars
    <2> QED BY <2>1, <2>2
<1>3. /\ pc' \in [Loops -> {"off", "turn", "fetch", "send", "error", "ended", "fatal"}]
      /\ pc'[l] # "send"
      /\ \A k \in Loops \ {l} : pc'[k] = pc[k]
    BY DEF TimedOut, Inv, LoopsTyped
<1>4. BlobsBounded'
    BY <1>3, BlobGone DEF TimedOut
<1>5. LoopsTyped'
    <2>1. losses' \in 0..MaxLosses
        BY WorkerSyncAssumption DEF Inv, LoopsTyped, TimedOut
    <2> QED BY <1>3, <2>1 DEF Inv, LoopsTyped, TimedOut, BlobIsGone
<1>6. PositionsTyped' /\ SessionsTyped'
    BY DEF Inv, PositionsTyped, SessionsTyped, TimedOut, positionVars, sessionVars
<1> QED BY <1>1, <1>2, <1>4, <1>5, <1>6 DEF Inv

\* A repeated attempt goes on at positions that are no further than the enclave is.
LEMMA RepeatInv ==
    ASSUME Inv, NEW l \in Loops, NEW header, NEW block, Repeat(l, header, block),
           pc[l] = "error", attempt[l] <= Retries, losses' \in 0..MaxLosses,
           header \in {headerSyncNumber[l[1]], enclave.relay},
           block \in {paraBlockSyncNumber[l[1]], enclave.block}
    PROVE  Inv'
<1>0. l[1] \in Sessions
    OBVIOUS
<1>1. EnclaveBounded' /\ LateBounded'
    BY EnclaveKept, LateKept DEF Repeat, enclaveVars
<1>2. /\ enclave.relay \in 0..(MaxRelay + 1) /\ enclave.para \in 0..(MaxPara + 1)
      /\ enclave.block \in 0..(MaxPara + 1)
    BY SMTT(30), WorkerSyncAssumption DEF Inv, EnclaveBounded
<1>3. header \in 0..(MaxRelay + 1) /\ block \in 0..(MaxPara + 1)
    BY <1>0, <1>2 DEF Inv, PositionsTyped
<1>4. /\ headerSyncNumber' = [headerSyncNumber EXCEPT ![l[1]] = header]
      /\ paraBlockSyncNumber' = [paraBlockSyncNumber EXCEPT ![l[1]] = block]
      /\ UNCHANGED <<paraHeaderSyncNumber, paraHeaderSynchedTo, enclave, late, rollbacks>>
    BY DEF Repeat, enclaveVars
<1>5. PositionsTyped'
    BY <1>0, <1>3, <1>4 DEF Inv, PositionsTyped
<1>6. NeverAhead'
    <2> SUFFICES ASSUME rollbacks = 0 PROVE NeverAhead'
        BY <1>4 DEF NeverAhead
    <2>1. header <= enclave.relay /\ block <= enclave.block
        <3>1. headerSyncNumber[l[1]] <= enclave.relay /\ paraBlockSyncNumber[l[1]] <= enclave.block
            BY <1>0 DEF Inv, NeverAhead
        <3>2. enclave.relay <= enclave.relay /\ enclave.block <= enclave.block
            BY <1>2, WorkerSyncAssumption
        <3> QED BY <3>1, <3>2
    <2>2. ASSUME NEW s \in Sessions
          PROVE  /\ headerSyncNumber'[s] <= enclave.relay /\ paraHeaderSyncNumber'[s] <= enclave.para
                 /\ paraBlockSyncNumber'[s] <= enclave.block
        BY <1>4, <2>1 DEF Inv, NeverAhead, PositionsTyped
    <2> QED BY <1>4, <2>2 DEF Inv, NeverAhead
<1>7. /\ pc' \in [Loops -> {"off", "turn", "fetch", "send", "error", "ended", "fatal"}]
      /\ pc'[l] \in {"fetch", "turn"}
      /\ \A k \in Loops \ {l} : pc'[k] = pc[k]
    BY CallsTyped DEF Repeat
<1>8. BlobsBounded'
    <2>1. to' = to /\ to[l] = 0 /\ fn' = fn /\ UNCHANGED sourceVars
        BY DEF Repeat, Inv, BlobsBounded
    <2> QED BY <1>7, <2>1, BlobsKept DEF Inv, BlobsBounded
<1>9. LoopsTyped'
    <2>1. attempt[l] + 1 \in 0..(Retries + 1)
        BY WorkerSyncAssumption DEF Inv, LoopsTyped
    <2>2. attempt' \in [Loops -> 0..(Retries + 1)]
        BY <2>1 DEF Inv, LoopsTyped, Repeat
    <2> QED BY <1>7, <2>2 DEF Inv, LoopsTyped, Repeat, enclaveVars
<1>10. SessionsTyped'
    BY DEF Inv, SessionsTyped, Repeat, sessionVars
<1> QED BY <1>1, <1>5, <1>6, <1>8, <1>9, <1>10 DEF Inv

LEMMA ErrorInv ==
    ASSUME Inv, NEW l \in Loops, Renew(l) \/ NotRenewed(l)
    PROVE  Inv'
<1>1. losses' \in 0..MaxLosses
    BY WorkerSyncAssumption DEF Inv, LoopsTyped, Renew, NotRenewed
<1>2. CASE Renew(l)
    BY <1>1, <1>2, RepeatInv DEF Renew, mayRetry
<1>3. CASE NotRenewed(l)
    BY <1>1, <1>3, RepeatInv DEF NotRenewed, mayRetry
<1> QED BY <1>2, <1>3

LEMMA ThrowFatalInv == ASSUME Inv, NEW l \in Loops, ThrowFatal(l) PROVE Inv'
<1>1. EnclaveBounded' /\ LateBounded' /\ NeverAhead'
    BY EnclaveKept, LateKept, NeverAheadKept DEF ThrowFatal, enclaveVars
<1>2. LoopsTyped' /\ PositionsTyped'
    BY DEF Inv, LoopsTyped, PositionsTyped, ThrowFatal, enclaveVars, loopVars, positionVars
<1>3. SessionsTyped'
    BY DEF Inv, SessionsTyped, ThrowFatal, sessionVars
<1>4. BlobsBounded'
    <2>1. to' = to /\ to[l] = 0 /\ fn' = fn /\ pc'[l] # "send" /\ UNCHANGED sourceVars
        BY DEF ThrowFatal, Inv, BlobsBounded, LoopsTyped, loopVars
    <2> QED BY <2>1, BlobsKept DEF Inv, BlobsBounded, LoopsTyped, ThrowFatal
<1> QED BY <1>1, <1>2, <1>3, <1>4 DEF Inv
-------------------------------------------------------------------------------
(* The theorems                                                            *)

LEMMA StutterInv == Inv /\ UNCHANGED vars => Inv'
<1> SUFFICES ASSUME Inv, UNCHANGED vars PROVE Inv'
    OBVIOUS
<1>1. EnclaveBounded' /\ LateBounded' /\ NeverAhead'
    BY EnclaveKept, LateKept, NeverAheadKept DEF vars, enclaveVars
<1>2. LoopsTyped' /\ PositionsTyped' /\ SessionsTyped' /\ BlobsBounded'
    BY DEF Inv, LoopsTyped, PositionsTyped, SessionsTyped, BlobsBounded, vars, enclaveVars, loopVars,
           positionVars, sessionVars, Reach, Kind, sourceVars
<1> QED BY <1>1, <1>2 DEF Inv

\* Every step of any loop, session or enclave keeps the invariant.
THEOREM Inductive == Spec => []Inv
<1>1. Inv /\ [Next]_vars => Inv'
    <2> SUFFICES ASSUME Inv, [Next]_vars PROVE Inv'
        OBVIOUS
    <2>1. CASE Publish \/ FetchPara \/ Rollback
        BY <2>1, PublishInv, FetchParaInv, RollbackInv
    <2>2. CASE \E r \in late : Late(r)
        BY <2>2, LateInv
    <2>3. ASSUME NEW s \in Sessions, UpdateInfo(s) \/ StartSync(s) \/ StopSync(s)
          PROVE  Inv'
        BY <2>3, UpdateInfoInv, StartSyncInv, StopSyncInv
    <2>4. ASSUME NEW s \in Sessions, NEW l \in LoopsOf(s), Works(l) \/ TimedOut(l) \/ NotRenewed(l)
          PROVE  Inv'
        <3>1. l \in Loops
            BY <2>4
        <3> QED BY <2>4, <3>1, TurnInv, EndsInv, FetchInv, HeadersSynchedInv, BlocksDispatchedInv,
                   RequestRefusedInv, TimedOutInv, ErrorInv, ThrowFatalInv DEF Works
    <2>5. CASE UNCHANGED vars
        BY <2>5, StutterInv
    <2> QED BY <2>1, <2>2, <2>3, <2>4, <2>5 DEF Next
<1> QED BY <1>1, InitInv, PTL DEF Spec

\* The type invariant of the sessions, for any number of them.
THEOREM TypeCorrect == Spec => []TypeOK
<1>1. Inv => TypeOK
    <2> SUFFICES ASSUME Inv PROVE TypeOK
        OBVIOUS
    <2>1. MaxRelay \in Nat /\ MaxPara \in Nat
        BY WorkerSyncAssumption
    <2>2. enclave \in [relay : 1..(MaxRelay + 1), para : 1..(MaxPara + 1), block : 1..(MaxPara + 1)]
        <3>1. /\ enclave.relay \in 1..(MaxRelay + 1) /\ enclave.para \in 1..(MaxPara + 1)
              /\ enclave.block \in 1..(MaxPara + 1)
            BY <2>1 DEF Inv, EnclaveBounded
        <3> QED BY <3>1 DEF Inv, EnclaveBounded
    <2>3. 0..(MaxRelay + 1) \subseteq Numbers /\ 0..(MaxPara + 1) \subseteq Numbers
        BY <2>1 DEF Numbers, Larger
    <2>4. to \in [Loops -> Numbers]
        <3> SUFFICES ASSUME NEW l \in Loops PROVE to[l] \in Numbers
            BY DEF Inv, BlobsBounded
        <3>1. to[l] \in Nat /\ (to[l] = 0 \/ to[l] <= Reach(Kind(l)))
            BY DEF Inv, BlobsBounded
        <3>2. Reach(Kind(l)) \in {parentHeight, paraHeight}
            BY DEF Reach
        <3>3. parentHeight \in 0..MaxRelay /\ paraHeight \in 0..MaxPara
            BY DEF Inv, EnclaveBounded
        <3> QED BY <2>1, <3>1, <3>2, <3>3 DEF Numbers, Larger
    <2>5. {headerSyncNumber, paraHeaderSyncNumber, paraBlockSyncNumber} \subseteq [Sessions -> Numbers]
        BY <2>3 DEF Inv, PositionsTyped
    <2>6. late \subseteq Requests
        BY DEF Inv, LateBounded
    <2>7. parentHeight \in 0..MaxRelay /\ paraHeight \in 0..MaxPara /\ legacy \in BOOLEAN
        BY DEF Inv, EnclaveBounded
    <2> QED BY <2>2, <2>4, <2>5, <2>6, <2>7
            DEF TypeOK, Inv, LoopsTyped, PositionsTyped, SessionsTyped, Kinds
<1> QED BY <1>1, Inductive, PTL

\* Whatever number of sessions meets at the enclave, and however many of their requests are
\* lost, late or repeated: none of them is ahead of an enclave that does not go back.
THEOREM NoSessionAhead == Spec => []NeverAhead
<1>1. Inv => NeverAhead
    BY DEF Inv
<1> QED BY <1>1, Inductive, PTL

\* A call that is made while the session is told to stop begins nothing.
LEMMA CallsQuiet ==
    ASSUME Inv, ~legacy, NEW l \in Loops, NEW f, NEW block, Calls(l, f, block),
           NEW k \in Loops, shouldStop[k[1]], pc'[k] = "fetch"
    PROVE  pc[k] = "fetch"
BY DEF Inv, LoopsTyped, Calls, Begins

\* A single loop that is told to stop begins nothing any more, wherever it was.
THEOREM StoppedLoopsAreQuiet == Spec => StoppedIsQuiet
<1>1. Inv /\ [Next]_vars =>
          [\A l \in Loops : ~legacy /\ shouldStop[l[1]] /\ pc'[l] = "fetch" => pc[l] = "fetch"]_pc
    <2> SUFFICES ASSUME Inv, [Next]_vars, ~legacy,
                        NEW k \in Loops, shouldStop[k[1]], pc'[k] = "fetch"
                 PROVE  pc[k] = "fetch"
        OBVIOUS
    <2>1. CASE UNCHANGED pc
        BY <2>1
    <2>2. ASSUME NEW s \in Sessions, UpdateInfo(s) \/ StartSync(s) \/ StopSync(s)
          PROVE  pc[k] = "fetch"
        BY <2>2 DEF UpdateInfo, StartSync, StopSync
    <2>3. ASSUME NEW l \in Loops, Works(l) \/ TimedOut(l) \/ NotRenewed(l)
          PROVE  pc[k] = "fetch"
        <3>1. CASE \E f, block : Calls(l, f, block)
            BY <3>1, CallsQuiet
        <3>2. CASE \E w \in {"turn", "ended", "send", "error", "fatal"} : pc' = [pc EXCEPT ![l] = w]
            BY <3>2 DEF Inv, LoopsTyped
        <3>3. CASE Turn(l)
            <4>1. ASSUME NEW f, NEW next, Yields(l, f, next) PROVE pc[k] = "fetch"
                BY <4>1, <3>1 DEF Yields
            <4>2. ASSUME YieldsHeaders(l) PROVE pc[k] = "fetch"
                BY <4>1, <4>2 DEF YieldsHeaders
            <4>3. CASE SyncIterator(l)
                BY <2>1, <4>1, <4>2, <4>3 DEF SyncIterator
            <4>4. CASE HeaderSyncIterator(l) \/ ParaBlockSyncIterator(l)
                BY <4>1, <4>4 DEF HeaderSyncIterator, ParaBlockSyncIterator
            <4> QED BY <3>3, <4>3, <4>4 DEF Turn
        <3>4. CASE Ends(l) \/ Fetch(l) \/ RequestRefused(l) \/ TimedOut(l) \/ ThrowFatal(l)
            BY <3>2, <3>4 DEF Ends, Fetch, RequestRefused, TimedOut, ThrowFatal
        <3>5. CASE HeadersSynched(l) \/ BlocksDispatched(l)
            BY <3>1, <3>2, <3>5 DEF HeadersSynched, BlocksDispatched
        <3>6. CASE Renew(l) \/ NotRenewed(l)
            BY <3>1, <3>6 DEF Renew, NotRenewed, Repeat
        <3> QED BY <2>3, <3>3, <3>4, <3>5, <3>6 DEF Works
    <2>4. CASE Next
        <3>1. CASE Publish \/ FetchPara \/ Rollback \/ \E r \in late : Late(r)
            BY <2>1, <3>1 DEF Publish, FetchPara, Rollback, Late
        <3>2. CASE \E s \in Sessions : \/ UpdateInfo(s) \/ StartSync(s) \/ StopSync(s)
                                       \/ \E l \in LoopsOf(s) : Works(l) \/ TimedOut(l) \/ NotRenewed(l)
            <4>1. ASSUME NEW s \in Sessions, NEW l \in LoopsOf(s) PROVE l \in Loops
                BY <4>1
            <4> QED BY <2>2, <2>3, <3>2, <4>1
        <3> QED BY <2>4, <3>1, <3>2 DEF Next
    <2> QED BY <2>1, <2>4 DEF vars
<1> QED BY <1>1, Inductive, PTL DEF Spec, StoppedIsQuiet
-------------------------------------------------------------------------------
(* What an attempt costs                                                   *)

Single(s) == <<s, "single">>

\* The attempts that failed since the loop was asked for something.
Failed(l) == IF pc[l] = "error" THEN attempt[l] + 1
             ELSE IF pc[l] \in {"fetch", "send"} THEN attempt[l] ELSE 0

Count(fact) == IF fact THEN 1 ELSE 0

\* The positions that are behind the enclave, each good for one more failure; after an
\* error they are renewed.
Behind(l) ==
    IF pc[l] = "error" THEN 0
    ELSE Count(headerSyncNumber[l[1]] < enclave.relay) + Count(paraBlockSyncNumber[l[1]] < enclave.block)

\* The session takes the next para header for one the enclave has, and may ask for its block.
Belief(s) == Count(paraHeaderSynchedTo[s] >= enclave.para /\ enclave.block < enclave.para)

\* Failures, past and to come, are paid for by losses, two by each.
Paid(s) ==
    LET l == Single(s) IN
    /\ pc[l] \in {"turn", "fetch", "send", "error"} =>
          Failed(l) + Behind(l) + Belief(s) + Cardinality(late) <= 2 * losses + 1
    /\ pc[l] = "fatal" => Retries + 2 <= 2 * losses + 1

\* Blocks are asked for only behind a header, and beyond the first one only up to where the
\* session believes the headers end, which is one too far at most.
AsksForHeld(s) ==
    LET l == Single(s) IN
    /\ paraHeaderSynchedTo[s] <= enclave.para
    /\ pc[l] \in {"fetch", "send"} /\ fn[l] = "blocks" =>
          /\ paraHeaderSyncNumber[s] > paraBlockSyncNumber[s]
          /\ pc[l] = "send" => to[l] = paraBlockSyncNumber[s] \/ to[l] <= paraHeaderSynchedTo[s]

\* Before the first session starts nothing is under way.
Fresh ==
    rollbacks = 0 /\ (\A l \in Loops : pc[l] = "off") =>
        /\ late = {}
        /\ \A s \in Sessions : headerSyncNumber[s] # 0 =>
              /\ headerSyncNumber[s] = enclave.relay
              /\ paraHeaderSyncNumber[s] = enclave.para
              /\ paraBlockSyncNumber[s] = enclave.block

\* Session s has a single loop and an enclave that does not go back to itself.
Lonely(s) == rollbacks = 0 /\ ~legacy /\ Alone(s)

LossInv ==
    /\ IsFiniteSet(late)
    /\ ~legacy => \A l \in Loops : l[2] # "single" => pc[l] = "off"
    /\ Fresh
    /\ \A s \in Sessions : Lonely(s) => Paid(s) /\ AsksForHeld(s)

LEMMA CostTyped ==
    ASSUME Inv, IsFiniteSet(late), NEW s \in Sessions
    PROVE  /\ Single(s) \in Loops /\ Single(s)[1] = s /\ Single(s)[2] = "single"
           /\ Failed(Single(s)) \in Nat /\ Behind(Single(s)) \in 0..2 /\ Belief(s) \in 0..1
           /\ Cardinality(late) \in Nat /\ losses \in Nat /\ Retries \in Nat
           /\ attempt[Single(s)] \in Nat
<1>1. Single(s) \in Loops /\ Single(s)[1] = s /\ Single(s)[2] = "single"
    BY DEF Single
<1>2. losses \in Nat /\ Retries \in Nat /\ attempt[Single(s)] \in Nat
    <2>1. losses \in 0..MaxLosses /\ MaxLosses \in Nat /\ Retries \in Nat
        BY WorkerSyncAssumption DEF Inv, LoopsTyped
    <2>2. attempt[Single(s)] \in 0..(Retries + 1)
        BY <1>1 DEF Inv, LoopsTyped
    <2> QED BY <2>1, <2>2
<1>3. Cardinality(late) \in Nat
    BY FS_CardinalityType
<1>4. Failed(Single(s)) \in Nat
    BY <1>2 DEF Failed
<1>5. Behind(Single(s)) \in 0..2 /\ Belief(s) \in 0..1
    BY DEF Behind, Belief, Count
<1> QED BY <1>1, <1>2, <1>3, <1>4, <1>5

\* The numbers that are compared are numbers, and no position is ahead of the enclave.
LEMMA PositionsBelow ==
    ASSUME Inv, rollbacks = 0, NEW s \in Sessions
    PROVE  /\ headerSyncNumber[s] \in Nat /\ headerSyncNumber[s] <= enclave.relay
           /\ paraHeaderSyncNumber[s] \in Nat /\ paraHeaderSyncNumber[s] <= enclave.para
           /\ paraBlockSyncNumber[s] \in Nat /\ paraBlockSyncNumber[s] <= enclave.block
           /\ paraHeaderSynchedTo[s] \in Int
           /\ enclave.relay \in Nat /\ enclave.para \in Nat /\ enclave.block \in Nat
           /\ enclave.block <= enclave.para
<1>1. MaxRelay \in Nat /\ MaxPara \in Nat /\ paraHeight \in Nat
    BY WorkerSyncAssumption DEF Inv, EnclaveBounded
<1>2. enclave.relay \in Nat /\ enclave.para \in Nat /\ enclave.block \in Nat /\ enclave.block <= enclave.para
    BY <1>1 DEF Inv, EnclaveBounded
<1>3. /\ headerSyncNumber[s] \in Nat /\ paraHeaderSyncNumber[s] \in Nat /\ paraBlockSyncNumber[s] \in Nat
      /\ paraHeaderSynchedTo[s] \in Int
    BY <1>1 DEF Inv, PositionsTyped
<1> QED BY <1>2, <1>3 DEF Inv, NeverAhead

LEMMA LossKept ==
    ASSUME LossInv, UNCHANGED <<legacy, enclaveVars, losses, pc, loopVars, positionVars>>
    PROVE  LossInv'
<1>1. UNCHANGED <<legacy, enclave, late, rollbacks, losses, pc, fn, point, to, attempt, headerSyncNumber,
                  paraHeaderSyncNumber, paraBlockSyncNumber, paraHeaderSynchedTo>>
    BY DEF enclaveVars, loopVars, positionVars
<1>2. Fresh'
    BY <1>1 DEF LossInv, Fresh
<1>3. ASSUME NEW s \in Sessions, Lonely(s)' PROVE Paid(s)' /\ AsksForHeld(s)'
    <2>1. Lonely(s) /\ Paid(s) /\ AsksForHeld(s)
        BY <1>1, <1>3 DEF Lonely, Alone, LossInv
    <2> QED BY <1>1, <2>1 DEF Paid, AsksForHeld, Failed, Behind, Belief, Single
<1>4. IsFiniteSet(late)' /\ (~legacy => \A l \in Loops : l[2] # "single" => pc[l] = "off")'
    BY <1>1 DEF LossInv
<1> QED BY <1>2, <1>3, <1>4 DEF LossInv

LEMMA InitLoss == Init => LossInv
<1> SUFFICES ASSUME Init PROVE LossInv
    OBVIOUS
<1>1. IsFiniteSet(late)
    BY FS_EmptySet DEF Init
<1>2. Fresh
    BY DEF Init, Fresh
<1>3. ASSUME NEW s \in Sessions PROVE Paid(s) /\ AsksForHeld(s)
    <2>1. Single(s) \in Loops
        BY DEF Single
    <2>2. pc[Single(s)] = "off"
        BY <2>1 DEF Init
    <2>3. paraHeaderSynchedTo[s] <= enclave.para
        BY WorkerSyncAssumption, InitInv DEF Init, Inv, EnclaveBounded
    <2> QED BY <2>2, <2>3 DEF Paid, AsksForHeld
<1> QED BY <1>1, <1>2, <1>3 DEF LossInv, Init
\* As long as session s has the enclave for itself only its loop has steps of loops.
LEMMA OnlySingle ==
    ASSUME Inv, NEW s \in Sessions, NEW r \in Sessions, NEW l \in LoopsOf(r), pc[l] # "off",
           ~legacy, Alone(s)
    PROVE  r = s /\ l = Single(s)
BY DEF Alone, Single

\* Nothing comes back to "off".
LEMMA LonelyBefore ==
    ASSUME NEW s \in Sessions, Lonely(s)', legacy' = legacy, rollbacks' = rollbacks,
           \A l \in Loops : pc'[l] = "off" => pc[l] = "off"
    PROVE  Lonely(s)
BY DEF Lonely, Alone

\* To keep the invariant a step of a loop has to keep it for its session.
LEMMA LoopKeeps ==
    ASSUME Inv, LossInv, NEW r \in Sessions, NEW l \in LoopsOf(r), pc[l] # "off",
           legacy' = legacy, rollbacks' = rollbacks,
           NEW w, w # "off", pc' = [pc EXCEPT ![l] = w], IsFiniteSet(late'),
           ~legacy /\ Lonely(r) /\ l = Single(r) /\ Paid(r) /\ AsksForHeld(r)
              => Paid(r)' /\ AsksForHeld(r)'
    PROVE  LossInv'
<1>1. pc \in [Loops -> {"off", "turn", "fetch", "send", "error", "ended", "fatal"}] /\ l \in Loops
    BY DEF Inv, LoopsTyped
<1>2. pc'[l] # "off" /\ \A k \in Loops : k # l => pc'[k] = pc[k]
    BY <1>1
<1>3. Fresh'
    BY <1>1, <1>2 DEF Fresh
<1>4. (~legacy => \A k \in Loops : k[2] # "single" => pc[k] = "off")'
    BY <1>1, <1>2 DEF LossInv
<1>5. ASSUME NEW s \in Sessions, Lonely(s)' PROVE Paid(s)' /\ AsksForHeld(s)'
    <2>1. Lonely(s)
        BY <1>1, <1>2, <1>5, LonelyBefore
    <2>2. r = s /\ l = Single(s)
        BY <2>1, OnlySingle DEF Lonely
    <2> QED BY <2>1, <2>2 DEF LossInv, Lonely
<1> QED BY <1>3, <1>4, <1>5 DEF LossInv

\* What a call begins.
LEMMA CallsFor ==
    ASSUME Inv, ~legacy, NEW s \in Sessions, NEW f, NEW block, Calls(Single(s), f, block)
    PROVE  \E w \in {"turn", "fetch"} :
              /\ pc' = [pc EXCEPT ![Single(s)] = w] /\ pc'[Single(s)] = w
              /\ w = "fetch" /\ f = "blocks" => paraHeaderSyncNumber[s] > block
<1>1. Single(s) \in Loops /\ Single(s)[1] = s /\ pc \in [Loops -> {"off", "turn", "fetch", "send", "error", "ended", "fatal"}]
    BY DEF Single, Inv, LoopsTyped
<1>2. CASE Begins(s, f, block)
    BY <1>1, <1>2 DEF Calls, Begins, hasBlocks
<1>3. CASE ~Begins(s, f, block)
    BY <1>1, <1>3 DEF Calls
<1> QED BY <1>2, <1>3

\* A call anywhere.
LEMMA CallsSets ==
    ASSUME NEW l, NEW f, NEW block, Calls(l, f, block)
    PROVE  \E w \in {"turn", "fetch"} : pc' = [pc EXCEPT ![l] = w]
<1>1. CASE Begins(l[1], f, block)
    BY <1>1 DEF Calls
<1>2. CASE ~Begins(l[1], f, block)
    BY <1>2 DEF Calls
<1> QED BY <1>1, <1>2

LEMMA TurnLoss ==
    ASSUME Inv, LossInv, NEW r \in Sessions, NEW l \in LoopsOf(r), Turn(l) PROVE LossInv'
<1>1. \E w \in {"turn", "fetch"} : pc' = [pc EXCEPT ![l] = w]
    <2>1. ASSUME NEW f, NEW next, Yields(l, f, next) PROVE \E w \in {"turn", "fetch"} : pc' = [pc EXCEPT ![l] = w]
        BY <2>1, CallsSets DEF Yields
    <2>2. CASE YieldsHeaders(l)
        BY <2>1, <2>2 DEF YieldsHeaders
    <2>3. l \in Loops /\ pc[l] = "turn" /\ pc \in [Loops -> {"off", "turn", "fetch", "send", "error", "ended", "fatal"}]
        BY DEF Turn, Inv, LoopsTyped
    <2>4. CASE UNCHANGED <<pc, fn, attempt>>
        <3>1. pc' = [pc EXCEPT ![l] = "turn"]
            BY <2>3, <2>4
        <3> QED BY <3>1
    <2>5. CASE SyncIterator(l)
        BY <2>1, <2>2, <2>4, <2>5 DEF SyncIterator
    <2>6. CASE HeaderSyncIterator(l) \/ ParaBlockSyncIterator(l)
        BY <2>1, <2>6 DEF HeaderSyncIterator, ParaBlockSyncIterator
    <2> QED BY <2>5, <2>6 DEF Turn
<1>2. ASSUME ~legacy, Lonely(r), l = Single(r), Paid(r), AsksForHeld(r) PROVE Paid(r)' /\ AsksForHeld(r)'
    <2> DEFINE k == Single(r)
    <2>1. k \in Loops /\ k[1] = r /\ k[2] = "single" /\ pc[k] = "turn" /\ fn \in [Loops -> Kinds]
          /\ attempt \in [Loops -> 0..(Retries + 1)]
        BY <1>2 DEF Turn, Single, Inv, LoopsTyped
    <2>2. UNCHANGED <<enclave, late, rollbacks, losses, headerSyncNumber, paraHeaderSyncNumber, paraBlockSyncNumber,
                      paraHeaderSynchedTo>>
        BY DEF Turn, enclaveVars, positionVars
    <2>3. ASSUME NEW f, NEW next, Yields(k, f, next)
          PROVE  /\ pc'[k] \in {"turn", "fetch"} /\ attempt'[k] = 0
                 /\ pc'[k] = "fetch" /\ fn'[k] = "blocks" => paraHeaderSyncNumber[r] > paraBlockSyncNumber[r]
        BY <1>2, <2>1, <2>3, CallsFor DEF Yields
    <2>4. /\ pc'[k] \in {"turn", "fetch"} /\ (pc'[k] = "fetch" => attempt'[k] = 0)
          /\ pc'[k] = "fetch" /\ fn'[k] = "blocks" => paraHeaderSyncNumber[r] > paraBlockSyncNumber[r]
        <3>1. SyncIterator(k)
            BY <1>2, <2>1 DEF Turn
        <3>2. CASE YieldsHeaders(k)
            BY <2>3, <3>2 DEF YieldsHeaders
        <3>3. CASE UNCHANGED <<pc, fn, attempt>>
            BY <2>1, <3>3
        <3> QED BY <2>1, <2>3, <3>1, <3>2, <3>3 DEF SyncIterator
    <2>5. Failed(k)' = 0 /\ Failed(k) = 0
        BY <2>1, <2>4 DEF Failed
    <2>6. Behind(k)' = Behind(k) /\ Belief(r)' = Belief(r) /\ Cardinality(late)' = Cardinality(late)
        BY <2>1, <2>2, <2>4 DEF Behind, Belief
    <2>7. Paid(r)'
        BY <1>2, <2>1, <2>2, <2>4, <2>5, <2>6 DEF Paid
    <2>8. AsksForHeld(r)'
        BY <1>2, <2>2, <2>4 DEF AsksForHeld
    <2> QED BY <2>7, <2>8
<1>3. late' = late /\ rollbacks' = rollbacks /\ legacy' = legacy /\ pc[l] = "turn"
    BY DEF Turn, enclaveVars, sourceVars
<1>4. IsFiniteSet(late')
    BY <1>3 DEF LossInv
<1>5. PICK w \in {"turn", "fetch"} : pc' = [pc EXCEPT ![l] = w]
    BY <1>1
<1>6. w # "off" /\ pc[l] # "off"
    BY <1>3
<1> QED BY <1>2, <1>3, <1>4, <1>5, <1>6, LoopKeeps

LEMMA EndsLoss ==
    ASSUME Inv, LossInv, NEW r \in Sessions, NEW l \in LoopsOf(r), Ends(l) PROVE LossInv'
<1>1. /\ pc[l] # "off" /\ legacy' = legacy /\ rollbacks' = rollbacks /\ late' = late
      /\ pc' = [pc EXCEPT ![l] = "ended"] /\ l \in Loops
    BY DEF Ends, enclaveVars, sourceVars
<1>2. pc'[l] = "ended"
    BY <1>1 DEF Inv, LoopsTyped
<1>3. l = Single(r) /\ AsksForHeld(r) => Paid(r)' /\ AsksForHeld(r)'
    BY <1>2 DEF Ends, enclaveVars, positionVars, Paid, AsksForHeld
<1>4. IsFiniteSet(late')
    BY <1>1 DEF LossInv
<1> QED BY <1>1, <1>3, <1>4, LoopKeeps

LEMMA FetchLoss ==
    ASSUME Inv, LossInv, NEW r \in Sessions, NEW l \in LoopsOf(r), Fetch(l) PROVE LossInv'
<1>1. /\ pc[l] = "fetch" /\ legacy' = legacy /\ rollbacks' = rollbacks /\ late' = late
      /\ pc' = [pc EXCEPT ![l] = "send"] /\ l \in Loops
    BY DEF Fetch, enclaveVars, sourceVars
<1>2. pc'[l] = "send"
    BY <1>1 DEF Inv, LoopsTyped
<1>3. ASSUME l = Single(r), Paid(r), AsksForHeld(r) PROVE Paid(r)' /\ AsksForHeld(r)'
    <2>1. /\ l[1] = r
          /\ UNCHANGED <<enclave, losses, fn, attempt, headerSyncNumber, paraHeaderSyncNumber, paraBlockSyncNumber,
                         paraHeaderSynchedTo>>
        BY <1>3 DEF Fetch, enclaveVars, positionVars, Single
    <2>2. Failed(l)' = Failed(l) /\ Behind(l)' = Behind(l) /\ Belief(r)' = Belief(r)
          /\ Cardinality(late)' = Cardinality(late)
        BY <1>1, <1>2, <2>1 DEF Failed, Behind, Belief
    <2>3. Paid(r)'
        BY <1>1, <1>2, <1>3, <2>1, <2>2 DEF Paid
    <2>4. fn[l] = "blocks" => to'[l] = paraBlockSyncNumber[r] \/ to'[l] <= paraHeaderSynchedTo[r]
        BY <1>1, <2>1 DEF Fetch, Blobs, Inv, BlobsBounded
    <2>5. AsksForHeld(r)'
        BY <1>1, <1>2, <1>3, <2>1, <2>4 DEF AsksForHeld
    <2> QED BY <2>3, <2>5
<1>4. IsFiniteSet(late')
    BY <1>1 DEF LossInv
<1> QED BY <1>1, <1>3, <1>4, LoopKeeps

\* A step of the loop that leads to w.
LEMMA StepsTo ==
    ASSUME Inv, NEW l \in Loops, NEW w, pc' = [pc EXCEPT ![l] = w]
    PROVE  pc'[l] = w
BY DEF Inv, LoopsTyped

LEMMA HeadersSynchedLoss ==
    ASSUME Inv, LossInv, NEW r \in Sessions, NEW l \in LoopsOf(r), HeadersSynched(l) PROVE LossInv'
<1> DEFINE e == Taken(Request(l))
<1>1. /\ pc[l] = "send" /\ fn[l] # "blocks" /\ legacy' = legacy /\ rollbacks' = rollbacks /\ late' = late
      /\ l \in Loops /\ l[1] = r /\ enclave' = e /\ losses' = losses /\ fn' = fn /\ attempt' = attempt
      /\ IsFiniteSet(late')
    BY DEF HeadersSynched, sourceVars, BlobIsGone, LossInv
<1>2. Grown(e)
    BY <1>1, RequestTyped, TakenBounded DEF Inv, HeadersSynched
<1>3. PICK w \in {"turn", "fetch"} : pc' = [pc EXCEPT ![l] = w]
    BY CallsSets DEF HeadersSynched
<1>4. pc'[l] = w
    BY <1>1, <1>3, StepsTo
<1>5. ASSUME ~legacy, Lonely(r), l = Single(r), Paid(r), AsksForHeld(r) PROVE Paid(r)' /\ AsksForHeld(r)'
    <2>1. rollbacks = 0
        BY <1>5 DEF Lonely
    <2>2. /\ e.relay \in Nat /\ e.para \in Nat /\ e.block \in Nat
          /\ afterAnswer(e.relay - 1) = e.relay /\ e.block = enclave.block
        <3>1. e.block = enclave.block
            BY <1>1 DEF Taken, Request, Kind, Inv, EnclaveBounded
        <3>2. e.relay \in 1..(parentHeight + 1) /\ parentHeight \in Nat
              /\ e \in [relay : Nat, para : Nat, block : Nat]
            BY <1>2, WorkerSyncAssumption DEF Grown, Inv, EnclaveBounded
        <3> QED BY <3>1, <3>2 DEF afterAnswer
    <2>3. /\ headerSyncNumber'[r] = e.relay /\ paraBlockSyncNumber'[r] = paraBlockSyncNumber[r]
          /\ paraHeaderSynchedTo'[r] = e.para - 1
        BY <1>1, <2>2 DEF HeadersSynched, Inv, PositionsTyped
    <2>4. Failed(l)' <= Failed(l) /\ Failed(l)' \in Nat
        BY <1>1, <1>4, <1>5, CostTyped DEF Failed
    <2>5. Behind(l)' <= Behind(l) /\ Behind(l)' \in Nat
        BY <1>1, <1>4, <2>2, <2>3 DEF Behind, Count
    <2>6. Belief(r)' = 0
        BY <1>1, <2>2, <2>3 DEF Belief, Count
    <2>7. Failed(l)' + Behind(l)' + Belief(r)' + Cardinality(late)' <= 2 * losses' + 1
        BY <1>1, <1>5, <2>4, <2>5, <2>6, CostTyped DEF Paid, LossInv
    <2>8. Paid(r)'
        BY <1>4, <1>5, <2>7 DEF Paid
    <2>9. AsksForHeld(r)'
        BY <1>1, <1>5, <2>2, <2>3 DEF AsksForHeld
    <2> QED BY <2>8, <2>9
<1> QED BY <1>1, <1>3, <1>5, LoopKeeps

LEMMA BlocksDispatchedLoss ==
    ASSUME Inv, LossInv, NEW r \in Sessions, NEW l \in LoopsOf(r), BlocksDispatched(l) PROVE LossInv'
<1> DEFINE e == Taken(Request(l))
<1>1. /\ pc[l] = "send" /\ fn[l] = "blocks" /\ legacy' = legacy /\ rollbacks' = rollbacks /\ late' = late
      /\ l \in Loops /\ l[1] = r /\ enclave' = e /\ losses' = losses /\ fn' = fn /\ attempt' = attempt
      /\ IsFiniteSet(late')
    BY DEF BlocksDispatched, sourceVars, BlobIsGone, LossInv
<1>2. Grown(e)
    BY <1>1, RequestTyped, TakenBounded DEF Inv, BlocksDispatched
<1>3. PICK w \in {"turn", "fetch"} : pc' = [pc EXCEPT ![l] = w]
    BY CallsSets DEF BlocksDispatched
<1>4. pc'[l] = w
    BY <1>1, <1>3, StepsTo
<1>5. ASSUME ~legacy, Lonely(r), l = Single(r), Paid(r), AsksForHeld(r) PROVE Paid(r)' /\ AsksForHeld(r)'
    <2>1. rollbacks = 0
        BY <1>5 DEF Lonely
    <2>2. /\ e.block \in Nat /\ e.block >= enclave.block /\ enclave.block \in Nat
          /\ afterAnswer(e.block - 1) = e.block /\ e.relay = enclave.relay /\ e.para = enclave.para
          /\ enclave.para \in Nat
        <3>1. e.relay = enclave.relay /\ e.para = enclave.para
            BY <1>1 DEF Taken, Request, Kind, Inv, EnclaveBounded
        <3>2. e.block >= enclave.block /\ e \in [relay : Nat, para : Nat, block : Nat]
              /\ enclave \in [relay : Nat, para : Nat, block : Nat]
            BY <1>2, WorkerSyncAssumption DEF Grown, Inv, EnclaveBounded
        <3> HIDE DEF e
        <3> QED BY <3>1, <3>2 DEF afterAnswer
    <2>3. /\ headerSyncNumber'[r] = headerSyncNumber[r] /\ paraBlockSyncNumber'[r] = e.block
          /\ paraHeaderSynchedTo'[r] = paraHeaderSynchedTo[r] /\ paraHeaderSyncNumber'[r] = paraHeaderSyncNumber[r]
        BY <1>1, <2>2 DEF BlocksDispatched, Inv, PositionsTyped
    <2>4. Failed(l)' <= Failed(l) /\ Failed(l)' \in Nat
        BY <1>1, <1>4, <1>5, CostTyped DEF Failed
    <2>5. Behind(l)' <= Behind(l) /\ Behind(l)' \in Nat
        BY <1>1, <1>4, <2>2, <2>3 DEF Behind, Count
    <2>6. Belief(r)' <= Belief(r) /\ Belief(r)' \in Nat
        BY <1>1, <2>2, <2>3 DEF Belief, Count
    <2>7. Failed(l)' + Behind(l)' + Belief(r)' + Cardinality(late)' <= 2 * losses' + 1
        BY <1>1, <1>5, <2>4, <2>5, <2>6, CostTyped DEF Paid, LossInv
    <2>8. Paid(r)'
        BY <1>4, <1>5, <2>7 DEF Paid
    <2>9. AsksForHeld(r)'
        <3>1. Calls(Single(r), "blocks", e.block)
            BY <1>5, <2>2 DEF BlocksDispatched
        <3>2. w = "fetch" => paraHeaderSyncNumber[r] > e.block
            BY <1>4, <1>5, <3>1, CallsFor
        <3> QED BY <1>1, <1>3, <1>4, <1>5, <2>2, <2>3, <3>2 DEF AsksForHeld
    <2> QED BY <2>8, <2>9
<1> QED BY <1>1, <1>3, <1>5, LoopKeeps

\* A request that is refused was behind the enclave, or the session believed in a header.
LEMMA RequestRefusedLoss ==
    ASSUME Inv, LossInv, NEW r \in Sessions, NEW l \in LoopsOf(r), RequestRefused(l) PROVE LossInv'
<1>1. /\ pc[l] = "send" /\ legacy' = legacy /\ rollbacks' = rollbacks /\ late' = late
      /\ l \in Loops /\ l[1] = r /\ losses' = losses /\ fn' = fn /\ attempt' = attempt
      /\ enclave' = Refused(Request(l)) /\ pc' = [pc EXCEPT ![l] = "error"]
      /\ IsFiniteSet(late')
      /\ UNCHANGED <<headerSyncNumber, paraHeaderSyncNumber, paraBlockSyncNumber, paraHeaderSynchedTo>>
    BY DEF RequestRefused, sourceVars, BlobIsGone, LossInv, positionVars
<1>4. pc'[l] = "error"
    BY <1>1, StepsTo
<1>5. ASSUME ~legacy, Lonely(r), l = Single(r), Paid(r), AsksForHeld(r) PROVE Paid(r)' /\ AsksForHeld(r)'
    <2>1. rollbacks = 0
        BY <1>5 DEF Lonely
    <2>2. /\ enclave.para \in Nat /\ enclave.block \in Nat /\ enclave.relay \in Nat
          /\ enclave.block <= enclave.para
          /\ headerSyncNumber[r] \in Nat /\ headerSyncNumber[r] <= enclave.relay
          /\ paraBlockSyncNumber[r] \in Nat /\ paraBlockSyncNumber[r] <= enclave.block
          /\ paraHeaderSyncNumber[r] \in Nat /\ paraHeaderSyncNumber[r] <= enclave.para
          /\ paraHeaderSynchedTo[r] \in Int /\ to[l] \in Nat
        BY <1>1, <2>1, PositionsBelow DEF Inv, BlobsBounded
    <2>3. enclave'.para = enclave.para /\ enclave'.block \in {enclave.block, enclave.para}
        BY <1>1 DEF Refused, Inv, EnclaveBounded
    <2>4. Failed(l)' = Failed(l) + 1
        BY <1>1, <1>4 DEF Failed
    <2>5. Behind(l)' = 0
        BY <1>4 DEF Behind
    <2>6. Belief(r)' <= Belief(r) /\ Belief(r)' \in Nat
        BY <1>1, <2>2, <2>3 DEF Belief, Count
    <2>7. Behind(l) + Belief(r) >= 1 + Belief(r)'
        <3>1. CASE fn[l] # "blocks"
            <4>1. Request(l).kind = "headers" /\ Request(l).from = headerSyncNumber[r]
                BY <1>1, <3>1 DEF Request, Kind
            <4>2. headerSyncNumber[r] < enclave.relay
                BY <2>2, <4>1 DEF RequestRefused, Fits, Repeats
            <4>3. Behind(l) \in {1, 2}
                BY <1>1, <4>2 DEF Behind, Count
            <4> QED BY <2>6, <4>3, CostTyped, <1>5 DEF LossInv
        <3>2. CASE fn[l] = "blocks" /\ paraBlockSyncNumber[r] < enclave.block
            <4>3. Behind(l) \in {1, 2}
                BY <1>1, <3>2 DEF Behind, Count
            <4> QED BY <2>6, <4>3, CostTyped, <1>5 DEF LossInv
        <3>3. CASE fn[l] = "blocks" /\ ~(paraBlockSyncNumber[r] < enclave.block)
            <4>1. Request(l).kind = "blocks" /\ Request(l).from = paraBlockSyncNumber[r] /\ Request(l).to = to[l]
                BY <1>1, <3>3 DEF Request, Kind
            <4>2. paraBlockSyncNumber[r] = enclave.block /\ paraBlockSyncNumber[r] < enclave.para
                BY <1>1, <1>5, <2>2, <3>3 DEF AsksForHeld
            <4>3. to[l] >= enclave.para
                BY <2>2, <3>3, <4>1, <4>2 DEF RequestRefused, Fits, Repeats
            <4>4. paraHeaderSynchedTo[r] >= enclave.para
                BY <1>1, <1>5, <2>2, <3>3, <4>2, <4>3 DEF AsksForHeld
            <4>5. Belief(r) = 1
                BY <4>2, <4>4 DEF Belief, Count
            <4>6. enclave'.block = enclave.para
                BY <1>1, <4>1, <4>2 DEF Refused, Inv, EnclaveBounded
            <4>7. Belief(r)' = 0
                BY <2>2, <2>3, <4>6 DEF Belief, Count
            <4>8. Behind(l) \in Nat
                BY <1>5, CostTyped DEF LossInv
            <4> QED BY <4>5, <4>7, <4>8
        <3> QED BY <3>1, <3>2, <3>3
    <2>8. Failed(l)' + Behind(l)' + Belief(r)' + Cardinality(late)' <= 2 * losses' + 1
        BY <1>1, <1>5, <2>4, <2>5, <2>6, <2>7, CostTyped DEF Paid, LossInv
    <2>9. Paid(r)'
        BY <1>4, <1>5, <2>8 DEF Paid
    <2>10. AsksForHeld(r)'
        BY <1>1, <1>4, <1>5, <2>3 DEF AsksForHeld
    <2> QED BY <2>9, <2>10
<1> QED BY <1>1, <1>5, LoopKeeps

\* A loss pays for the attempt that fails and for the request that may come late.
LEMMA TimedOutLoss ==
    ASSUME Inv, LossInv, NEW r \in Sessions, NEW l \in LoopsOf(r), TimedOut(l) PROVE LossInv'
<1>1. /\ pc[l] \in {"fetch", "send"} /\ legacy' = legacy /\ rollbacks' = rollbacks /\ enclave' = enclave
      /\ l \in Loops /\ l[1] = r /\ losses' = losses + 1 /\ fn' = fn /\ attempt' = attempt
      /\ pc' = [pc EXCEPT ![l] = "error"]
      /\ UNCHANGED <<headerSyncNumber, paraHeaderSyncNumber, paraBlockSyncNumber, paraHeaderSynchedTo>>
    BY DEF TimedOut, sourceVars, BlobIsGone, positionVars
<1>2. IsFiniteSet(late') /\ Cardinality(late') \in Nat /\ Cardinality(late') <= Cardinality(late) + 1
    <2>1. IsFiniteSet(late) /\ Cardinality(late) \in Nat
        BY FS_CardinalityType DEF LossInv
    <2>2. CASE late' = late
        BY <2>1, <2>2
    <2>3. CASE late' = late \cup {Request(l)}
        <3>1. IsFiniteSet(late \cup {Request(l)}) /\ Cardinality(late \cup {Request(l)})
                 \in {Cardinality(late), Cardinality(late) + 1}
            BY <2>1, FS_AddElement
        <3> QED BY <2>1, <2>3, <3>1
    <2> QED BY <2>2, <2>3 DEF TimedOut
<1>3. pc'[l] = "error"
    BY <1>1, StepsTo
<1>4. ASSUME ~legacy, Lonely(r), l = Single(r), Paid(r), AsksForHeld(r) PROVE Paid(r)' /\ AsksForHeld(r)'
    <2>1. Failed(l)' = Failed(l) + 1
        BY <1>1, <1>3 DEF Failed
    <2>2. Behind(l)' = 0 /\ Belief(r)' = Belief(r)
        BY <1>1, <1>3 DEF Behind, Belief
    <2>3. Failed(l)' + Behind(l)' + Belief(r)' + Cardinality(late') <= 2 * losses' + 1
        BY <1>1, <1>2, <1>4, <2>1, <2>2, CostTyped DEF Paid, LossInv
    <2>4. Paid(r)'
        BY <1>3, <1>4, <2>3 DEF Paid
    <2>5. AsksForHeld(r)'
        BY <1>1, <1>3, <1>4 DEF AsksForHeld
    <2> QED BY <2>4, <2>5
<1>5. pc[l] # "off" /\ "error" # "off"
    BY <1>1
<1> QED BY <1>1, <1>2, <1>4, <1>5, LoopKeeps

\* With renewed positions nothing is behind, with the old ones a loss pays for both.
LEMMA RepeatLoss ==
    ASSUME Inv, LossInv, NEW r \in Sessions, NEW l \in LoopsOf(r), Renew(l) \/ NotRenewed(l) PROVE LossInv'
<1>0. PICK header, block : Repeat(l, header, block)
    BY DEF Renew, NotRenewed
<1>1. /\ pc[l] = "error" /\ legacy' = legacy /\ rollbacks' = rollbacks /\ late' = late
      /\ l \in Loops /\ l[1] = r /\ enclave' = enclave /\ fn' = fn
      /\ IsFiniteSet(late')
    BY <1>0 DEF Renew, NotRenewed, Repeat, sourceVars, enclaveVars, LossInv
<1>2. PICK w \in {"turn", "fetch"} : pc' = [pc EXCEPT ![l] = w]
    BY <1>0, CallsSets DEF Repeat
<1>3. pc'[l] = w
    BY <1>1, <1>2, StepsTo
<1>4. ASSUME ~legacy, Lonely(r), l = Single(r), Paid(r), AsksForHeld(r) PROVE Paid(r)' /\ AsksForHeld(r)'
    <2>0. rollbacks = 0 /\ enclave.relay \in Nat /\ enclave.block \in Nat
        BY <1>4, PositionsBelow DEF Lonely
    <2>1. attempt'[l] = attempt[l] + 1
        BY <1>0, <1>1 DEF Repeat, Inv, LoopsTyped
    <2>2. headerSyncNumber'[r] = header /\ paraBlockSyncNumber'[r] = block
          /\ UNCHANGED <<paraHeaderSyncNumber, paraHeaderSynchedTo>>
        BY <1>0, <1>1 DEF Repeat, Inv, PositionsTyped
    <2>3. Failed(l)' <= Failed(l) /\ Failed(l)' \in Nat
        BY <1>1, <1>3, <1>4, <2>1, CostTyped DEF Failed
    <2>4. Belief(r)' = Belief(r) /\ Behind(l) = 0
        BY <1>1, <2>2 DEF Belief, Behind
    <2>5. Behind(l)' \in 0..2
        BY DEF Behind, Count
    <2>6. Failed(l)' + Behind(l)' + Belief(r)' + Cardinality(late)' <= 2 * losses' + 1
        <3>1. CASE Renew(l)
            <4>1. renewed(l) = {"headers", "blocks"} /\ losses' = losses
                BY <1>4, <3>1 DEF renewed, Single, Renew
            <4>2. Repeat(l, enclave.relay, enclave.block)
                BY <3>1, <4>1 DEF Renew
            <4>3. headerSyncNumber'[r] = enclave.relay /\ paraBlockSyncNumber'[r] = enclave.block
                BY <1>1, <4>2 DEF Repeat, Inv, PositionsTyped
            <4>4. Behind(l)' = 0
                BY <1>1, <2>0, <4>3 DEF Behind, Count
            <4> QED BY <1>1, <1>4, <2>3, <2>4, <4>1, <4>4, CostTyped DEF Paid, LossInv
        <3>2. CASE NotRenewed(l)
            <4>1. losses' = losses + 1
                BY <3>2 DEF NotRenewed
            <4> QED BY <1>1, <1>4, <2>3, <2>4, <2>5, <4>1, CostTyped DEF Paid, LossInv
        <3> QED BY <3>1, <3>2
    <2>7. Paid(r)'
        BY <1>3, <1>4, <2>6 DEF Paid
    <2>8. AsksForHeld(r)'
        <3>1. w = "fetch" /\ fn[l] = "blocks" => paraHeaderSyncNumber[r] > block
            <4>1. Calls(Single(r), fn[l], block)
                BY <1>0, <1>4 DEF Repeat
            <4>2. pc'[l] = "fetch" /\ fn[l] = "blocks" => paraHeaderSyncNumber[r] > block
                BY <1>4, <4>1, CallsFor
            <4> QED BY <1>3, <4>2
        <3> QED BY <1>1, <1>3, <1>4, <2>2, <3>1 DEF AsksForHeld
    <2> QED BY <2>7, <2>8
<1>5. pc[l] # "off" /\ w # "off"
    BY <1>1
<1> QED BY <1>1, <1>2, <1>4, <1>5, LoopKeeps

LEMMA ThrowFatalLoss ==
    ASSUME Inv, LossInv, NEW r \in Sessions, NEW l \in LoopsOf(r), ThrowFatal(l) PROVE LossInv'
<1>1. /\ pc[l] = "error" /\ legacy' = legacy /\ rollbacks' = rollbacks /\ late' = late
      /\ l \in Loops /\ l[1] = r /\ losses' = losses
      /\ pc' = [pc EXCEPT ![l] = "fatal"] /\ ~mayRetry(l)
      /\ UNCHANGED <<enclave, paraHeaderSynchedTo>>
      /\ IsFiniteSet(late')
    BY DEF ThrowFatal, sourceVars, enclaveVars, loopVars, positionVars, LossInv
<1>2. pc'[l] = "fatal"
    BY <1>1, StepsTo
<1>3. ASSUME ~legacy, Lonely(r), l = Single(r), Paid(r), AsksForHeld(r) PROVE Paid(r)' /\ AsksForHeld(r)'
    <2>1. Failed(l) >= Retries + 2
        BY <1>1, <1>3, CostTyped DEF Failed, mayRetry, LossInv
    <2>2. Retries + 2 <= 2 * losses' + 1
        BY <1>1, <1>3, <2>1, CostTyped DEF Paid, LossInv
    <2> QED BY <1>1, <1>2, <1>3, <2>2 DEF Paid, AsksForHeld
<1>4. pc[l] # "off" /\ "fatal" # "off"
    BY <1>1
<1> QED BY <1>1, <1>3, <1>4, LoopKeeps

\* What comes late puts one position behind at most, and is late no more.
LEMMA LateLoss == ASSUME Inv, LossInv, NEW q \in late, Late(q) PROVE LossInv'
<1>1. /\ late' = late \ {q} /\ legacy' = legacy /\ rollbacks' = rollbacks /\ losses' = losses
      /\ UNCHANGED <<pc, fn, to, attempt>>
      /\ UNCHANGED <<headerSyncNumber, paraHeaderSyncNumber, paraBlockSyncNumber, paraHeaderSynchedTo>>
    BY DEF Late, sourceVars, loopVars, positionVars
<1>2. /\ IsFiniteSet(late') /\ Cardinality(late') \in Nat /\ Cardinality(late) \in Nat
      /\ Cardinality(late) = Cardinality(late') + 1
    <2>1. IsFiniteSet(late) /\ Cardinality(late) \in Nat
        BY FS_CardinalityType DEF LossInv
    <2>2. IsFiniteSet(late \ {q}) /\ Cardinality(late \ {q}) = Cardinality(late) - 1
        BY <2>1, FS_RemoveElement
    <2>3. Cardinality(late \ {q}) \in Nat
        BY <2>2, FS_CardinalityType
    <2> QED BY <1>1, <2>1, <2>2, <2>3
<1>3. /\ enclave.relay \in Nat /\ enclave'.relay \in Nat /\ enclave'.relay >= enclave.relay
      /\ enclave.para \in Nat /\ enclave'.para \in Nat /\ enclave'.para >= enclave.para
      /\ enclave.block \in Nat /\ enclave'.block \in Nat /\ enclave'.block >= enclave.block
      /\ enclave'.relay = enclave.relay \/ enclave'.block = enclave.block
    <2>0. enclave \in [relay : Nat, para : Nat, block : Nat] /\ enclave.block <= enclave.para
        BY WorkerSyncAssumption DEF Inv, EnclaveBounded
    <2>1. CASE enclave' = enclave
        BY <2>0, <2>1
    <2>2. CASE Fits(q) /\ enclave' = Taken(q)
        <3>1. Grown(enclave')
            BY <2>2, TakenBounded DEF Inv, LateBounded
        <3>2. enclave'.relay = enclave.relay \/ enclave'.block = enclave.block
            BY <2>0, <2>2 DEF Taken
        <3> QED BY <2>0, <3>1, <3>2 DEF Grown
    <2>3. CASE enclave' = Refused(q)
        <3>1. Grown(enclave')
            BY <2>3, RefusedBounded DEF Inv, LateBounded
        <3>2. enclave'.relay = enclave.relay
            BY <2>0, <2>3 DEF Refused
        <3> QED BY <2>0, <3>1, <3>2 DEF Grown
    <2> QED BY <2>1, <2>2, <2>3 DEF Late
<1>4. Fresh'
    BY <1>1 DEF LossInv, Fresh
<1>5. ASSUME NEW s \in Sessions, Lonely(s)' PROVE Paid(s)' /\ AsksForHeld(s)'
    <2> DEFINE l == Single(s)
    <2>1. Lonely(s) /\ Paid(s) /\ AsksForHeld(s) /\ rollbacks = 0
        BY <1>1, <1>5, LonelyBefore DEF LossInv, Lonely
    <2>2. /\ headerSyncNumber[s] \in Nat /\ headerSyncNumber[s] <= enclave.relay
          /\ paraBlockSyncNumber[s] \in Nat /\ paraBlockSyncNumber[s] <= enclave.block
          /\ paraHeaderSynchedTo[s] \in Int
        BY <2>1, PositionsBelow
    <2>3. l[1] = s /\ Failed(l)' = Failed(l)
        BY <1>1 DEF Failed, Single
    <2>4. Behind(l)' <= Behind(l) + 1 /\ Behind(l)' \in Nat
        BY <1>1, <1>3, <2>2, <2>3 DEF Behind, Count
    <2>5. Belief(s)' <= Belief(s) /\ Belief(s)' \in Nat
        BY <1>1, <1>3, <2>1, <2>2 DEF Belief, Count, AsksForHeld
    <2>6. pc[l] \in {"turn", "fetch", "send", "error"} =>
              Failed(l)' + Behind(l)' + Belief(s)' + Cardinality(late') <= 2 * losses' + 1
        BY <1>1, <1>2, <2>1, <2>3, <2>4, <2>5, CostTyped DEF Paid, LossInv
    <2>7. Paid(s)'
        BY <1>1, <2>1, <2>6 DEF Paid
    <2>8. AsksForHeld(s)'
        BY <1>1, <1>3, <2>1, <2>2 DEF AsksForHeld
    <2> QED BY <2>7, <2>8
<1> QED BY <1>1, <1>2, <1>4, <1>5 DEF LossInv

LEMMA RollbackLoss == LossInv /\ Inv /\ Rollback => LossInv'
<1> SUFFICES ASSUME LossInv, Inv, Rollback PROVE LossInv'
    OBVIOUS
<1>1. rollbacks' # 0
    BY WorkerSyncAssumption DEF Inv, LoopsTyped, Rollback
<1> QED BY <1>1 DEF LossInv, Fresh, Lonely, Rollback, sourceVars

\* A session learns where the enclave is while its loops are off.
LEMMA UpdateInfoLoss == ASSUME Inv, LossInv, NEW r \in Sessions, UpdateInfo(r) PROVE LossInv'
<1>1. /\ UNCHANGED <<legacy, enclave, late, rollbacks, losses, pc, fn, to, attempt, paraHeaderSynchedTo>>
      /\ IsFiniteSet(late)
    BY DEF UpdateInfo, sourceVars, enclaveVars, loopVars, LossInv
<1>2. ASSUME NEW s \in Sessions
      PROVE  IF s = r
             THEN /\ headerSyncNumber'[s] = enclave.relay /\ paraHeaderSyncNumber'[s] = enclave.para
                  /\ paraBlockSyncNumber'[s] = enclave.block
             ELSE /\ headerSyncNumber'[s] = headerSyncNumber[s]
                  /\ paraHeaderSyncNumber'[s] = paraHeaderSyncNumber[s]
                  /\ paraBlockSyncNumber'[s] = paraBlockSyncNumber[s]
    BY DEF UpdateInfo, Inv, PositionsTyped
<1>3. Fresh'
    BY <1>1, <1>2 DEF LossInv, Fresh
<1>4. ASSUME NEW s \in Sessions, Lonely(s)' PROVE Paid(s)' /\ AsksForHeld(s)'
    <2>1. Lonely(s) /\ Paid(s) /\ AsksForHeld(s)
        BY <1>1, <1>4, LonelyBefore DEF LossInv
    <2>2. CASE s = r
        <3>1. pc[Single(s)] = "off"
            BY <2>1, <2>2 DEF Lonely, Single, UpdateInfo
        <3> QED BY <1>1, <2>1, <3>1 DEF Paid, AsksForHeld
    <2>3. CASE s # r
        <3>1. Single(s)[1] = s
            BY DEF Single
        <3>2. Failed(Single(s))' = Failed(Single(s)) /\ Behind(Single(s))' = Behind(Single(s)) /\ Belief(s)' = Belief(s)
            BY <1>1, <1>2, <2>3, <3>1 DEF Failed, Behind, Belief
        <3> QED BY <1>1, <1>2, <2>1, <2>3, <3>2 DEF Paid, AsksForHeld
    <2> QED BY <2>2, <2>3
<1> QED BY <1>1, <1>3, <1>4 DEF LossInv

\* A session that is the first to start knows where the enclave is, but for the one header
\* it believes in.
LEMMA StartSyncLoss == ASSUME Inv, LossInv, NEW r \in Sessions, StartSync(r) PROVE LossInv'
<1>1. /\ UNCHANGED <<legacy, enclave, late, rollbacks, losses, fn, to, attempt, headerSyncNumber,
                     paraHeaderSyncNumber, paraBlockSyncNumber>>
      /\ IsFiniteSet(late)
    BY DEF StartSync, sourceVars, enclaveVars, loopVars, LossInv
<1>2. pc' = [l \in Loops |-> IF l \in LoopsOf(r) THEN "turn" ELSE pc[l]]
    BY DEF StartSync
<1>3. \E l \in Loops : l \in LoopsOf(r)
    <2>1. CASE legacy
        <3>1. <<r, "headers">> \in Loops /\ <<r, "headers">> \in LoopsOf(r)
            BY <2>1
        <3> QED BY <3>1
    <2>2. CASE ~legacy
        <3>1. <<r, "single">> \in Loops /\ <<r, "single">> \in LoopsOf(r)
            BY <2>2
        <3> QED BY <3>1
    <2> QED BY <2>1, <2>2
<1>4. Fresh'
    BY <1>2, <1>3 DEF Fresh
<1>5. (~legacy => \A l \in Loops : l[2] # "single" => pc[l] = "off")'
    BY <1>1, <1>2 DEF LossInv
<1>6. ASSUME NEW s \in Sessions, Lonely(s)' PROVE Paid(s)' /\ AsksForHeld(s)'
    <2>1. \A l \in Loops : pc'[l] = "off" => pc[l] = "off"
        BY <1>2
    <2>2. Lonely(s) /\ ~legacy /\ rollbacks = 0
        BY <1>1, <1>6, <2>1, LonelyBefore DEF Lonely
    <2>3. s = r
        <3>1. PICK l \in Loops : l \in LoopsOf(r)
            BY <1>3
        <3>2. pc'[l] = "turn" /\ l[1] = r
            BY <1>2, <3>1
        <3> QED BY <1>6, <3>2 DEF Lonely, Alone
    <2>4. \A l \in Loops : pc[l] = "off"
        <3> SUFFICES ASSUME NEW l \in Loops, pc[l] # "off" PROVE FALSE
            OBVIOUS
        <3>1. l[1] = s /\ l[2] = "single"
            BY <2>2 DEF LossInv, Lonely, Alone
        <3>2. l \in LoopsOf(r)
            BY <2>2, <2>3, <3>1
        <3> QED BY <3>2 DEF StartSync
    <2>5. /\ late = {} /\ headerSyncNumber[s] = enclave.relay
          /\ paraHeaderSyncNumber[s] = enclave.para /\ paraBlockSyncNumber[s] = enclave.block
        BY <2>2, <2>3, <2>4 DEF LossInv, Fresh, StartSync
    <2>6. Single(s) \in Loops /\ Single(s)[1] = s /\ Single(s) \in LoopsOf(r)
        BY <2>2, <2>3 DEF Single
    <2>7. pc'[Single(s)] = "turn"
        BY <1>2, <2>6
    <2>8. paraHeaderSynchedTo'[s] = enclave.para
        BY <2>2, <2>3, <2>5 DEF StartSync, Inv, PositionsTyped
    <2>9. /\ enclave.relay \in Nat /\ enclave.para \in Nat /\ enclave.block \in Nat /\ losses \in Nat
        BY <2>2, PositionsBelow, CostTyped DEF LossInv
    <2>10. Failed(Single(s))' = 0 /\ Behind(Single(s))' = 0 /\ Belief(s)' \in 0..1
        BY <1>1, <2>5, <2>6, <2>7, <2>9 DEF Failed, Behind, Belief, Count
    <2>11. Cardinality(late') = 0
        BY <1>1, <2>5, FS_EmptySet
    <2>12. Failed(Single(s))' + Behind(Single(s))' + Belief(s)' + Cardinality(late') <= 2 * losses' + 1
        BY <1>1, <2>9, <2>10, <2>11
    <2>13. Paid(s)'
        BY <2>7, <2>12 DEF Paid
    <2>14. AsksForHeld(s)'
        BY <1>1, <2>7, <2>8, <2>9 DEF AsksForHeld
    <2> QED BY <2>13, <2>14
<1> QED BY <1>1, <1>4, <1>5, <1>6 DEF LossInv

\* Every step keeps the account.
THEOREM LossesInductive == Spec => []LossInv
<1>1. Inv /\ LossInv /\ [Next]_vars => LossInv'
    <2> SUFFICES ASSUME Inv, LossInv, [Next]_vars PROVE LossInv'
        OBVIOUS
    <2>1. CASE Publish \/ FetchPara \/ UNCHANGED vars
        BY <2>1, LossKept DEF Publish, FetchPara, vars, sourceVars
    <2>2. CASE Rollback \/ \E q \in late : Late(q)
        BY <2>2, RollbackLoss, LateLoss
    <2>3. ASSUME NEW s \in Sessions, UpdateInfo(s) \/ StartSync(s) \/ StopSync(s)
          PROVE  LossInv'
        <3>1. CASE StopSync(s)
            BY <3>1, LossKept DEF StopSync, sourceVars
        <3> QED BY <2>3, <3>1, UpdateInfoLoss, StartSyncLoss
    <2>4. ASSUME NEW s \in Sessions, NEW l \in LoopsOf(s), Works(l) \/ TimedOut(l) \/ NotRenewed(l)
          PROVE  LossInv'
        BY <2>4, TurnLoss, EndsLoss, FetchLoss, HeadersSynchedLoss, BlocksDispatchedLoss, RequestRefusedLoss,
           TimedOutLoss, RepeatLoss, ThrowFatalLoss DEF Works
    <2> QED BY <2>1, <2>2, <2>3, <2>4 DEF Next
<1> QED BY <1>1, InitLoss, Inductive, PTL DEF Spec

\* However many losses there are, a single loop that has the enclave for itself is given up
\* only when they account for its attempts.
THEOREM LossesSurvived == Spec => []LossesAreSurvived
<1>1. Inv /\ LossInv => LossesAreSurvived
    <2> SUFFICES ASSUME Inv, LossInv, NEW l \in Loops, rollbacks = 0, ~legacy, Alone(l[1]), pc[l] = "fatal"
                 PROVE  2 * losses + 1 >= Retries + 2
        BY DEF LossesAreSurvived
    <2>1. l = Single(l[1]) /\ l[1] \in Sessions
        BY DEF LossInv, Single
    <2>2. Paid(l[1])
        BY <2>1 DEF LossInv, Lonely
    <2>3. losses \in Nat /\ Retries \in Nat
        BY <2>1, CostTyped DEF LossInv
    <2> QED BY <2>1, <2>2, <2>3 DEF Paid
<1> QED BY <1>1, Inductive, LossesInductive, PTL
===============================================================================
