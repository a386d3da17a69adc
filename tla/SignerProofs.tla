---------------------------- MODULE SignerProofs ----------------------------
(***************************************************************************)
(* Why every state of the signer has the types of TypeOK, why seeding a    *)
(* staged floor never lowers a mark, when the device may sign a position   *)
(* twice whichever writes fail, and what a power loss costs.               *)
(*                                                                         *)
(* The inductive invariant has two parts.  TypeInv adds to the types who   *)
(* may be where while the write lock is held.  SafetyInv says what each    *)
(* thread in a critical section knows about its slot, and what of a claimed *)
(* ceiling is still true after the write of a mark over it failed; the     *)
(* refinement of SignerPromise follows from it.                            *)
(***************************************************************************)
EXTENDS Signer, WellFoundedInduction, TLAPS

-----------------------------------------------------------------------------
(* The order on marks. *)

(* The order of marks (level, then round) is transitive.                    *)
LEMMA AtMostTrans ==
    ASSUME NEW a \in Mark, NEW b \in Mark, NEW c \in Mark,
           AtMost(a, b), AtMost(b, c)
    PROVE  AtMost(a, c)
  BY MaxAssumption DEF Mark, Level, AtMost

(* A mark below another is at most it, and differs from it.                 *)
LEMMA BelowIsStrict ==
    ASSUME NEW a \in Mark, NEW b \in Mark, Below(a, b)
    PROVE  AtMost(a, b) /\ ~ AtMost(b, a) /\ a # b
  BY MaxAssumption DEF Mark, Level, AtMost, Below

(* Marks are totally ordered.                                               *)
LEMMA NotBelow ==
    ASSUME NEW a \in Mark, NEW b \in Mark, ~ Below(a, b)
    PROVE  AtMost(b, a)
  BY MaxAssumption DEF Mark, Level, AtMost, Below

(* check_and_update accepts only a position above an existing mark.         *)
LEMMA AcceptsAbove ==
    ASSUME NEW current \in OptMark, NEW m \in Mark, Accepts(current, m)
    PROVE  current \in Mark /\ Below(current, m)
  BY MaxAssumption DEF OptMark, Mark, Level, Accepts, Below

(* ceiling_covers is the order of marks, and decides between ceiling and    *)
(* mark.                                                                    *)
LEMMA CoversIsAtMost ==
    ASSUME NEW ceiling \in OptMark, NEW m \in Mark
    PROVE  /\ CeilingCovers(ceiling, m) => ceiling \in Mark /\ AtMost(m, ceiling)
           /\ ~ CeilingCovers(ceiling, m) /\ ceiling # NoMark => AtMost(ceiling, m)
  BY MaxAssumption DEF OptMark, Mark, Level, CeilingCovers, AtMost

(* Floors and ceilings are marks; a ceiling is above all of its level.      *)
LEMMA FloorAndCeiling ==
    ASSUME NEW level \in Level
    PROVE  /\ FloorAt(level) \in Mark
           /\ CeilingAt(level) \in Mark
           /\ FloorAt(level) # NoMark /\ CeilingAt(level) # NoMark
           /\ \A m \in Mark : m.level <= level => AtMost(m, CeilingAt(level))
  BY MaxAssumption, NoMarkAssumption
  DEF Mark, Level, FloorAt, CeilingAt, AtMost

(* A write under way leaves the new mark or a record that does not verify.  *)
LEMMA InFlightIsMark ==
    ASSUME NEW m \in Mark
    PROVE  InFlight(m) \subseteq {m, NoMark}
  BY DEF InFlight

-----------------------------------------------------------------------------
(* The inductive strengthening of TypeOK. *)
TypeInv == TypeOK /\ RequestInv /\ LockInv

(* What a sign request carries.                                             *)
LEMMA RequestType ==
    ASSUME NEW r \in Requests
    PROVE  r.slot \in Slots /\ r.mark \in Mark /\ r.mark.level \in Level
           /\ r.slot[1] \in Keys
  BY RequestAssumption DEF Mark, Slots

(* The record of an operator's update under way is one, and not None.       *)
LEMMA UpdateIsSome ==
    ASSUME NEW k \in Keys, NEW level \in Level, NEW op \in Ops,
           NEW stage \in {"pwrite", "sync"}
    PROVE  /\ [key |-> k, level |-> level, op |-> op, stage |-> stage] \in Update
           /\ [key |-> k, level |-> level, op |-> op, stage |-> stage] # None
  BY NoneAssumption DEF Update

(* Recording a signature keeps the types of the histories.                  *)
LEMMA SignHistoryType ==
    ASSUME HistoryTypeOK, NEW s \in Slots, NEW m \in Mark
    PROVE  /\ [issued EXCEPT ![s] = @ \cup {m}] \in [Slots -> SUBSET Mark]
           /\ [doubled EXCEPT ![s] = @ \/ m \in issued[s]] \in [Slots -> BOOLEAN]
  <1>1. (doubled[s] \/ m \in issued[s]) \in BOOLEAN
    OBVIOUS
  <1>2. [doubled EXCEPT ![s] = @ \/ m \in issued[s]] \in [Slots -> BOOLEAN]
    BY <1>1, Zenon DEF HistoryTypeOK
  <1> QED
    BY <1>2 DEF HistoryTypeOK

(* What the histories know of claimed ceilings keeps its types.             *)
LEMMA TrustType ==
    ASSUME HistoryTypeOK, NEW s \in Slots,
           \/ OverwriteFailed(s)
           \/ Settled(s)
           \/ UNCHANGED trust
           \/ /\ risked' = [risked EXCEPT ![s] = @ \/ doubt[s]]
              /\ UNCHANGED doubt
    PROVE  doubt' \in [Slots -> BOOLEAN] /\ risked' \in [Slots -> BOOLEAN]
  <1>1. (risked[s] \/ doubt[s]) \in BOOLEAN /\ (doubt[s] \/ diskCeiling[s] # NoMark) \in BOOLEAN
    OBVIOUS
  <1>2. /\ [risked EXCEPT ![s] = @ \/ doubt[s]] \in [Slots -> BOOLEAN]
        /\ [doubt EXCEPT ![s] = @ \/ diskCeiling[s] # NoMark] \in [Slots -> BOOLEAN]
        /\ [doubt EXCEPT ![s] = FALSE] \in [Slots -> BOOLEAN]
    BY <1>1, Zenon DEF HistoryTypeOK
  <1> QED
    BY <1>2 DEF HistoryTypeOK, OverwriteFailed, Settled, trust

(* A signature on a doubted ceiling is marked as risked, and no mark of it   *)
(* is taken back.                                                           *)
LEMMA RiskGrows ==
    ASSUME HistoryTypeOK, NEW s \in Slots,
           risked' = [risked EXCEPT ![s] = @ \/ doubt[s]]
    PROVE  /\ \A x \in Slots : risked[x] => risked'[x]
           /\ \A x \in Slots : x # s => risked'[x] = risked[x]
           /\ doubt[s] => risked'[s]
  <1>1. risked'[s] = (risked[s] \/ doubt[s])
    BY Zenon DEF HistoryTypeOK
  <1>2. \A x \in Slots : x # s => risked'[x] = risked[x]
    BY DEF HistoryTypeOK
  <1> QED
    BY <1>1, <1>2, Zenon

(* A signature repeats a position only of its own slot.                      *)
LEMMA DoubledGrows ==
    ASSUME HistoryTypeOK, NEW s \in Slots, NEW m,
           doubled' = [doubled EXCEPT ![s] = @ \/ m \in issued[s]]
    PROVE  \A x \in Slots : doubled'[x] => doubled[x] \/ (x = s /\ m \in issued[s])
  <1>1. doubled'[s] = (doubled[s] \/ m \in issued[s])
    BY Zenon DEF HistoryTypeOK
  <1>2. \A x \in Slots : x # s => doubled'[x] = doubled[x]
    BY DEF HistoryTypeOK
  <1> QED
    BY <1>1, <1>2, Zenon

(* A function that may only have become TRUE at one place.                   *)
LEMMA RaisedAt ==
    ASSUME NEW f \in [Slots -> BOOLEAN], NEW g \in [Slots -> BOOLEAN], NEW s \in Slots,
           \A x \in Slots : x # s => g[x] = f[x],
           f[s] => g[s]
    PROVE  g \in {f, [f EXCEPT ![s] = TRUE]}
  <1>1. g[s] = f[s] \/ (g[s] = TRUE /\ f[s] = FALSE)
    OBVIOUS
  <1>2. CASE g[s] = f[s]
    <2>1. \A x \in Slots : g[x] = f[x]
      BY <1>2
    <2> QED
      BY <2>1
  <1>3. CASE g[s] = TRUE
    <2>1. \A x \in Slots : g[x] = [f EXCEPT ![s] = TRUE][x]
      BY <1>3
    <2> QED
      BY <2>1
  <1> QED
    BY <1>1, <1>2, <1>3

(* A scheduled ceiling is not None.                                         *)
LEMMA JobIsSome == ASSUME NEW j \in Job PROVE j # None
  BY NoneAssumption DEF Job

(* The type invariant holds when the device is switched on.                 *)
LEMMA TypeInit == Init => TypeInv
  BY NoMarkAssumption, ThreadAssumption
  DEF Init, TypeInv, TypeOK, StoreTypeOK, BootTypeOK, ConnTypeOK, LockTypeOK,
      UiTypeOK, HistoryTypeOK, RequestInv, LockInv, NoMarks,
      OptMark, Points, Holding, NoDialog

(* Typing, with what it rests on: a handler keeps its request, and the lock *)
(* is held by the thread that is inside its critical section.               *)
LEMMA TypeNext == TypeInv /\ [Next]_vars => TypeInv'
  <1> SUFFICES ASSUME TypeInv, [Next]_vars
               PROVE  TypeInv'
    OBVIOUS
  <1> USE NoMarkAssumption, ThreadAssumption
  <1> USE DEF TypeInv, TypeOK, bootVars, connVars, uiVars, history, trust, storeVars
  <1>1. ASSUME NEW c \in Conns, CheckAndUpdate(c)
        PROVE  TypeInv'
    <2>1. req[c] \in Requests /\ S(c) \in Slots /\ M(c) \in Mark
      BY <1>1, RequestType DEF RequestInv, S, M, CheckAndUpdate
    <2>2. StoreTypeOK'
      BY <1>1, <2>1 DEF StoreTypeOK, OptMark, CheckAndUpdate
    <2>3. ConnTypeOK'
      <3>1. entries[S(c)] \in OptMark
        BY <2>1 DEF StoreTypeOK
      <3>2. ASSUME NEW point \in Points, pc' = [pc EXCEPT ![c] = point]
            PROVE  pc' \in [Conns -> Points]
        BY <3>2 DEF ConnTypeOK
      <3>3. pc' \in [Conns -> Points]
        BY <1>1, <3>2 DEF CheckAndUpdate, Return, Points
      <3> QED
        BY <1>1, <2>1, <3>1, <3>3 DEF ConnTypeOK, OptMark, CheckAndUpdate, Return
    <2>4. LockTypeOK'
      BY <1>1, <2>1 DEF LockTypeOK, CheckAndUpdate
    <2>5. BootTypeOK' /\ UiTypeOK' /\ HistoryTypeOK'
      BY <1>1 DEF BootTypeOK, UiTypeOK, HistoryTypeOK, CheckAndUpdate,
         Return
    <2>6. RequestInv'
      BY <1>1, <2>1 DEF RequestInv, BootTypeOK, ConnTypeOK, CheckAndUpdate,
         Return
    <2>7. LockInv'
      BY <1>1, <2>1 DEF LockInv, Holding, ConnTypeOK, Points, LockTypeOK,
         CheckAndUpdate, Return
    <2> QED
      BY <2>2, <2>3, <2>4, <2>5, <2>6, <2>7
  <1>2. ASSUME NEW c \in Conns, SignCovered(c)
        PROVE  TypeInv'
    <2>1. req[c] \in Requests /\ S(c) \in Slots /\ M(c) \in Mark
      BY <1>2, RequestType DEF RequestInv, S, M, SignCovered
    <2>2. StoreTypeOK'
      BY <1>2, <2>1 DEF StoreTypeOK, OptMark, SignCovered, ConnTypeOK, Sign,
         SignFailed, Rollback
    <2>3. ConnTypeOK'
      BY <1>2, <2>1 DEF ConnTypeOK, Points, OptMark, SignCovered, Sign,
         SignFailed, Goto
    <2>4. LockTypeOK'
      BY <1>2, <2>1 DEF LockTypeOK, SignCovered, Sign, SignFailed
    <2>5. HistoryTypeOK'
      <3>1. UNCHANGED history \/ Sign(c)
        BY <1>2 DEF SignCovered, SignFailed
      <3>2. doubt' \in [Slots -> BOOLEAN] /\ risked' \in [Slots -> BOOLEAN]
        BY <1>2, <2>1, TrustType DEF SignCovered
      <3>3. CASE Sign(c)
        BY <2>1, <3>2, <3>3, SignHistoryType DEF Sign, HistoryTypeOK
      <3> QED
        BY <3>1, <3>2, <3>3 DEF HistoryTypeOK
    <2>6. BootTypeOK' /\ UiTypeOK'
      BY <1>2 DEF BootTypeOK, UiTypeOK, SignCovered, ConnTypeOK, Goto,
         Rollback, Sign, SignFailed
    <2>7. RequestInv'
      BY <1>2, <2>1 DEF RequestInv, BootTypeOK, ConnTypeOK, SignCovered,
         Sign, SignFailed, Goto
    <2>8. LockInv'
      BY <1>2, <2>1 DEF LockInv, Holding, ConnTypeOK, Points, LockTypeOK,
         SignCovered, Sign, SignFailed, Goto
    <2> QED
      BY <2>2, <2>3, <2>4, <2>5, <2>6, <2>7, <2>8
  <1>3. ASSUME NEW c \in Conns, WriteMark(c)
        PROVE  TypeInv'
    <2>1. req[c] \in Requests /\ S(c) \in Slots /\ M(c) \in Mark
      BY <1>3, RequestType DEF RequestInv, S, M, WriteMark
    <2>2. StoreTypeOK'
      BY <1>3, <2>1, InFlightIsMark DEF StoreTypeOK, OptMark, WriteMark,
         ConnTypeOK, Pwrite, Refuse, Rollback
    <2>3. ConnTypeOK'
      BY <1>3, <2>1 DEF ConnTypeOK, Points, OptMark, WriteMark, Goto,
         Refuse, Return
    <2>4. LockTypeOK'
      BY <1>3, <2>1 DEF LockTypeOK, WriteMark, Refuse
    <2>5. HistoryTypeOK'
      BY <1>3, <2>1 DEF HistoryTypeOK, WriteMark, Refuse
    <2>6. BootTypeOK' /\ UiTypeOK'
      BY <1>3 DEF BootTypeOK, UiTypeOK, WriteMark, ConnTypeOK, Goto, Pwrite,
         Refuse, Return, Rollback
    <2>7. RequestInv'
      BY <1>3, <2>1 DEF RequestInv, BootTypeOK, ConnTypeOK, WriteMark, Goto,
         Refuse, Return
    <2>8. LockInv'
      BY <1>3, <2>1 DEF LockInv, Holding, ConnTypeOK, Points, LockTypeOK,
         WriteMark, Goto, Refuse, Return
    <2> QED
      BY <2>2, <2>3, <2>4, <2>5, <2>6, <2>7, <2>8
  <1>4. ASSUME NEW c \in Conns, SyncMark(c)
        PROVE  TypeInv'
    <2>1. req[c] \in Requests /\ S(c) \in Slots /\ M(c) \in Mark
      BY <1>4, RequestType DEF RequestInv, S, M, SyncMark
    <2>2. StoreTypeOK'
      BY <1>4, <2>1 DEF StoreTypeOK, OptMark, SyncMark, ConnTypeOK,
         MarkSynced, Sign, SignFailed, Refuse, Rollback
    <2>3. ConnTypeOK'
      BY <1>4, <2>1 DEF ConnTypeOK, Points, OptMark, SyncMark, Sign,
         SignFailed, Goto, Refuse, Return
    <2>4. LockTypeOK'
      BY <1>4, <2>1 DEF LockTypeOK, SyncMark, Sign, SignFailed, Refuse
    <2>5. HistoryTypeOK'
      <3>1. UNCHANGED history \/ Sign(c)
        BY <1>4 DEF SyncMark, SignFailed, Refuse
      <3>2. doubt' \in [Slots -> BOOLEAN] /\ risked' \in [Slots -> BOOLEAN]
        BY <1>4, <2>1, TrustType DEF SyncMark
      <3>3. CASE Sign(c)
        BY <2>1, <3>2, <3>3, SignHistoryType DEF Sign, HistoryTypeOK
      <3> QED
        BY <3>1, <3>2, <3>3 DEF HistoryTypeOK
    <2>6. BootTypeOK' /\ UiTypeOK'
      BY <1>4 DEF BootTypeOK, UiTypeOK, SyncMark, ConnTypeOK, Goto,
         MarkSynced, Refuse, Return, Rollback, Sign, SignFailed
    <2>7. RequestInv'
      BY <1>4, <2>1 DEF RequestInv, BootTypeOK, ConnTypeOK, SyncMark, Sign,
         SignFailed, Goto, Refuse, Return
    <2>8. LockInv'
      BY <1>4, <2>1 DEF LockInv, Holding, ConnTypeOK, Points, LockTypeOK,
         SyncMark, Sign, SignFailed, Goto, Refuse, Return
    <2> QED
      BY <2>2, <2>3, <2>4, <2>5, <2>6, <2>7, <2>8
  <1>5. ASSUME NEW c \in Conns, UndoWrite(c)
        PROVE  TypeInv'
    <2>1. req[c] \in Requests /\ S(c) \in Slots /\ M(c) \in Mark
      BY <1>5, RequestType DEF RequestInv, S, M, UndoWrite
    <2>2. StoreTypeOK'
      BY <1>5, <2>1 DEF StoreTypeOK, OptMark, UndoWrite, ConnTypeOK, Pwrite,
         InFlight
    <2>3. ConnTypeOK'
      BY <1>5, <2>1 DEF ConnTypeOK, Points, OptMark, UndoWrite, Goto, Return
    <2>4. LockTypeOK'
      BY <1>5, <2>1 DEF LockTypeOK, UndoWrite
    <2>5. BootTypeOK' /\ UiTypeOK' /\ HistoryTypeOK'
      <3>1. doubt' \in [Slots -> BOOLEAN] /\ risked' \in [Slots -> BOOLEAN]
        BY <1>5, <2>1, TrustType DEF UndoWrite
      <3> QED
        BY <1>5, <3>1 DEF BootTypeOK, UiTypeOK, HistoryTypeOK, UndoWrite
    <2>6. RequestInv'
      BY <1>5, <2>1 DEF RequestInv, BootTypeOK, ConnTypeOK, UndoWrite, Goto,
         Return
    <2>7. LockInv'
      BY <1>5, <2>1 DEF LockInv, Holding, ConnTypeOK, Points, LockTypeOK,
         UndoWrite, Goto, Return
    <2> QED
      BY <2>2, <2>3, <2>4, <2>5, <2>6, <2>7
  <1>6. ASSUME NEW c \in Conns, UndoSync(c)
        PROVE  TypeInv'
    <2>1. req[c] \in Requests /\ S(c) \in Slots /\ M(c) \in Mark
      BY <1>6, RequestType DEF RequestInv, S, M, UndoSync
    <2>2. StoreTypeOK'
      BY <1>6, <2>1 DEF StoreTypeOK, OptMark, UndoSync, ConnTypeOK,
         MarkSynced
    <2>3. ConnTypeOK'
      BY <1>6, <2>1 DEF ConnTypeOK, Points, OptMark, UndoSync, Return
    <2>4. LockTypeOK'
      BY <1>6, <2>1 DEF LockTypeOK, UndoSync
    <2>5. BootTypeOK' /\ UiTypeOK' /\ HistoryTypeOK'
      <3>1. doubt' \in [Slots -> BOOLEAN] /\ risked' \in [Slots -> BOOLEAN]
        BY <1>6, <2>1, TrustType DEF UndoSync
      <3> QED
        BY <1>6, <3>1 DEF BootTypeOK, UiTypeOK, HistoryTypeOK, UndoSync
    <2>6. RequestInv'
      BY <1>6, <2>1 DEF RequestInv, BootTypeOK, ConnTypeOK, UndoSync, Return
    <2>7. LockInv'
      BY <1>6, <2>1 DEF LockInv, Holding, ConnTypeOK, Points, LockTypeOK,
         UndoSync, Return
    <2> QED
      BY <2>2, <2>3, <2>4, <2>5, <2>6, <2>7
  <1>7. ASSUME NEW c \in Conns, Respond(c)
        PROVE  TypeInv'
    <2>1. req[c] \in Requests /\ S(c) \in Slots /\ M(c) \in Mark
      BY <1>7, RequestType DEF RequestInv, S, M, Respond
    <2>2. M(c).level < MaxLevel => [slot |-> S(c), level |-> M(c).level + 1] \in Job
      BY <1>7, <2>1, MaxAssumption DEF Job, Level, Mark
    <2>3. ConnTypeOK'
      BY <1>7, <2>1, <2>2 DEF ConnTypeOK, Points, OptMark, Respond, Return
    <2>4. LockTypeOK'
      BY <1>7, <2>1, <2>2 DEF LockTypeOK, Respond, Schedule
    <2>5. StoreTypeOK' /\ BootTypeOK' /\ UiTypeOK' /\ HistoryTypeOK'
      BY <1>7 DEF StoreTypeOK, BootTypeOK, UiTypeOK, HistoryTypeOK, Respond,
         Return, Schedule
    <2>6. RequestInv'
      BY <1>7, <2>1, <2>2 DEF RequestInv, BootTypeOK, ConnTypeOK, Respond,
         Return
    <2>7. LockInv'
      BY <1>7, <2>1, <2>2 DEF LockInv, Holding, ConnTypeOK, Points,
         LockTypeOK, Respond, Schedule, Return
    <2> QED
      BY <2>3, <2>4, <2>5, <2>6, <2>7
  <1>8. ASSUME NEW c \in Conns, NEW r \in Requests, Precheck(c, r)
        PROVE  TypeInv'
    <2>1. [kind |-> "alert", key |-> r.slot[1], level |-> r.mark.level] \in Event
      BY <1>8, RequestType DEF Event
    <2>2. ConnTypeOK'
      BY <1>8, <2>1 DEF ConnTypeOK, Points, OptMark, Precheck
    <2>3. UiTypeOK'
      BY <1>8, <2>1 DEF UiTypeOK, Precheck
    <2>4. StoreTypeOK' /\ BootTypeOK' /\ LockTypeOK' /\ HistoryTypeOK'
      BY <1>8 DEF StoreTypeOK, BootTypeOK, LockTypeOK, HistoryTypeOK,
         Precheck
    <2>5. RequestInv'
      BY <1>8, <2>1 DEF RequestInv, BootTypeOK, ConnTypeOK, Precheck
    <2>6. LockInv'
      BY <1>8, <2>1 DEF LockInv, Holding, ConnTypeOK, Points, LockTypeOK,
         Precheck
    <2> QED
      BY <2>2, <2>3, <2>4, <2>5, <2>6
  <1>9. ASSUME NEW t \in Ceilers, CeilingWrite(t)
        PROVE  TypeInv'
    <2>1. /\ jobs[t] \in Job /\ jobs[t].slot \in Slots
          /\ CeilingAt(jobs[t].level) \in Mark
      BY <1>9, FloorAndCeiling DEF CeilingWrite, LockTypeOK, Job
    <2>2. StoreTypeOK'
      BY <1>9, <2>1, InFlightIsMark DEF StoreTypeOK, OptMark, CeilingWrite,
         Pwrite
    <2>3. LockTypeOK'
      BY <1>9, <2>1 DEF LockTypeOK, CeilingWrite
    <2>4. BootTypeOK' /\ ConnTypeOK' /\ UiTypeOK' /\ HistoryTypeOK'
      BY <1>9 DEF BootTypeOK, ConnTypeOK, UiTypeOK, HistoryTypeOK,
         CeilingWrite, Pwrite
    <2>5. RequestInv'
      BY <1>9, <2>1 DEF RequestInv, BootTypeOK, ConnTypeOK, CeilingWrite
    <2>6. LockInv'
      BY <1>9, <2>1 DEF LockInv, Holding, ConnTypeOK, Points, LockTypeOK,
         CeilingWrite
    <2> QED
      BY <2>2, <2>3, <2>4, <2>5, <2>6
  <1>10. ASSUME NEW t \in Ceilers, CeilingSync(t)
        PROVE  TypeInv'
    <2>1. /\ jobs[t] \in Job /\ jobs[t].slot \in Slots
          /\ CeilingAt(jobs[t].level) \in Mark
      BY <1>10, FloorAndCeiling DEF CeilingSync, LockTypeOK, LockInv, Job
    <2>2. StoreTypeOK'
      BY <1>10, <2>1 DEF StoreTypeOK, OptMark, CeilingSync, CeilingSynced
    <2>3. LockTypeOK'
      BY <1>10, <2>1 DEF LockTypeOK, CeilingSync
    <2>4. BootTypeOK' /\ ConnTypeOK' /\ UiTypeOK' /\ HistoryTypeOK'
      <3>1. doubt' \in [Slots -> BOOLEAN] /\ risked' \in [Slots -> BOOLEAN]
        BY <1>10, <2>1, TrustType DEF CeilingSync
      <3> QED
        BY <1>10, <3>1 DEF BootTypeOK, ConnTypeOK, UiTypeOK, HistoryTypeOK,
           CeilingSync
    <2>5. RequestInv'
      BY <1>10, <2>1 DEF RequestInv, BootTypeOK, ConnTypeOK, CeilingSync
    <2>6. LockInv'
      BY <1>10, <2>1 DEF LockInv, Holding, ConnTypeOK, Points, LockTypeOK,
         CeilingSync
    <2> QED
      BY <2>2, <2>3, <2>4, <2>5, <2>6
  <1>11. ASSUME UpdateWrite
        PROVE  TypeInv'
    <2>1. /\ upd \in Update /\ <<upd.key, upd.op>> \in Slots
          /\ FloorAt(upd.level) \in Mark
      BY <1>11, FloorAndCeiling DEF UpdateWrite, LockTypeOK, Update, Slots
    <2>2. [upd EXCEPT !.stage = "sync"] \in Update
          /\ [upd EXCEPT !.stage = "sync"] # None
      BY <1>11, <2>1, NoneAssumption DEF Update
    <2>3. lock = Ui
      BY <1>11, <2>1, <2>2 DEF LockInv, UpdateWrite
    <2>4. StoreTypeOK'
      BY <1>11, <2>1, <2>2, <2>3, InFlightIsMark DEF StoreTypeOK, OptMark,
         UpdateWrite, Pwrite
    <2>5. BootTypeOK'
      BY <1>11, <2>1, <2>2, <2>3 DEF BootTypeOK, UpdateWrite, UpdateEnd
    <2>6. LockTypeOK'
      BY <1>11, <2>1, <2>2, <2>3 DEF LockTypeOK, UpdateWrite, UpdateEnd
    <2>7. UiTypeOK'
      BY <1>11, <2>1, <2>2, <2>3 DEF UiTypeOK, UpdateWrite, UpdateEnd, Event
    <2>8. ConnTypeOK' /\ HistoryTypeOK'
      <3>1. doubt' \in [Slots -> BOOLEAN] /\ risked' \in [Slots -> BOOLEAN]
        BY <1>11, <2>1, TrustType DEF UpdateWrite
      <3> QED
        BY <1>11, <3>1 DEF ConnTypeOK, HistoryTypeOK, UpdateWrite
    <2>9. RequestInv'
      BY <1>11, <2>1, <2>2, <2>3 DEF RequestInv, BootTypeOK, ConnTypeOK,
         UpdateWrite, UpdateEnd
    <2>10. LockInv'
      BY <1>11, <2>1, <2>2, <2>3 DEF LockInv, Holding, ConnTypeOK, Points,
         LockTypeOK, UpdateWrite, UpdateEnd
    <2> QED
      BY <2>4, <2>5, <2>6, <2>7, <2>8, <2>9, <2>10
  <1>12. ASSUME UpdateSync
        PROVE  TypeInv'
    <2>1. /\ upd \in Update /\ <<upd.key, upd.op>> \in Slots
          /\ FloorAt(upd.level) \in Mark
      BY <1>12, FloorAndCeiling DEF UpdateSync, LockTypeOK, Update, Slots
    <2>2. upd.op + 1 < NumOps => upd.op + 1 \in Ops
      BY <1>12, <2>1, NumOpsAssumption DEF Update, Ops
    <2>3. upd.op + 1 < NumOps =>
            [upd EXCEPT !.op = @ + 1, !.stage = "pwrite"] \in Update
      BY <2>1, <2>2 DEF Update
    <2>4. upd.op + 1 < NumOps =>
            [upd EXCEPT !.op = @ + 1, !.stage = "pwrite"] # None
      BY <2>3, NoneAssumption DEF Update
    <2>5. lock = Ui
      BY <1>12 DEF LockInv, UpdateSync
    <2>6. StoreTypeOK'
      <3>1. \/ UNCHANGED <<diskCeiling, diskEntries, disk>>
            \/ MarkSynced(<<upd.key, upd.op>>, FloorAt(upd.level))
        BY <1>12 DEF UpdateSync
      <3>2. UNCHANGED entries
        BY <1>12 DEF UpdateSync
      <3> QED
        BY <2>1, <3>1, <3>2 DEF StoreTypeOK, OptMark, MarkSynced
    <2>7. BootTypeOK'
      BY <1>12 DEF BootTypeOK, UpdateSync, UpdateEnd
    <2>8. LockTypeOK'
      BY <1>12, <2>3 DEF LockTypeOK, UpdateSync, UpdateEnd
    <2>9. UiTypeOK'
      <3>1. \/ UNCHANGED <<queue, dialog>>
            \/ UpdateEnd(TRUE) \/ UpdateEnd(FALSE)
        BY <1>12 DEF UpdateSync
      <3>2. Menu \in Event
        BY DEF Event
      <3>3. Append(queue, Menu) \in Seq(Event)
        BY <3>2 DEF UiTypeOK
      <3> QED
        BY <3>1, <3>3 DEF UpdateEnd, UiTypeOK
    <2>10. ConnTypeOK' /\ HistoryTypeOK'
      <3>1. doubt' \in [Slots -> BOOLEAN] /\ risked' \in [Slots -> BOOLEAN]
        BY <1>12, <2>1, TrustType DEF UpdateSync
      <3> QED
        BY <1>12, <3>1 DEF ConnTypeOK, HistoryTypeOK, UpdateSync
    <2>11. RequestInv'
      BY <1>12, <2>1, <2>2, <2>3, <2>4, <2>5 DEF RequestInv, BootTypeOK,
         ConnTypeOK, UpdateSync, UpdateEnd
    <2>12. LockInv'
      BY <1>12, <2>1, <2>2, <2>3, <2>4, <2>5 DEF LockInv, Holding,
         ConnTypeOK, Points, LockTypeOK, UpdateSync, UpdateEnd
    <2> QED
      BY <2>6, <2>7, <2>8, <2>9, <2>10, <2>11, <2>12
  <1>13. ASSUME HandleAlert
        PROVE  TypeInv'
    <2>1. Head(queue) \in Event /\ Tail(queue) \in Seq(Event)
      BY <1>13 DEF HandleAlert, UiTypeOK
    <2>2. Head(queue) \in [kind : {"alert", "update"}, key : Keys, level : Level]
      BY <1>13, <2>1 DEF HandleAlert, Event, Menu
    <2>3. UiTypeOK'
      BY <1>13, <2>1, <2>2 DEF UiTypeOK, HandleAlert, ConfirmDialog
    <2>4. StoreTypeOK' /\ BootTypeOK' /\ ConnTypeOK' /\ LockTypeOK' /\ HistoryTypeOK'
      BY <1>13 DEF StoreTypeOK, BootTypeOK, ConnTypeOK, LockTypeOK,
         HistoryTypeOK, HandleAlert, ConfirmDialog
    <2>5. RequestInv'
      BY <1>13, <2>1, <2>2 DEF RequestInv, BootTypeOK, ConnTypeOK,
         HandleAlert
    <2>6. LockInv'
      BY <1>13, <2>1, <2>2 DEF LockInv, Holding, ConnTypeOK, Points,
         LockTypeOK, HandleAlert
    <2> QED
      BY <2>3, <2>4, <2>5, <2>6
  <1>14. ASSUME HandleUpdate
        PROVE  TypeInv'
    <2>1. Head(queue) \in Event /\ Tail(queue) \in Seq(Event)
      BY <1>14 DEF HandleUpdate, UiTypeOK
    <2>2. Head(queue) \in [kind : {"alert", "update"}, key : Keys, level : Level]
      BY <1>14, <2>1 DEF HandleUpdate, Event, Menu
    <2>3. 0 \in Ops
      BY <1>14, <2>1, <2>2, NumOpsAssumption DEF Ops
    <2>4. upd' \in Update /\ upd' # None /\ lock' = Ui
      BY <1>14, <2>1, <2>2, <2>3, UpdateIsSome DEF HandleUpdate, UpdateBegin
    <2>5. StoreTypeOK'
      BY <1>14, <2>1, <2>2, <2>3, <2>4, FloorAndCeiling DEF StoreTypeOK,
         OptMark, HandleUpdate, UpdateBegin, SetFloorInMemory
    <2>6. LockTypeOK'
      BY <1>14, <2>1, <2>2, <2>3, <2>4 DEF LockTypeOK, HandleUpdate,
         UpdateBegin
    <2>7. UiTypeOK'
      BY <1>14, <2>1, <2>2, <2>3, <2>4 DEF UiTypeOK, HandleUpdate,
         UpdateBegin
    <2>8. HistoryTypeOK'
      BY <1>14, <2>1, <2>2, <2>3, <2>4 DEF HistoryTypeOK, HandleUpdate,
         UpdateBegin
    <2>9. BootTypeOK' /\ ConnTypeOK'
      BY <1>14 DEF BootTypeOK, ConnTypeOK, HandleUpdate, SetFloorInMemory,
         UpdateBegin
    <2>10. RequestInv'
      BY <1>14, <2>1, <2>2, <2>3, <2>4 DEF RequestInv, BootTypeOK,
         ConnTypeOK, HandleUpdate
    <2>11. LockInv'
      BY <1>14, <2>1, <2>2, <2>3, <2>4 DEF LockInv, Holding, ConnTypeOK,
         Points, LockTypeOK, HandleUpdate
    <2> QED
      BY <2>5, <2>6, <2>7, <2>8, <2>9, <2>10, <2>11
  <1>15. ASSUME HandleMenu
        PROVE  TypeInv'
    <2>1. Head(queue) \in Event /\ Tail(queue) \in Seq(Event)
      BY <1>15 DEF HandleMenu, UiTypeOK
    <2>2. UiTypeOK'
      BY <1>15, <2>1 DEF UiTypeOK, HandleMenu
    <2>3. StoreTypeOK' /\ BootTypeOK' /\ ConnTypeOK' /\ LockTypeOK' /\ HistoryTypeOK'
      BY <1>15 DEF StoreTypeOK, BootTypeOK, ConnTypeOK, LockTypeOK,
         HistoryTypeOK, HandleMenu
    <2>4. RequestInv'
      BY <1>15, <2>1 DEF RequestInv, BootTypeOK, ConnTypeOK, HandleMenu
    <2>5. LockInv'
      BY <1>15, <2>1 DEF LockInv, Holding, ConnTypeOK, Points, LockTypeOK,
         HandleMenu
    <2> QED
      BY <2>2, <2>3, <2>4, <2>5
  <1>16. ASSUME Tap
        PROVE  TypeInv'
    <2>1. dialog.kind = "confirm" =>
          [kind |-> "update", key |-> dialog.key, level |-> dialog.level] \in Event
      BY <1>16 DEF UiTypeOK, ConfirmDialog, NoDialog, ErrorDialog, Event
    <2>2. Menu \in Event
      BY <1>16, <2>1 DEF Event
    <2>3. UiTypeOK'
      BY <1>16, <2>1, <2>2 DEF UiTypeOK, Tap
    <2>4. StoreTypeOK' /\ BootTypeOK' /\ ConnTypeOK' /\ LockTypeOK' /\ HistoryTypeOK'
      BY <1>16 DEF StoreTypeOK, BootTypeOK, ConnTypeOK, LockTypeOK,
         HistoryTypeOK, Tap
    <2>5. RequestInv'
      BY <1>16, <2>1, <2>2 DEF RequestInv, BootTypeOK, ConnTypeOK, Tap
    <2>6. LockInv'
      BY <1>16, <2>1, <2>2 DEF LockInv, Holding, ConnTypeOK, Points,
         LockTypeOK, Tap
    <2> QED
      BY <2>3, <2>4, <2>5, <2>6
  <1>17. ASSUME NEW level \in ConfigLevels, StageConfig(level)
        PROVE  TypeInv'
    <2>1. BootTypeOK'
      BY <1>17, ConfigAssumption DEF BootTypeOK, StageConfig
    <2>2. StoreTypeOK' /\ ConnTypeOK' /\ LockTypeOK' /\ UiTypeOK' /\ HistoryTypeOK'
      BY <1>17 DEF StoreTypeOK, ConnTypeOK, LockTypeOK, UiTypeOK,
         HistoryTypeOK, StageConfig
    <2>3. RequestInv'
      BY <1>17 DEF RequestInv, BootTypeOK, ConnTypeOK, StageConfig
    <2>4. LockInv'
      BY <1>17 DEF LockInv, Holding, ConnTypeOK, Points, LockTypeOK,
         StageConfig
    <2> QED
      BY <2>1, <2>2, <2>3, <2>4
  <1>18. ASSUME Boot
        PROVE  TypeInv'
    <2>1. BootTypeOK'
      BY <1>18 DEF BootTypeOK, Boot
    <2>2. StoreTypeOK' /\ ConnTypeOK' /\ LockTypeOK' /\ UiTypeOK' /\ HistoryTypeOK'
      BY <1>18 DEF StoreTypeOK, ConnTypeOK, LockTypeOK, UiTypeOK,
         HistoryTypeOK, Boot
    <2>3. RequestInv'
      BY <1>18 DEF RequestInv, BootTypeOK, ConnTypeOK, Boot
    <2>4. LockInv'
      BY <1>18 DEF LockInv, Holding, ConnTypeOK, Points, LockTypeOK, Boot
    <2> QED
      BY <2>1, <2>2, <2>3, <2>4
  <1>19. ASSUME Unlock
        PROVE  TypeInv'
    <2>1. StoreTypeOK'
      BY <1>19 DEF StoreTypeOK, OptMark, Unlock, Load, NoMarks
    <2>2. BootTypeOK'
      BY <1>19 DEF BootTypeOK, Unlock
    <2>3. ConnTypeOK' /\ LockTypeOK' /\ UiTypeOK' /\ HistoryTypeOK'
      BY <1>19 DEF ConnTypeOK, LockTypeOK, UiTypeOK, HistoryTypeOK, Unlock,
         Load, NoMarks
    <2>4. RequestInv'
      BY <1>19 DEF RequestInv, BootTypeOK, ConnTypeOK, Unlock
    <2>5. LockInv'
      BY <1>19 DEF LockInv, Holding, ConnTypeOK, Points, LockTypeOK, Unlock
    <2> QED
      BY <2>1, <2>2, <2>3, <2>4, <2>5
  <1>20. ASSUME StartSigner
        PROVE  TypeInv'
    <2>1. BootTypeOK'
      BY <1>20 DEF BootTypeOK, StartSigner
    <2>2. StoreTypeOK' /\ ConnTypeOK' /\ LockTypeOK' /\ UiTypeOK' /\ HistoryTypeOK'
      BY <1>20 DEF StoreTypeOK, ConnTypeOK, LockTypeOK, UiTypeOK,
         HistoryTypeOK, StartSigner
    <2>3. RequestInv'
      BY <1>20 DEF RequestInv, BootTypeOK, ConnTypeOK, StartSigner
    <2>4. LockInv'
      BY <1>20 DEF LockInv, Holding, ConnTypeOK, Points, LockTypeOK,
         StartSigner
    <2> QED
      BY <2>1, <2>2, <2>3, <2>4
  <1>21. ASSUME PowerLoss
        PROVE  TypeInv'
    <2>1. StoreTypeOK'
      BY <1>21 DEF StoreTypeOK, OptMark, PowerLoss, NoMarks
    <2>2. BootTypeOK'
      BY <1>21 DEF BootTypeOK, PowerLoss
    <2>3. ConnTypeOK'
      BY <1>21 DEF ConnTypeOK, Points, OptMark, PowerLoss
    <2>4. LockTypeOK'
      BY <1>21 DEF LockTypeOK, PowerLoss
    <2>5. UiTypeOK'
      BY <1>21 DEF UiTypeOK, PowerLoss
    <2>6. HistoryTypeOK'
      BY <1>21 DEF HistoryTypeOK, PowerLoss, NoMarks
    <2>7. RequestInv'
      BY <1>21 DEF RequestInv, BootTypeOK, ConnTypeOK, PowerLoss
    <2>8. LockInv'
      BY <1>21 DEF LockInv, Holding, ConnTypeOK, Points, LockTypeOK,
         PowerLoss
    <2> QED
      BY <2>1, <2>2, <2>3, <2>4, <2>5, <2>6, <2>7, <2>8
  <1>22. ASSUME NEW k \in Keys, SeedFloor(k)
        PROVE  TypeInv'
    <2>1. staged \in Level
      BY <1>22 DEF SeedFloor, BootTypeOK, RequestInv
    <2>2. lock = None
      BY <1>22, <2>1 DEF SeedFloor, LockInv, LockTypeOK, Holding
    <2>3. 0 \in Ops
      BY <1>22, <2>1, <2>2, NumOpsAssumption DEF Ops
    <2>4. \/ UNCHANGED <<upd, lock>>
          \/ upd' \in Update /\ upd' # None /\ lock' = Ui
      BY <1>22, <2>1, <2>2, <2>3, UpdateIsSome DEF SeedFloor, UpdateBegin
    <2>5. StoreTypeOK'
      BY <1>22, <2>1, <2>2, <2>3, <2>4, FloorAndCeiling DEF StoreTypeOK,
         OptMark, SeedFloor, UpdateBegin, SetFloorInMemory
    <2>6. BootTypeOK'
      BY <1>22, <2>1, <2>2, <2>3, <2>4 DEF BootTypeOK, SeedFloor
    <2>7. LockTypeOK'
      BY <1>22, <2>1, <2>2, <2>3, <2>4 DEF LockTypeOK, SeedFloor,
         UpdateBegin
    <2>8. HistoryTypeOK'
      BY <1>22, <2>1, <2>2, <2>3, <2>4 DEF HistoryTypeOK, SeedFloor,
         UpdateBegin
    <2>9. ConnTypeOK' /\ UiTypeOK'
      BY <1>22 DEF ConnTypeOK, UiTypeOK, SeedFloor, SetFloorInMemory,
         UpdateBegin
    <2>10. RequestInv'
      BY <1>22, <2>1, <2>2, <2>3, <2>4 DEF RequestInv, BootTypeOK,
         ConnTypeOK, SeedFloor
    <2>11. LockInv'
      BY <1>22, <2>1, <2>2, <2>3, <2>4 DEF LockInv, Holding, ConnTypeOK,
         Points, LockTypeOK, SeedFloor
    <2> QED
      BY <2>5, <2>6, <2>7, <2>8, <2>9, <2>10, <2>11
  <1>23. CASE UNCHANGED vars
    BY <1>23
    DEF vars, StoreTypeOK, BootTypeOK, ConnTypeOK, LockTypeOK, UiTypeOK,
        HistoryTypeOK, RequestInv, LockInv
  <1> QED
    BY <1>1, <1>2, <1>3, <1>4, <1>5, <1>6, <1>7, <1>8, <1>9, <1>10, <1>11,
       <1>12, <1>13, <1>14, <1>15, <1>16, <1>17, <1>18, <1>19, <1>20, <1>21,
       <1>22, <1>23 DEF Next, Handler

(* The type invariant of the device holds in every behaviour, for any       *)
(* number of keys, files, handlers and ceiling threads, whatever fails.     *)
THEOREM TypeCorrect == Spec => []TypeOK
  <1>1. TypeInv => TypeOK
    BY DEF TypeInv
  <1> QED
    BY <1>1, TypeInit, TypeNext, PTL DEF Spec

-----------------------------------------------------------------------------
(* Seeding a staged floor: seed_floor compares the level with the highest   *)
(* of a key's marks (get_max_level), which exists since levels are natural  *)
(* numbers with a bound.                                                    *)

(* A non-empty set of levels has a greatest one.                            *)
LEMMA GreatestLevel ==
    ASSUME NEW T \in SUBSET Level, T # {}
    PROVE  \E l \in T : \A m \in T : m <= l
<1> DEFINE Rel == OpToRel(<, Nat)
           U == {MaxLevel - l : l \in T}
<1>1. U \subseteq Nat /\ U # {}
  BY MaxAssumption DEF Level
<1>2. PICK u \in U : \A v \in U : <<v, u>> \notin Rel
  <2> HIDE DEF U, Rel
  <2>1. IsWellFoundedOn(Rel, Nat)
    BY NatLessThanWellFounded, Zenon DEF Rel
  <2> QED
    BY <1>1, <2>1, WFMin
<1>3. \A v \in U : ~ (v < u)
  BY <1>1, <1>2 DEF OpToRel
<1>4. PICK l \in T : u = MaxLevel - l
  OBVIOUS
<1>5. \A m \in T : m <= l
  BY <1>3, <1>4, MaxAssumption DEF Level
<1> QED BY <1>5

(* get_max_level is the highest of a key's marks.                           *)
LEMMA MaxMarked ==
    ASSUME StoreTypeOK, NEW k \in Keys, MarkedLevels(k) # {}
    PROVE  /\ MaxMarkedLevel(k) \in MarkedLevels(k)
           /\ \A m \in MarkedLevels(k) : m <= MaxMarkedLevel(k)
<1>1. MarkedLevels(k) \in SUBSET Level
  BY DEF MarkedLevels, StoreTypeOK, OptMark, Mark
<1>2. \E l \in MarkedLevels(k) : \A m \in MarkedLevels(k) : m <= l
  BY <1>1, GreatestLevel
<1> QED
  BY <1>2 DEF MaxMarkedLevel

(* A floor that is not met already is at or above every mark of the key.    *)
LEMMA FloorIsAbove ==
    ASSUME StoreTypeOK, NEW k \in Keys, NEW level \in Level,
           ~ FloorAlreadyMet(k, level),
           NEW s \in Slots, s[1] = k, entries[s] # NoMark
    PROVE  AtMost(entries[s], FloorAt(level))
<1>1. entries[s] \in Mark /\ entries[s].level \in MarkedLevels(k)
  BY DEF MarkedLevels, StoreTypeOK, OptMark
<1>2. MaxMarkedLevel(k) \in Level /\ entries[s].level <= MaxMarkedLevel(k)
  BY <1>1, MaxMarked DEF MarkedLevels, StoreTypeOK, OptMark, Mark
<1>3. MaxMarkedLevel(k) < level
  BY <1>1, <1>2, MaxAssumption DEF FloorAlreadyMet, Level
<1> QED
  BY <1>1, <1>2, <1>3, MaxAssumption DEF AtMost, FloorAt, Mark, Level

(* Whatever is staged and whatever the files hold, seeding after the PIN    *)
(* only raises marks (seed_floor).                                          *)
THEOREM SeedingOnlyRaises == Spec => SeedNeverLowers
<1>1. TypeInv /\ [Next]_vars =>
        [phase = "seed" /\ phase' # "off" =>
           \A s \in Slots : entries[s] # NoMark =>
             entries'[s] # NoMark /\ AtMost(entries[s], entries'[s])]_vars
  <2> SUFFICES ASSUME TypeInv, [Next]_vars, phase = "seed", phase' # "off",
                      NEW s \in Slots, entries[s] # NoMark
               PROVE  entries'[s] # NoMark /\ AtMost(entries[s], entries'[s])
    OBVIOUS
  <2>1. entries[s] \in Mark /\ AtMost(entries[s], entries[s])
    BY MaxAssumption DEF TypeInv, TypeOK, StoreTypeOK, OptMark, Mark, AtMost, Level
  <2>2. /\ \A c \in Conns : pc[c] = "idle"
        /\ StoreTypeOK /\ (seedLeft # {} => staged \in Level)
    BY DEF TypeInv, LockInv, RequestInv, TypeOK, BootTypeOK
  <2>3. ASSUME NEW c \in Conns PROVE ~ Handler(c)
    BY <2>2 DEF Handler, CheckAndUpdate, SignCovered, WriteMark, SyncMark, UndoWrite,
                UndoSync, Respond
  <2>4. ASSUME NEW k \in Keys, SeedFloor(k)
        PROVE  entries'[s] # NoMark /\ AtMost(entries[s], entries'[s])
    <3>1. CASE FloorAlreadyMet(k, staged)
      BY <2>1, <2>4, <3>1 DEF SeedFloor
    <3>2. CASE ~ FloorAlreadyMet(k, staged)
      <4>1. entries' = [t \in Slots |-> IF t[1] = k THEN FloorAt(staged) ELSE entries[t]]
        BY <2>4, <3>2 DEF SeedFloor, UpdateBegin, SetFloorInMemory
      <4>2. staged \in Level
        BY <2>2, <2>4 DEF SeedFloor
      <4>3. CASE s[1] = k
        BY <2>2, <3>2, <4>1, <4>2, <4>3, FloorIsAbove, FloorAndCeiling
      <4>4. CASE s[1] # k
        BY <2>1, <4>1, <4>4
      <4> QED BY <4>3, <4>4
    <3> QED BY <3>1, <3>2
  <2>5. CASE UNCHANGED entries
    BY <2>1, <2>5
  <2>6. (\E k \in Keys : SeedFloor(k)) \/ UNCHANGED entries
    BY <2>3 DEF Next, Precheck, CeilingWrite, CeilingSync, UpdateWrite, UpdateSync,
                HandleAlert, HandleUpdate, HandleMenu, Tap, StageConfig, Boot, Unlock,
                StartSigner, PowerLoss, storeVars, vars
  <2> QED
    BY <2>4, <2>5, <2>6
<1> QED
  BY <1>1, TypeInit, TypeNext, PTL DEF Spec, SeedNeverLowers

-----------------------------------------------------------------------------
(* No position is signed twice.                                             *)

SafetyInv ==
    /\ HandlerInv /\ CeilerInv /\ UpdateInv
    /\ SignedStaysCovered /\ CeilingIsOnDisk /\ NoDoubleSignUnlessExcused

(* The handler that holds the write lock is the only thread in it.          *)
LEMMA Alone ==
    ASSUME TypeInv, NEW c \in Conns, pc[c] \in Holding
    PROVE  /\ lock = c /\ upd = None
           /\ \A d \in Conns : pc[d] \in Holding => d = c
           /\ \A t \in Ceilers : lock # t
  BY ThreadAssumption DEF TypeInv, LockInv

(* While nobody holds the write lock, no thread is in the middle of a       *)
(* write.                                                                   *)
LEMMA Free ==
    ASSUME TypeInv, lock = None
    PROVE  /\ upd = None
           /\ \A d \in Conns : pc[d] \notin Holding
           /\ \A t \in Ceilers : lock # t
  BY ThreadAssumption DEF TypeInv, LockInv

(* Every step keeps the safety invariant: one case per action, and under it *)
(* one per conjunct the action can disturb.                                 *)
LEMMA SafetyNext ==
    ASSUME TypeInv, SafetyInv, TypeInv', [Next]_vars
    PROVE  SafetyInv'
  <1> USE NoMarkAssumption, ThreadAssumption
  <1> USE DEF TypeInv, TypeOK, SafetyInv, bootVars, connVars, uiVars, history, trust, storeVars,
              Excused
  <1>1. ASSUME NEW c \in Conns, CheckAndUpdate(c)
        PROVE  SafetyInv'
    <2>1. req[c] \in Requests /\ S(c) \in Slots /\ M(c) \in Mark
      BY <1>1, RequestType DEF RequestInv, S, M, CheckAndUpdate
    <2>2. /\ upd = None /\ upd' = None
          /\ \A d \in Conns : pc[d] \notin Holding
          /\ \A t \in Ceilers : lock # t /\ lock' # t
      BY <1>1, Free DEF CheckAndUpdate
    <2>3. \A d \in Conns : d # c => pc'[d] = pc[d] /\ S(d)' = S(d) /\ M(d)' = M(d)
      BY <1>1 DEF CheckAndUpdate, Return, ConnTypeOK, S, M
    <2>4. Accepts(entries[S(c)], M(c)) =>
            entries[S(c)] \in Mark /\ Below(entries[S(c)], M(c))
      BY <2>1, AcceptsAbove DEF StoreTypeOK
    <2>5. HandlerInv'
      <3>1. ASSUME ~ Accepts(entries[S(c)], M(c))
            PROVE  HandlerInv'
        BY <1>1, <2>2, <2>3, <3>1 DEF CheckAndUpdate, Return, HandlerInv, Holding, ConnTypeOK
      <3>2. ASSUME Accepts(entries[S(c)], M(c))
            PROVE  HandlerInv'
        <4>1. /\ S(c)' = S(c) /\ M(c)' = M(c) /\ prev'[c] = entries[S(c)]
              /\ pc'[c] = IF CeilingCovers(diskCeiling[S(c)], M(c)) THEN "fast" ELSE "pwrite"
              /\ entries' = [entries EXCEPT ![S(c)] = M(c)]
              /\ UNCHANGED <<diskCeiling, issued, lowered, risked>>
          BY <1>1, <3>2 DEF CheckAndUpdate, ConnTypeOK, S, M
        <4>2. \A p \in issued[S(c)] : ~ Excused(S(c)) => AtMost(p, entries[S(c)])
          BY <2>1, <2>4, <3>2 DEF SignedStaysCovered, Bounds
        <4>3. ~ CeilingCovers(diskCeiling[S(c)], M(c)) /\ diskCeiling[S(c)] # NoMark
                 => AtMost(diskCeiling[S(c)], M(c))
          BY <2>1, CoversIsAtMost DEF StoreTypeOK
        <4>4. entries'[S(c)] = M(c)
          BY <4>1, <2>1 DEF StoreTypeOK
        <4> QED
          BY <2>1, <2>2, <2>3, <2>4, <3>2, <4>1, <4>2, <4>3, <4>4 DEF HandlerInv, Holding, StoreTypeOK
      <3> QED BY <3>1, <3>2
    <2>6. CeilerInv'
      BY <1>1, <2>1, <2>2 DEF CeilerInv, CheckAndUpdate, StoreTypeOK, LockTypeOK, Job
    <2>7. UpdateInv'
      BY <2>2 DEF UpdateInv
    <2>8. SignedStaysCovered'
      BY <1>1, <2>1, <2>4, AtMostTrans, BelowIsStrict DEF SignedStaysCovered, Bounds, CheckAndUpdate, StoreTypeOK, HistoryTypeOK
    <2>9. CeilingIsOnDisk'
      BY <1>1, <2>2, <2>3 DEF CeilingIsOnDisk, Rewriting, CheckAndUpdate, Holding
    <2>10. NoDoubleSignUnlessExcused'
      BY <1>1 DEF NoDoubleSignUnlessExcused, CheckAndUpdate
    <2> QED BY <2>5, <2>6, <2>7, <2>8, <2>9, <2>10
  <1>2. ASSUME NEW c \in Conns, SignCovered(c)
        PROVE  SafetyInv'
    <2>1. req[c] \in Requests /\ S(c) \in Slots /\ M(c) \in Mark
      BY <1>2, RequestType DEF RequestInv, S, M, SignCovered
    <2>2. /\ upd = None /\ upd' = None
          /\ \A d \in Conns : pc[d] \in Holding => d = c
          /\ \A t \in Ceilers : lock # t /\ lock' # t
      BY <1>2, Alone DEF SignCovered, Holding, Sign, SignFailed, Goto
    <2>3. \A d \in Conns : d # c => pc'[d] = pc[d] /\ S(d)' = S(d) /\ M(d)' = M(d)
      BY <1>2 DEF SignCovered, Sign, SignFailed, Goto, ConnTypeOK, S, M
    <2>4. /\ entries[S(c)] = M(c) /\ prev[c] \in Mark /\ Below(prev[c], M(c))
          /\ ~ Excused(S(c)) => \A p \in issued[S(c)] : AtMost(p, prev[c])
          /\ CeilingCovers(diskCeiling[S(c)], M(c))
      BY <1>2 DEF SignCovered, HandlerInv, Holding, ConnTypeOK, OptMark
    <2>5. ~ doubt[S(c)] => \A v \in disk[S(c)] : Bounds(v, M(c))
      <3>1. ~ Rewriting(S(c))
        BY <1>2, <2>2 DEF Rewriting, SignCovered, Holding
      <3>2. diskCeiling[S(c)] \in Mark /\ AtMost(M(c), diskCeiling[S(c)])
        BY <2>1, <2>4, CoversIsAtMost DEF StoreTypeOK
      <3>3. ~ doubt[S(c)] => \A v \in disk[S(c)] : Bounds(v, diskCeiling[S(c)])
        BY <2>1, <3>1, <3>2 DEF CeilingIsOnDisk
      <3>4. \A v \in disk[S(c)] : v = NoMark \/ v \in Mark
        BY <2>1 DEF StoreTypeOK, OptMark
      <3> QED
        BY <2>1, <3>2, <3>3, <3>4, AtMostTrans DEF Bounds
    <2>12. \/ /\ Sign(c) /\ UNCHANGED <<doubt, disk, diskCeiling>>
              /\ \A s \in Slots : risked[s] => risked'[s]
              /\ doubt[S(c)] => risked'[S(c)]
           \/ SignFailed(c) /\ UNCHANGED <<trust, disk, diskCeiling>>
      BY <1>2, <2>1, RiskGrows DEF SignCovered
    <2>13. \A s \in Slots : Excused(s) => Excused(s)'
      BY <2>12 DEF Sign, SignFailed
    <2>6. HandlerInv'
      <3>1. \A s \in Slots : entries[s] # NoMark => entries'[s] # NoMark
        BY <1>2, <2>1, <2>4 DEF SignCovered, Sign, SignFailed, Rollback, StoreTypeOK
      <3>2. \A d \in Conns : pc[d] = "respond" => S(d) \in Slots
        BY RequestType DEF RequestInv, S
      <3>3. /\ S(c)' = S(c) /\ M(c)' = M(c) /\ prev'[c] = prev[c]
            /\ \/ pc'[c] = "respond" /\ entries' = entries
               \/ /\ pc'[c] = "undo" /\ entries'[S(c)] = prev[c]
                  /\ UNCHANGED <<issued, lowered, risked>>
        BY <1>2, <2>1, <2>12
        DEF SignCovered, Sign, SignFailed, Rollback, Goto, StoreTypeOK, ConnTypeOK, S, M
      <3> QED
        BY <2>1, <2>2, <2>3, <2>4, <3>1, <3>2, <3>3 DEF HandlerInv, Holding
    <2>7. CeilerInv'
      BY <1>2, <2>1, <2>2, <2>4 DEF CeilerInv, SignCovered, Sign, SignFailed, Rollback, StoreTypeOK, LockTypeOK, Job
    <2>8. UpdateInv'
      BY <2>2 DEF UpdateInv
    <2>9. SignedStaysCovered'
      <3>1. CASE Sign(c) /\ UNCHANGED disk /\ (doubt[S(c)] => risked'[S(c)])
        <4>1. Bounds(entries[S(c)], M(c))
          BY <2>1, <2>4, MaxAssumption DEF Bounds, AtMost, Mark, Level
        <4>2. /\ issued'[S(c)] = issued[S(c)] \cup {M(c)}
              /\ \A s \in Slots : s # S(c) => issued'[s] = issued[s]
              /\ UNCHANGED <<entries, disk>>
          BY <2>1, <3>1 DEF Sign, HistoryTypeOK
        <4>3. ~ risked'[S(c)] => \A v \in disk[S(c)] : Bounds(v, M(c))
          BY <2>5, <3>1
        <4>4. ASSUME NEW s \in Slots, ~ Excused(s)', NEW p \in issued'[s]
              PROVE  Bounds(entries[s], p) /\ \A v \in disk[s] : Bounds(v, p)
          <5>1. CASE p \in issued[s]
            BY <2>13, <4>4, <5>1 DEF SignedStaysCovered
          <5>2. CASE s = S(c) /\ p = M(c)
            BY <4>1, <4>3, <4>4, <5>2
          <5> QED
            BY <4>2, <4>4, <5>1, <5>2
        <4> QED
          BY <4>2, <4>4 DEF SignedStaysCovered
      <3>2. CASE SignFailed(c) /\ UNCHANGED <<trust, disk>>
        BY <2>1, <2>4, <3>2
        DEF SignFailed, Rollback, SignedStaysCovered, StoreTypeOK, Bounds
      <3> QED
        BY <2>12, <3>1, <3>2
    <2>10. CeilingIsOnDisk'
      BY <1>2, <2>2, <2>3, <2>12 DEF CeilingIsOnDisk, Rewriting, SignCovered, Sign, SignFailed, Goto, Holding, ConnTypeOK
    <2>11. NoDoubleSignUnlessExcused'
      <3>1. M(c) \in issued[S(c)] => Excused(S(c))
        BY <2>1, <2>4, BelowIsStrict DEF HistoryTypeOK
      <3>2. \A s \in Slots : doubled'[s] => doubled[s] \/ (s = S(c) /\ M(c) \in issued[S(c)])
        <4>1. CASE Sign(c)
          <5>1. HistoryTypeOK /\ doubled' = [doubled EXCEPT ![S(c)] = @ \/ M(c) \in issued[S(c)]]
            BY <4>1, Zenon DEF Sign
          <5> QED
            BY <2>1, <5>1, DoubledGrows, Zenon
        <4>2. CASE SignFailed(c)
          <5>1. doubled' = doubled
            BY <4>2 DEF SignFailed
          <5> QED
            BY <5>1, Zenon
        <4> QED
          BY <2>12, <4>1, <4>2
      <3> QED
        BY <2>13, <3>1, <3>2 DEF NoDoubleSignUnlessExcused
    <2> QED
      BY <2>6, <2>7, <2>8, <2>9, <2>10, <2>11
  <1>3. ASSUME NEW c \in Conns, WriteMark(c)
        PROVE  SafetyInv'
    <2>1. req[c] \in Requests /\ S(c) \in Slots /\ M(c) \in Mark
      BY <1>3, RequestType DEF RequestInv, S, M, WriteMark
    <2>2. /\ upd = None /\ upd' = None
          /\ \A d \in Conns : pc[d] \in Holding => d = c
          /\ \A t \in Ceilers : lock # t /\ lock' # t
      BY <1>3, Alone DEF WriteMark, Holding, Goto, Refuse, Return
    <2>3. \A d \in Conns : d # c => pc'[d] = pc[d] /\ S(d)' = S(d) /\ M(d)' = M(d)
      BY <1>3 DEF WriteMark, Goto, Refuse, Return, ConnTypeOK, S, M
    <2>4. /\ entries[S(c)] = M(c) /\ prev[c] \in Mark /\ Below(prev[c], M(c))
          /\ ~ Excused(S(c)) => \A p \in issued[S(c)] : AtMost(p, prev[c])
          /\ diskCeiling[S(c)] # NoMark => AtMost(diskCeiling[S(c)], M(c))
      BY <1>3 DEF WriteMark, HandlerInv, Holding, ConnTypeOK, OptMark
    <2>5. \A p \in issued[S(c)] : ~ Excused(S(c)) => AtMost(p, M(c))
      BY <2>1, <2>4, AtMostTrans, BelowIsStrict DEF HistoryTypeOK
    <2>6. \A s \in Slots : \A v \in disk'[s] :
            v \in disk[s] \/ v = NoMark \/ (s = S(c) /\ v = M(c))
      BY <1>3, <2>1, InFlightIsMark DEF WriteMark, Pwrite, StoreTypeOK
    <2>7. HandlerInv'
      <3>1. \A s \in Slots : entries[s] # NoMark => entries'[s] # NoMark
        BY <1>3, <2>1, <2>4 DEF WriteMark, Refuse, Rollback, StoreTypeOK
      <3>2. \A d \in Conns : pc[d] = "respond" => S(d) \in Slots
        BY RequestType DEF RequestInv, S
      <3>3. \/ pc'[c] = "idle"
            \/ /\ S(c)' = S(c) /\ M(c)' = M(c) /\ prev'[c] = prev[c]
               /\ pc'[c] = "sync"
               /\ UNCHANGED <<entries, diskCeiling, issued, lowered, risked>>
        BY <1>3, <2>1 DEF WriteMark, Refuse, Return, Goto, ConnTypeOK, S, M
      <3> QED
        BY <2>1, <2>2, <2>3, <2>4, <3>1, <3>2, <3>3 DEF HandlerInv, Holding
    <2>8. CeilerInv'
      BY <1>3, <2>1, <2>2, <2>4 DEF CeilerInv, WriteMark, Refuse, Rollback, StoreTypeOK, LockTypeOK, Job
    <2>9. UpdateInv'
      BY <2>2 DEF UpdateInv
    <2>10. SignedStaysCovered'
      BY <1>3, <2>1, <2>4, <2>5, <2>6 DEF SignedStaysCovered, Bounds, WriteMark, Refuse, Rollback, StoreTypeOK
    <2>11. CeilingIsOnDisk'
      BY <1>3, <2>2, <2>3, <2>4, <2>6 DEF CeilingIsOnDisk, Rewriting, Bounds, WriteMark, Goto, Refuse, Return, Holding, ConnTypeOK
    <2>12. NoDoubleSignUnlessExcused'
      BY <1>3 DEF NoDoubleSignUnlessExcused, WriteMark, Refuse
    <2> QED
      BY <2>7, <2>8, <2>9, <2>10, <2>11, <2>12
  <1>4. ASSUME NEW c \in Conns, SyncMark(c)
        PROVE  SafetyInv'
    <2>1. req[c] \in Requests /\ S(c) \in Slots /\ M(c) \in Mark
      BY <1>4, RequestType DEF RequestInv, S, M, SyncMark
    <2>2. /\ upd = None /\ upd' = None
          /\ \A d \in Conns : pc[d] \in Holding => d = c
          /\ \A t \in Ceilers : lock # t /\ lock' # t
      BY <1>4, Alone DEF SyncMark, Holding, Sign, SignFailed, Goto, Refuse, Return
    <2>3. \A d \in Conns : d # c => pc'[d] = pc[d] /\ S(d)' = S(d) /\ M(d)' = M(d)
      BY <1>4 DEF SyncMark, Sign, SignFailed, Goto, Refuse, Return, ConnTypeOK, S, M
    <2>4. /\ entries[S(c)] = M(c) /\ prev[c] \in Mark /\ Below(prev[c], M(c))
          /\ ~ Excused(S(c)) => \A p \in issued[S(c)] : AtMost(p, prev[c])
      BY <1>4 DEF SyncMark, HandlerInv, Holding, ConnTypeOK, OptMark
    <2>5. /\ AtMost(M(c), M(c))
          /\ \A p \in issued[S(c)] : ~ Excused(S(c)) => AtMost(p, M(c))
      BY <2>1, <2>4, AtMostTrans, BelowIsStrict, MaxAssumption
      DEF HistoryTypeOK, AtMost, Mark, Level
    <2>6. /\ \/ MarkSynced(S(c), M(c)) /\ Sign(c) /\ Settled(S(c))
             \/ MarkSynced(S(c), M(c)) /\ SignFailed(c) /\ Settled(S(c))
             \/ Refuse(c) /\ UNCHANGED <<diskCeiling, diskEntries, disk, doubt>>
          /\ UNCHANGED <<risked, lowered>>
      BY <1>4 DEF SyncMark, Settled, Sign, SignFailed, Refuse
    <2>7. HandlerInv'
      <3>1. \A s \in Slots : entries[s] # NoMark => entries'[s] # NoMark
        BY <2>1, <2>4, <2>6 DEF Sign, SignFailed, Refuse, Rollback, StoreTypeOK
      <3>2. \A d \in Conns : pc[d] = "respond" => S(d) \in Slots
        BY RequestType DEF RequestInv, S
      <3>3. \/ pc'[c] = "idle"
            \/ /\ S(c)' = S(c) /\ M(c)' = M(c) /\ prev'[c] = prev[c]
               /\ \/ pc'[c] = "respond" /\ entries' = entries
                  \/ /\ pc'[c] = "undo" /\ entries'[S(c)] = prev[c]
                     /\ UNCHANGED <<issued, lowered, risked>>
        BY <2>1, <2>6
        DEF Sign, SignFailed, Refuse, Return, Rollback, Goto, StoreTypeOK, ConnTypeOK, S, M
      <3> QED
        BY <2>1, <2>2, <2>3, <2>4, <3>1, <3>2, <3>3 DEF HandlerInv, Holding
    <2>8. CeilerInv'
      BY <1>4, <2>1, <2>2, <2>4 DEF CeilerInv, SyncMark, Sign, SignFailed, Refuse, Rollback, StoreTypeOK, LockTypeOK, Job
    <2>9. UpdateInv'
      BY <2>2 DEF UpdateInv
    <2>10. SignedStaysCovered'
      <3>1. CASE MarkSynced(S(c), M(c)) /\ Sign(c)
        BY <2>1, <2>4, <2>5, <2>6, <3>1
        DEF MarkSynced, Sign, SignedStaysCovered, Bounds, StoreTypeOK, HistoryTypeOK
      <3>2. CASE MarkSynced(S(c), M(c)) /\ SignFailed(c)
        BY <2>1, <2>4, <2>5, <2>6, <3>2
        DEF MarkSynced, SignFailed, Rollback, SignedStaysCovered, Bounds, StoreTypeOK
      <3>3. CASE Refuse(c) /\ UNCHANGED <<diskCeiling, diskEntries, disk>>
        BY <2>1, <2>4, <2>6, <3>3 DEF Refuse, Rollback, SignedStaysCovered, Bounds, StoreTypeOK
      <3> QED
        BY <2>6, <3>1, <3>2, <3>3
    <2>11. CeilingIsOnDisk'
      <3>1. \A s \in Slots : ~ Rewriting(s)
        BY <1>4, <2>2 DEF Rewriting, SyncMark, Holding
      <3>2. \A s \in Slots : \/ diskCeiling'[s] = NoMark
                             \/ UNCHANGED <<diskCeiling[s], disk[s], doubt[s]>>
        BY <2>1, <2>6 DEF MarkSynced, Settled, StoreTypeOK, HistoryTypeOK
      <3> QED
        BY <3>1, <3>2 DEF CeilingIsOnDisk
    <2>12. NoDoubleSignUnlessExcused'
      <3>1. M(c) \in issued[S(c)] => Excused(S(c))
        BY <2>1, <2>4, BelowIsStrict DEF HistoryTypeOK
      <3>2. \A s \in Slots : doubled'[s] => doubled[s] \/ (s = S(c) /\ M(c) \in issued[S(c)])
        <4>1. CASE Sign(c)
          <5>1. HistoryTypeOK /\ doubled' = [doubled EXCEPT ![S(c)] = @ \/ M(c) \in issued[S(c)]]
            BY <4>1, Zenon DEF Sign
          <5> QED
            BY <2>1, <5>1, DoubledGrows, Zenon
        <4>2. CASE SignFailed(c) \/ Refuse(c)
          <5>1. doubled' = doubled
            BY <4>2 DEF SignFailed, Refuse
          <5> QED
            BY <5>1, Zenon
        <4> QED
          BY <2>6, <4>1, <4>2
      <3>3. \A s \in Slots : Excused(s)' <=> Excused(s)
        BY <2>6
      <3> QED
        BY <3>1, <3>2, <3>3 DEF NoDoubleSignUnlessExcused
    <2> QED
      BY <2>7, <2>8, <2>9, <2>10, <2>11, <2>12
  <1>5. ASSUME NEW c \in Conns, UndoWrite(c)
        PROVE  SafetyInv'
    <2>1. req[c] \in Requests /\ S(c) \in Slots /\ M(c) \in Mark
      BY <1>5, RequestType DEF RequestInv, S, M, UndoWrite
    <2>2. /\ upd = None /\ upd' = None
          /\ \A d \in Conns : pc[d] \in Holding => d = c
          /\ \A t \in Ceilers : lock # t /\ lock' # t
      BY <1>5, Alone DEF UndoWrite, Holding, Goto, Return
    <2>3. \A d \in Conns : d # c => pc'[d] = pc[d] /\ S(d)' = S(d) /\ M(d)' = M(d)
      BY <1>5 DEF UndoWrite, Goto, Return, ConnTypeOK, S, M
    <2>4. /\ entries[S(c)] = prev[c] /\ prev[c] \in Mark
          /\ ~ Excused(S(c)) => \A p \in issued[S(c)] : AtMost(p, prev[c])
      BY <1>5 DEF UndoWrite, HandlerInv, Holding, ConnTypeOK, OptMark
    <2>5. \A s \in Slots : \A v \in disk'[s] :
            v \in disk[s] \/ v = NoMark \/ (s = S(c) /\ v = prev[c])
      BY <1>5, <2>1, <2>4, InFlightIsMark DEF UndoWrite, Pwrite, StoreTypeOK
    <2>6. \/ Goto(c, "undosync") /\ UNCHANGED trust
          \/ /\ Return(c) /\ OverwriteFailed(S(c))
             /\ \A s \in Slots : /\ doubt[s] => doubt'[s]
                                 /\ s = S(c) /\ diskCeiling[s] # NoMark => doubt'[s]
      BY <1>5, <2>1 DEF UndoWrite, OverwriteFailed, HistoryTypeOK
    <2>7. HandlerInv'
      <3>1. CASE Goto(c, "undosync") /\ UNCHANGED trust
        BY <1>5, <2>1, <2>2, <2>3, <2>4, <3>1 DEF HandlerInv, Holding, UndoWrite, Goto, ConnTypeOK, S, M
      <3>2. CASE Return(c) /\ OverwriteFailed(S(c))
        BY <1>5, <2>2, <2>3, <3>2 DEF HandlerInv, Holding, UndoWrite, Return, ConnTypeOK, OverwriteFailed
      <3> QED
        BY <2>6, <3>1, <3>2
    <2>8. CeilerInv'
      BY <1>5, <2>2 DEF CeilerInv, UndoWrite, CeilingNotNeeded
    <2>9. UpdateInv'
      BY <2>2 DEF UpdateInv
    <2>10. SignedStaysCovered'
      BY <1>5, <2>1, <2>4, <2>5 DEF SignedStaysCovered, Bounds, UndoWrite, OverwriteFailed
    <2>11. CeilingIsOnDisk'
      <3>1. \A s \in Slots : ~ Rewriting(s)
        BY <1>5, <2>2 DEF Rewriting, UndoWrite, Holding
      <3>2. \A s \in Slots : ~ Rewriting(s)' /\ ~ doubt'[s] /\ diskCeiling[s] # NoMark
               => s # S(c) /\ ~ doubt[s]
        BY <2>3, <2>6 DEF Rewriting, Goto, ConnTypeOK, S
      <3>3. UNCHANGED diskCeiling
        BY <1>5 DEF UndoWrite
      <3> QED
        BY <2>5, <3>1, <3>2, <3>3 DEF CeilingIsOnDisk, Bounds
    <2>12. NoDoubleSignUnlessExcused'
      BY <1>5 DEF NoDoubleSignUnlessExcused, UndoWrite, OverwriteFailed
    <2> QED
      BY <2>7, <2>8, <2>9, <2>10, <2>11, <2>12
  <1>6. ASSUME NEW c \in Conns, UndoSync(c)
        PROVE  SafetyInv'
    <2>1. req[c] \in Requests /\ S(c) \in Slots /\ M(c) \in Mark
      BY <1>6, RequestType DEF RequestInv, S, M, UndoSync
    <2>2. /\ upd = None /\ upd' = None
          /\ \A d \in Conns : pc[d] \in Holding => d = c
          /\ \A t \in Ceilers : lock # t /\ lock' # t
      BY <1>6, Alone DEF UndoSync, Holding, Return
    <2>3. \A d \in Conns : d # c => pc'[d] = pc[d] /\ S(d)' = S(d) /\ M(d)' = M(d)
      BY <1>6 DEF UndoSync, Return, ConnTypeOK, S, M
    <2>4. /\ entries[S(c)] = prev[c] /\ prev[c] \in Mark
          /\ ~ Excused(S(c)) => \A p \in issued[S(c)] : AtMost(p, prev[c])
      BY <1>6 DEF UndoSync, HandlerInv, Holding, ConnTypeOK, OptMark
    <2>5. /\ \/ MarkSynced(S(c), prev[c])
             \/ UNCHANGED <<diskCeiling, disk>> /\ OverwriteFailed(S(c))
          /\ UNCHANGED <<entries, issued, doubled, lowered, risked>>
      BY <1>6 DEF UndoSync, Settled, OverwriteFailed
    <2>6. HandlerInv'
      <3>1. pc'[c] = "idle"
        BY <1>6 DEF UndoSync, Return, ConnTypeOK
      <3>2. \A d \in Conns : d # c => UNCHANGED prev[d]
        BY <1>6 DEF UndoSync, Return, ConnTypeOK
      <3> QED
        BY <2>2, <2>3, <2>5, <3>1, <3>2 DEF HandlerInv, Holding
    <2>7. CeilerInv'
      BY <1>6, <2>2 DEF CeilerInv, UndoSync, CeilingNotNeeded
    <2>8. UpdateInv'
      BY <2>2 DEF UpdateInv
    <2>9. SignedStaysCovered'
      BY <2>1, <2>4, <2>5 DEF SignedStaysCovered, Bounds, MarkSynced, StoreTypeOK
    <2>10. CeilingIsOnDisk'
      <3>1. \A s \in Slots : s # S(c) => ~ Rewriting(s)
        BY <1>6, <2>2 DEF Rewriting, UndoSync, Holding
      <3>2. \A s \in Slots : s # S(c) => UNCHANGED <<diskCeiling[s], disk[s], doubt[s]>>
        BY <1>6 DEF UndoSync, MarkSynced, Settled, OverwriteFailed, StoreTypeOK, HistoryTypeOK
      <3>3. diskCeiling'[S(c)] = NoMark \/ doubt'[S(c)]
        BY <2>1, <2>5 DEF MarkSynced, OverwriteFailed, StoreTypeOK, HistoryTypeOK
      <3> QED
        BY <3>1, <3>2, <3>3 DEF CeilingIsOnDisk
    <2>11. NoDoubleSignUnlessExcused'
      BY <2>5 DEF NoDoubleSignUnlessExcused
    <2> QED
      BY <2>6, <2>7, <2>8, <2>9, <2>10, <2>11
  <1>7. ASSUME NEW c \in Conns, Respond(c)
        PROVE  SafetyInv'
    <2>1. entries[S(c)] # NoMark
      BY <1>7 DEF Respond, HandlerInv
    <2>2. \A d \in Conns : pc'[d] # "idle" =>
             pc'[d] = pc[d] /\ S(d)' = S(d) /\ M(d)' = M(d) /\ prev'[d] = prev[d]
      BY <1>7 DEF Respond, Return, ConnTypeOK, S, M
    <2>3. /\ UNCHANGED <<storeVars, lock, upd, history, trust>>
          /\ \A d \in Conns : (pc'[d] = "undosync") <=> (pc[d] = "undosync")
      BY <1>7 DEF Respond, Return, ConnTypeOK
    <2>4. \A t \in Ceilers : jobs'[t] # jobs[t] =>
             jobs[t] = None /\ jobs'[t] = [slot |-> S(c), level |-> M(c).level + 1]
      BY <1>7 DEF Respond, Schedule, LockTypeOK
    <2>5. HandlerInv'
      BY <2>2, <2>3 DEF HandlerInv, Holding
    <2>6. CeilerInv'
      BY <2>1, <2>3, <2>4 DEF CeilerInv, LockInv, CeilingNotNeeded
    <2>7. UpdateInv'
      BY <2>3 DEF UpdateInv
    <2>8. SignedStaysCovered'
      BY <2>3 DEF SignedStaysCovered
    <2>9. CeilingIsOnDisk'
      BY <1>7, <2>2, <2>3 DEF CeilingIsOnDisk, Rewriting, Respond
    <2>10. NoDoubleSignUnlessExcused'
      BY <2>3 DEF NoDoubleSignUnlessExcused
    <2> QED
      BY <2>5, <2>6, <2>7, <2>8, <2>9, <2>10
  <1>8. ASSUME NEW c \in Conns, NEW r \in Requests, Precheck(c, r)
        PROVE  SafetyInv'
    <2>1. \A d \in Conns : pc'[d] \notin {"idle", "check"} =>
             pc'[d] = pc[d] /\ S(d)' = S(d) /\ M(d)' = M(d) /\ prev'[d] = prev[d]
      BY <1>8 DEF Precheck, ConnTypeOK, S, M
    <2>2. /\ UNCHANGED <<storeVars, lock, jobs, upd, history, trust>>
          /\ \A d \in Conns : pc[d] = "undosync" => pc'[d] = "undosync" /\ S(d)' = S(d)
      BY <1>8 DEF Precheck, ConnTypeOK, S
    <2>3. HandlerInv'
      BY <2>1, <2>2 DEF HandlerInv, Holding
    <2>4. CeilerInv'
      BY <2>2 DEF CeilerInv, CeilingNotNeeded
    <2>5. UpdateInv'
      BY <2>2 DEF UpdateInv
    <2>6. SignedStaysCovered'
      BY <2>2 DEF SignedStaysCovered
    <2>7. CeilingIsOnDisk'
      BY <2>2 DEF CeilingIsOnDisk, Rewriting
    <2>8. NoDoubleSignUnlessExcused'
      BY <2>2 DEF NoDoubleSignUnlessExcused
    <2> QED
      BY <2>3, <2>4, <2>5, <2>6, <2>7, <2>8
  <1>9. ASSUME NEW t \in Ceilers, CeilingWrite(t)
        PROVE  SafetyInv'
    <2>1. /\ jobs[t].slot \in Slots /\ jobs[t].level \in Level
          /\ CeilingAt(jobs[t].level) \in Mark
      BY <1>9, FloorAndCeiling DEF CeilingWrite, LockTypeOK, Job
    <2>2. /\ upd = None /\ \A d \in Conns : pc[d] \notin Holding
          /\ \A u \in Ceilers : lock # u
      BY <1>9, Free DEF CeilingWrite
    <2>3. ASSUME ~ CeilingNotNeeded(jobs[t].slot, jobs[t].level)
          PROVE  /\ entries[jobs[t].slot] \in Mark
                 /\ AtMost(entries[jobs[t].slot], CeilingAt(jobs[t].level))
                 /\ diskCeiling[jobs[t].slot] # NoMark =>
                      AtMost(diskCeiling[jobs[t].slot], CeilingAt(jobs[t].level))
      <3>1. entries[jobs[t].slot] # NoMark
        BY <1>9 DEF CeilerInv, CeilingWrite
      <3>2. /\ entries[jobs[t].slot] \in OptMark
            /\ diskCeiling[jobs[t].slot] \in OptMark
        BY <2>1 DEF StoreTypeOK
      <3>3. /\ entries[jobs[t].slot].level <= jobs[t].level
            /\ diskCeiling[jobs[t].slot] # NoMark =>
                 diskCeiling[jobs[t].slot].level <= jobs[t].level
        BY <2>1, <2>3, <3>1, <3>2, MaxAssumption
        DEF CeilingNotNeeded, OptMark, Mark, Level
      <3> QED
        BY <2>1, <3>1, <3>2, <3>3, FloorAndCeiling DEF OptMark
    <2>4. \A s \in Slots : \A v \in disk'[s] :
            \/ v \in disk[s] \/ v = NoMark
            \/ /\ s = jobs[t].slot /\ v = CeilingAt(jobs[t].level)
               /\ ~ CeilingNotNeeded(jobs[t].slot, jobs[t].level)
      BY <1>9, <2>1, InFlightIsMark DEF CeilingWrite, Pwrite, StoreTypeOK
    <2>5. UNCHANGED <<entries, diskCeiling, pc, req, prev, upd, history, trust>>
      BY <1>9 DEF CeilingWrite
    <2>6. HandlerInv'
      BY <2>5 DEF HandlerInv, S, M
    <2>7. CeilerInv'
      BY <1>9, <2>2, <2>5 DEF CeilerInv, CeilingWrite, CeilingNotNeeded, LockTypeOK
    <2>8. UpdateInv'
      BY <2>2, <2>5 DEF UpdateInv
    <2>9. SignedStaysCovered'
      <3>1. \A p \in issued[jobs[t].slot] :
              /\ ~ Excused(jobs[t].slot)
              /\ ~ CeilingNotNeeded(jobs[t].slot, jobs[t].level)
              => AtMost(p, CeilingAt(jobs[t].level))
        BY <2>1, <2>3, AtMostTrans DEF SignedStaysCovered, Bounds, HistoryTypeOK
      <3> QED
        BY <2>4, <2>5, <3>1 DEF SignedStaysCovered, Bounds
    <2>10. CeilingIsOnDisk'
      BY <2>3, <2>4, <2>5 DEF CeilingIsOnDisk, Rewriting, Bounds, S
    <2>11. NoDoubleSignUnlessExcused'
      BY <2>5 DEF NoDoubleSignUnlessExcused
    <2> QED
      BY <2>6, <2>7, <2>8, <2>9, <2>10, <2>11
  <1>10. ASSUME NEW t \in Ceilers, CeilingSync(t)
        PROVE  SafetyInv'
    <2>1. /\ jobs[t].slot \in Slots /\ jobs[t].level \in Level
          /\ CeilingAt(jobs[t].level) \in Mark
      BY <1>10, FloorAndCeiling DEF CeilingSync, LockTypeOK, LockInv, Job
    <2>2. upd = None /\ \A d \in Conns : pc[d] \notin Holding
      BY <1>10 DEF CeilingSync, LockInv
    <2>3. /\ entries[jobs[t].slot] \in Mark
          /\ AtMost(entries[jobs[t].slot], CeilingAt(jobs[t].level))
      <3>1. /\ entries[jobs[t].slot] # NoMark
            /\ ~ CeilingNotNeeded(jobs[t].slot, jobs[t].level)
        BY <1>10 DEF CeilerInv, CeilingSync, LockInv
      <3>2. entries[jobs[t].slot] \in Mark
        BY <2>1, <3>1 DEF StoreTypeOK, OptMark
      <3>3. entries[jobs[t].slot].level <= jobs[t].level
        BY <2>1, <3>1, <3>2, MaxAssumption DEF CeilingNotNeeded, Mark, Level
      <3> QED
        BY <2>1, <3>2, <3>3, FloorAndCeiling
    <2>4. UNCHANGED <<entries, pc, req, prev, upd, history, risked>>
      BY <1>10 DEF CeilingSync, Settled
    <2>5. \/ CeilingSynced(jobs[t].slot, CeilingAt(jobs[t].level)) /\ Settled(jobs[t].slot)
          \/ UNCHANGED <<diskCeiling, diskEntries, disk, doubt>>
      BY <1>10 DEF CeilingSync
    <2>6. HandlerInv'
      BY <2>2, <2>4 DEF HandlerInv, Holding, S, M
    <2>7. CeilerInv'
      BY <1>10, <2>4 DEF CeilerInv, CeilingSync, LockTypeOK
    <2>8. UpdateInv'
      BY <2>2, <2>4 DEF UpdateInv
    <2>9. SignedStaysCovered'
      <3>1. \A p \in issued[jobs[t].slot] :
              ~ Excused(jobs[t].slot) => AtMost(p, CeilingAt(jobs[t].level))
        BY <2>1, <2>3, AtMostTrans DEF SignedStaysCovered, Bounds, HistoryTypeOK
      <3> QED
        BY <2>1, <2>4, <2>5, <3>1
        DEF SignedStaysCovered, Bounds, CeilingSynced, StoreTypeOK
    <2>10. CeilingIsOnDisk'
      <3>1. Bounds(CeilingAt(jobs[t].level), CeilingAt(jobs[t].level))
        BY <2>1, MaxAssumption DEF Bounds, AtMost, Mark, Level
      <3> QED
        BY <2>1, <2>2, <2>4, <2>5, <3>1
        DEF CeilingIsOnDisk, Rewriting, CeilingSynced, StoreTypeOK, S, Settled, HistoryTypeOK
    <2>11. NoDoubleSignUnlessExcused'
      BY <2>4 DEF NoDoubleSignUnlessExcused
    <2> QED
      BY <2>6, <2>7, <2>8, <2>9, <2>10, <2>11
  <1>11. ASSUME UpdateWrite
        PROVE  SafetyInv'
    <2>1. /\ upd \in Update /\ <<upd.key, upd.op>> \in Slots
          /\ FloorAt(upd.level) \in Mark
      BY <1>11, FloorAndCeiling DEF UpdateWrite, LockTypeOK, Update, Slots
    <2>2. /\ lock = Ui /\ (\A d \in Conns : pc[d] \notin Holding)
          /\ \A t \in Ceilers : lock # t /\ lock' # t
      BY <1>11 DEF UpdateWrite, LockInv, UpdateEnd
    <2>3. entries[<<upd.key, upd.op>>] = FloorAt(upd.level)
      BY <1>11, <2>1 DEF UpdateWrite, UpdateInv
    <2>4. UNCHANGED <<entries, pc, req, prev, jobs, history, risked>>
      BY <1>11 DEF UpdateWrite, OverwriteFailed
    <2>5. \A p \in issued[<<upd.key, upd.op>>] :
            ~ Excused(<<upd.key, upd.op>>) => AtMost(p, FloorAt(upd.level))
      BY <2>1, <2>3 DEF SignedStaysCovered, Bounds
    <2>6. \A s \in Slots : \A v \in disk'[s] :
            \/ v \in disk[s] \/ v = NoMark
            \/ s = <<upd.key, upd.op>> /\ v = FloorAt(upd.level)
      BY <1>11, <2>1, InFlightIsMark DEF UpdateWrite, Pwrite, StoreTypeOK
    <2>7. \/ /\ upd' \in Update /\ upd' # None /\ upd'.stage = "sync"
             /\ upd'.key = upd.key /\ upd'.op = upd.op /\ upd'.level = upd.level
             /\ UNCHANGED trust
          \/ upd' = None /\ OverwriteFailed(<<upd.key, upd.op>>)
      <3>1. upd' = [upd EXCEPT !.stage = "sync"] =>
              upd' = [key |-> upd.key, level |-> upd.level, op |-> upd.op, stage |-> "sync"]
        BY <2>1 DEF Update
      <3>2. upd' = [upd EXCEPT !.stage = "sync"] => upd' \in Update /\ upd' # None
        BY <2>1, <3>1, UpdateIsSome DEF Update
      <3> QED
        BY <1>11, <3>1, <3>2 DEF UpdateWrite, UpdateEnd
    <2>8. HandlerInv'
      BY <1>11, <2>2, <2>4 DEF HandlerInv, Holding, UpdateWrite, S, M
    <2>9. CeilerInv'
      BY <2>2, <2>4 DEF CeilerInv
    <2>10. UpdateInv'
      BY <1>11, <2>4, <2>7 DEF UpdateInv, UpdateWrite
    <2>11. SignedStaysCovered'
      BY <2>4, <2>5, <2>6 DEF SignedStaysCovered, Bounds
    <2>12. CeilingIsOnDisk'
      <3>1. \A s \in Slots : /\ ~ Rewriting(s) /\ (~ doubt'[s] => ~ doubt[s])
                             /\ ~ Rewriting(s)' /\ ~ doubt'[s] /\ diskCeiling[s] # NoMark
                                  => s # <<upd.key, upd.op>>
        <4>1. \A s \in Slots : ~ Rewriting(s)
          BY <1>11, <2>2 DEF Rewriting, UpdateWrite, Holding
        <4>2. CASE upd' = None /\ OverwriteFailed(<<upd.key, upd.op>>)
          BY <2>1, <4>1, <4>2 DEF OverwriteFailed, HistoryTypeOK
        <4>3. CASE upd' # None /\ UNCHANGED trust
          BY <2>7, <4>1, <4>3 DEF Rewriting
        <4> QED
          BY <2>7, <4>2, <4>3
      <3>2. UNCHANGED diskCeiling
        BY <1>11 DEF UpdateWrite
      <3> QED
        BY <2>6, <3>1, <3>2 DEF CeilingIsOnDisk, Bounds
    <2>13. NoDoubleSignUnlessExcused'
      BY <2>4 DEF NoDoubleSignUnlessExcused
    <2> QED
      BY <2>8, <2>9, <2>10, <2>11, <2>12, <2>13
  <1>12. ASSUME UpdateSync
        PROVE  SafetyInv'
    <2>1. /\ upd \in Update /\ <<upd.key, upd.op>> \in Slots
          /\ FloorAt(upd.level) \in Mark
      BY <1>12, FloorAndCeiling DEF UpdateSync, LockTypeOK, Update, Slots
    <2>2. /\ lock = Ui /\ (\A d \in Conns : pc[d] \notin Holding)
          /\ \A t \in Ceilers : lock # t /\ lock' # t
      BY <1>12 DEF UpdateSync, LockInv, UpdateEnd
    <2>3. entries[<<upd.key, upd.op>>] = FloorAt(upd.level)
      BY <1>12, <2>1 DEF UpdateSync, UpdateInv
    <2>4. UNCHANGED <<entries, pc, req, prev, jobs, history, risked>>
      BY <1>12 DEF UpdateSync, OverwriteFailed, Settled
    <2>5. \A p \in issued[<<upd.key, upd.op>>] :
            ~ Excused(<<upd.key, upd.op>>) => AtMost(p, FloorAt(upd.level))
      BY <2>1, <2>3 DEF SignedStaysCovered, Bounds
    <2>6. \/ MarkSynced(<<upd.key, upd.op>>, FloorAt(upd.level))
          \/ UNCHANGED <<diskCeiling, disk>> /\ OverwriteFailed(<<upd.key, upd.op>>)
      BY <1>12 DEF UpdateSync
    <2>7. \/ upd' = None
          \/ /\ upd' # None /\ upd'.stage = "pwrite"
             /\ upd'.key = upd.key /\ upd'.level = upd.level
      BY <1>12, <2>1 DEF UpdateSync, UpdateEnd, Update
    <2>8. HandlerInv'
      BY <1>12, <2>2, <2>4 DEF HandlerInv, Holding, UpdateSync, S, M
    <2>9. CeilerInv'
      BY <2>2, <2>4 DEF CeilerInv
    <2>10. UpdateInv'
      BY <1>12, <2>4, <2>7 DEF UpdateInv, UpdateSync
    <2>11. SignedStaysCovered'
      BY <2>1, <2>4, <2>5, <2>6 DEF SignedStaysCovered, Bounds, MarkSynced, StoreTypeOK
    <2>12. CeilingIsOnDisk'
      <3>1. \A s \in Slots : s # <<upd.key, upd.op>> => ~ Rewriting(s)
        BY <1>12, <2>2 DEF Rewriting, UpdateSync, Holding
      <3>2. \A s \in Slots : s # <<upd.key, upd.op>> =>
              UNCHANGED <<diskCeiling[s], disk[s], doubt[s]>>
        BY <1>12, <2>1 DEF UpdateSync, MarkSynced, Settled, OverwriteFailed, StoreTypeOK, HistoryTypeOK
      <3>3. diskCeiling'[<<upd.key, upd.op>>] = NoMark \/ doubt'[<<upd.key, upd.op>>]
        BY <2>1, <2>6 DEF MarkSynced, OverwriteFailed, StoreTypeOK, HistoryTypeOK
      <3> QED
        BY <3>1, <3>2, <3>3 DEF CeilingIsOnDisk
    <2>13. NoDoubleSignUnlessExcused'
      BY <2>4 DEF NoDoubleSignUnlessExcused
    <2> QED
      BY <2>8, <2>9, <2>10, <2>11, <2>12, <2>13
  <1>13. ASSUME HandleAlert
        PROVE  SafetyInv'
    BY <1>13 DEF HandleAlert, HandlerInv, CeilerInv, UpdateInv, SignedStaysCovered,
       CeilingIsOnDisk, NoDoubleSignUnlessExcused, Rewriting, CeilingNotNeeded, S, M
  <1>14. ASSUME HandleUpdate
        PROVE  SafetyInv'
    <2>1. Head(queue).level \in Level
      <3>1. Head(queue) \in Event
        BY <1>14 DEF HandleUpdate, UiTypeOK
      <3> QED
        BY <1>14, <3>1 DEF HandleUpdate, Event, Menu
    <2>2. upd = None /\ lock = None /\ \A d \in Conns : pc[d] \notin Holding
      BY <1>14, Free DEF HandleUpdate, LockInv, LockTypeOK, Holding
    <2>3. /\ UNCHANGED <<diskCeiling, disk, pc, req, prev, jobs, issued, doubled, trust>>
          /\ \/ UNCHANGED <<entries, upd, lock, lowered>>
             \/ UpdateBegin(Head(queue).key, Head(queue).level)
      BY <1>14 DEF HandleUpdate
    <2>4. FloorAt(Head(queue).level) \in Mark /\ FloorAt(Head(queue).level) # NoMark
      BY <2>1, FloorAndCeiling
    <2>5. CASE UNCHANGED <<entries, upd, lock, lowered>>
      BY <2>2, <2>3, <2>5
      DEF HandlerInv, CeilerInv, UpdateInv, SignedStaysCovered, CeilingIsOnDisk,
          NoDoubleSignUnlessExcused, Rewriting, CeilingNotNeeded, S, M
    <2>6. CASE UpdateBegin(Head(queue).key, Head(queue).level)
      <3>1. \A s \in Slots : entries[s] # NoMark => entries'[s] # NoMark
        BY <2>4, <2>6 DEF UpdateBegin, SetFloorInMemory
      <3>2. \A d \in Conns : pc[d] = "respond" => S(d) \in Slots
        BY RequestType DEF RequestInv, S
      <3>3. \A t \in Ceilers : jobs[t] # None => jobs[t].slot \in Slots
        BY DEF LockTypeOK, Job
      <3>4. HandlerInv'
        BY <2>2, <2>3, <3>1, <3>2 DEF HandlerInv, Holding, S, M
      <3>5. CeilerInv'
        BY <2>3, <2>6, <3>1, <3>3 DEF CeilerInv, UpdateBegin
      <3>6. UpdateInv'
        BY <2>6 DEF UpdateInv, UpdateBegin, SetFloorInMemory
      <3>7. SignedStaysCovered'
        <4>1. \A s \in Slots : ~ lowered'[s] =>
                 /\ ~ lowered[s]
                 /\ s[1] = Head(queue).key => \A p \in issued[s] : ~ Below(FloorAt(Head(queue).level), p)
          BY <2>6 DEF UpdateBegin
        <4>2. \A s \in Slots : \A p \in issued[s] :
                 ~ Below(FloorAt(Head(queue).level), p) => Bounds(FloorAt(Head(queue).level), p)
          BY <2>4, NotBelow DEF HistoryTypeOK, Bounds
        <4> QED
          BY <2>3, <2>6, <4>1, <4>2 DEF SignedStaysCovered, UpdateBegin, SetFloorInMemory
      <3>8. CeilingIsOnDisk'
        BY <2>2, <2>3, <2>6 DEF CeilingIsOnDisk, Rewriting, UpdateBegin, S
      <3>9. NoDoubleSignUnlessExcused'
        BY <2>3, <2>6 DEF NoDoubleSignUnlessExcused, UpdateBegin
      <3> QED
        BY <3>4, <3>5, <3>6, <3>7, <3>8, <3>9
    <2> QED
      BY <2>3, <2>5, <2>6
  <1>15. ASSUME HandleMenu
        PROVE  SafetyInv'
    BY <1>15 DEF HandleMenu, HandlerInv, CeilerInv, UpdateInv, SignedStaysCovered,
       CeilingIsOnDisk, NoDoubleSignUnlessExcused, Rewriting, CeilingNotNeeded, S, M
  <1>16. ASSUME Tap
        PROVE  SafetyInv'
    BY <1>16 DEF Tap, HandlerInv, CeilerInv, UpdateInv, SignedStaysCovered,
       CeilingIsOnDisk, NoDoubleSignUnlessExcused, Rewriting, CeilingNotNeeded, S, M
  <1>17. ASSUME NEW level \in ConfigLevels, StageConfig(level)
        PROVE  SafetyInv'
    BY <1>17 DEF StageConfig, HandlerInv, CeilerInv, UpdateInv, SignedStaysCovered,
       CeilingIsOnDisk, NoDoubleSignUnlessExcused, Rewriting, CeilingNotNeeded, S, M
  <1>18. ASSUME Boot
        PROVE  SafetyInv'
    BY <1>18 DEF Boot, HandlerInv, CeilerInv, UpdateInv, SignedStaysCovered,
       CeilingIsOnDisk, NoDoubleSignUnlessExcused, Rewriting, CeilingNotNeeded, S, M
  <1>19. ASSUME Unlock
        PROVE  SafetyInv'
    <2>1. /\ upd = None /\ upd' = None
          /\ \A d \in Conns : pc'[d] = "idle"
          /\ \A t \in Ceilers : jobs'[t] = None
          /\ UNCHANGED <<history, trust>>
      BY <1>19, Free DEF Unlock, LockInv
    <2>2. \A s \in Slots : entries'[s] \in disk[s] /\ disk'[s] = {entries'[s]}
      BY <1>19 DEF Unlock, Load
    <2>3. diskCeiling' = NoMarks
      BY <1>19 DEF Unlock, Load
    <2>4. HandlerInv'
      BY <2>1 DEF HandlerInv, Holding
    <2>5. CeilerInv'
      BY <2>1 DEF CeilerInv
    <2>6. UpdateInv'
      BY <2>1 DEF UpdateInv
    <2>7. SignedStaysCovered'
      BY <2>1, <2>2 DEF SignedStaysCovered
    <2>8. CeilingIsOnDisk'
      BY <2>3 DEF CeilingIsOnDisk, NoMarks
    <2>9. NoDoubleSignUnlessExcused'
      BY <2>1 DEF NoDoubleSignUnlessExcused
    <2> QED
      BY <2>4, <2>5, <2>6, <2>7, <2>8, <2>9
  <1>20. ASSUME StartSigner
        PROVE  SafetyInv'
    BY <1>20 DEF StartSigner, HandlerInv, CeilerInv, UpdateInv, SignedStaysCovered,
       CeilingIsOnDisk, NoDoubleSignUnlessExcused, Rewriting, CeilingNotNeeded, S, M
  <1>21. ASSUME PowerLoss
        PROVE  SafetyInv'
    <2>1. /\ upd' = None
          /\ \A d \in Conns : pc'[d] = "idle"
          /\ \A t \in Ceilers : jobs'[t] = None
          /\ entries' = NoMarks /\ diskCeiling' = NoMarks
          /\ UNCHANGED <<disk, history, risked>>
      BY <1>21 DEF PowerLoss
    <2>2. HandlerInv'
      BY <2>1 DEF HandlerInv, Holding
    <2>3. CeilerInv'
      BY <2>1 DEF CeilerInv
    <2>4. UpdateInv'
      BY <2>1 DEF UpdateInv
    <2>5. SignedStaysCovered'
      BY <2>1 DEF SignedStaysCovered, NoMarks, Bounds
    <2>6. CeilingIsOnDisk'
      BY <2>1 DEF CeilingIsOnDisk, NoMarks
    <2>7. NoDoubleSignUnlessExcused'
      BY <2>1 DEF NoDoubleSignUnlessExcused
    <2> QED
      BY <2>2, <2>3, <2>4, <2>5, <2>6, <2>7
  <1>22. ASSUME NEW k \in Keys, SeedFloor(k)
        PROVE  SafetyInv'
    <2>1. staged \in Level
      BY <1>22 DEF SeedFloor, BootTypeOK, RequestInv
    <2>2. upd = None /\ lock = None /\ \A d \in Conns : pc[d] \notin Holding
      BY <1>22, Free DEF SeedFloor, LockInv, LockTypeOK, Holding
    <2>3. /\ UNCHANGED <<diskCeiling, disk, pc, req, prev, jobs, issued, doubled, trust>>
          /\ \/ UNCHANGED <<entries, upd, lock, lowered>>
             \/ UpdateBegin(k, staged)
      BY <1>22 DEF SeedFloor
    <2>4. FloorAt(staged) \in Mark /\ FloorAt(staged) # NoMark
      BY <2>1, FloorAndCeiling
    <2>5. CASE UNCHANGED <<entries, upd, lock, lowered>>
      BY <2>2, <2>3, <2>5
      DEF HandlerInv, CeilerInv, UpdateInv, SignedStaysCovered, CeilingIsOnDisk,
          NoDoubleSignUnlessExcused, Rewriting, CeilingNotNeeded, S, M
    <2>6. CASE UpdateBegin(k, staged)
      <3>1. \A s \in Slots : entries[s] # NoMark => entries'[s] # NoMark
        BY <2>4, <2>6 DEF UpdateBegin, SetFloorInMemory
      <3>2. \A d \in Conns : pc[d] = "respond" => S(d) \in Slots
        BY RequestType DEF RequestInv, S
      <3>3. \A t \in Ceilers : jobs[t] # None => jobs[t].slot \in Slots
        BY DEF LockTypeOK, Job
      <3>4. HandlerInv'
        BY <2>2, <2>3, <3>1, <3>2 DEF HandlerInv, Holding, S, M
      <3>5. CeilerInv'
        BY <2>3, <2>6, <3>1, <3>3 DEF CeilerInv, UpdateBegin
      <3>6. UpdateInv'
        BY <2>6 DEF UpdateInv, UpdateBegin, SetFloorInMemory
      <3>7. SignedStaysCovered'
        <4>1. \A s \in Slots : ~ lowered'[s] =>
                 /\ ~ lowered[s]
                 /\ s[1] = k => \A p \in issued[s] : ~ Below(FloorAt(staged), p)
          BY <2>6 DEF UpdateBegin
        <4>2. \A s \in Slots : \A p \in issued[s] :
                 ~ Below(FloorAt(staged), p) => Bounds(FloorAt(staged), p)
          BY <2>4, NotBelow DEF HistoryTypeOK, Bounds
        <4> QED
          BY <2>3, <2>6, <4>1, <4>2 DEF SignedStaysCovered, UpdateBegin, SetFloorInMemory
      <3>8. CeilingIsOnDisk'
        BY <2>2, <2>3, <2>6 DEF CeilingIsOnDisk, Rewriting, UpdateBegin, S
      <3>9. NoDoubleSignUnlessExcused'
        BY <2>3, <2>6 DEF NoDoubleSignUnlessExcused, UpdateBegin
      <3> QED
        BY <3>4, <3>5, <3>6, <3>7, <3>8, <3>9
    <2> QED
      BY <2>3, <2>5, <2>6
  <1>23. CASE UNCHANGED vars
    BY <1>23
    DEF vars, HandlerInv, CeilerInv, UpdateInv, SignedStaysCovered,
        CeilingIsOnDisk, NoDoubleSignUnlessExcused, Rewriting, CeilingNotNeeded, S, M
  <1> QED
    BY <1>1, <1>2, <1>3, <1>4, <1>5, <1>6, <1>7, <1>8, <1>9, <1>10, <1>11,
       <1>12, <1>13, <1>14, <1>15, <1>16, <1>17, <1>18, <1>19, <1>20, <1>21,
       <1>22, <1>23 DEF Next, Handler

(* The safety invariant holds when the device is switched on.               *)
LEMMA SafetyInit == Init => SafetyInv
  BY NoMarkAssumption
  DEF Init, SafetyInv, Excused, HandlerInv, Holding, CeilerInv, UpdateInv,
      SignedStaysCovered, CeilingIsOnDisk, NoDoubleSignUnlessExcused, NoMarks

(* The type and the safety invariant hold in every reachable state.         *)
LEMMA Safety == Spec => [](TypeInv /\ SafetyInv)
  <1>1. Init => TypeInv /\ SafetyInv
    BY TypeInit, SafetyInit
  <1>2. TypeInv /\ SafetyInv /\ [Next]_vars => (TypeInv /\ SafetyInv)'
    BY TypeNext, SafetyNext
  <1> QED
    BY <1>1, <1>2, PTL DEF Spec

(* No power loss, wherever it falls between a pwrite, an fdatasync, a       *)
(* signature and a ceiling thread, lets the device load a mark under a      *)
(* position it has signed, whichever of the writes fail: unless a floor was *)
(* set under the position, or it was signed on a ceiling a failed write of  *)
(* another mark had been put over.                                          *)
THEOREM CrashForgetsNothing == Spec => []SignedStaysCovered
  <1>1. SafetyInv => SignedStaysCovered
    BY DEF SafetyInv
  <1> QED
    BY <1>1, Safety, PTL

(* The ceiling the fast path relies on is on stable storage whenever the    *)
(* store claims one, its file is not being rewritten, and no write of       *)
(* another mark has failed over it (rollback_disk_watermark and             *)
(* update_to_level then leave disk_ceiling as it was).                      *)
THEOREM CeilingSound == Spec => []CeilingIsOnDisk
  <1>1. SafetyInv => CeilingIsOnDisk
    BY DEF SafetyInv
  <1> QED
    BY <1>1, Safety, PTL

(* No position is signed twice, across any handlers, ceiling threads, keys, *)
(* power losses and failing writes, unless update_to_level set a floor      *)
(* under a signature or one was made on a ceiling that could not be trusted. *)
THEOREM NeverTwice == Spec => []NoDoubleSignUnlessExcused
  <1>1. SafetyInv => NoDoubleSignUnlessExcused
    BY DEF SafetyInv
  <1> QED
    BY <1>1, Safety, PTL

-----------------------------------------------------------------------------
(* The refinement of SignerPromise. *)

(* A signature leaving the device is a Sign step of the promise.            *)
LEMMA SignRefines ==
    ASSUME TypeInv, SafetyInv, NEW c \in Conns,
           pc[c] \in {"fast", "pwrite", "sync"}, Sign(c),
           \/ UNCHANGED risked
           \/ risked' = [risked EXCEPT ![S(c)] = @ \/ doubt[S(c)]]
    PROVE  Promise!Next
  <1>1. S(c) \in Slots /\ M(c) \in Mark
    BY RequestType DEF TypeInv, RequestInv, S, M
  <1>2. /\ prev[c] \in Mark /\ Below(prev[c], M(c))
        /\ ~ Excused(S(c)) => \A q \in issued[S(c)] : AtMost(q, prev[c])
    BY DEF SafetyInv, HandlerInv, Holding, TypeInv, TypeOK, ConnTypeOK, OptMark
  <1>3. ~ Excused(S(c)) => \A q \in issued[S(c)] : Promise!Below(q, M(c))
    BY <1>1, <1>2, MaxAssumption
    DEF TypeInv, TypeOK, HistoryTypeOK, Below, AtMost, Mark, Level, Promise!Below
  <1>4. [s \in Slots |-> Excused(s)]' \in
           {[s \in Slots |-> Excused(s)],
            [[s \in Slots |-> Excused(s)] EXCEPT ![S(c)] = TRUE]}
    <2>1. UNCHANGED lowered
      BY DEF Sign
    <2>2. /\ \A s \in Slots : s # S(c) => risked'[s] = risked[s]
          /\ risked[S(c)] => risked'[S(c)]
      BY <1>1, RiskGrows DEF TypeInv, TypeOK
    <2> DEFINE f == [s \in Slots |-> lowered[s] \/ risked[s]]
               g == [s \in Slots |-> lowered'[s] \/ risked'[s]]
    <2>3. f \in [Slots -> BOOLEAN] /\ g \in [Slots -> BOOLEAN]
      OBVIOUS
    <2>4. /\ \A x \in Slots : x # S(c) => g[x] = f[x]
          /\ f[S(c)] => g[S(c)]
      BY <1>1, <2>1, <2>2
    <2>5. [s \in Slots |-> Excused(s)] = f /\ [s \in Slots |-> Excused(s)]' = g
      BY DEF Excused
    <2> HIDE DEF f, g
    <2> QED
      BY <1>1, <2>3, <2>4, <2>5, RaisedAt
  <1>5. Promise!Sign(S(c), M(c))
    BY <1>1, <1>3, <1>4 DEF Sign, Promise!Sign
  <1> QED
    BY <1>1, <1>5 DEF Promise!Next, Promise!Mark, Promise!Level, Mark, Level

(* Installing a floor is a Lower step of the promise, or none.              *)
LEMMA LowerRefines ==
    ASSUME TypeInv, TypeInv', NEW k, NEW level, UpdateBegin(k, level),
           UNCHANGED <<issued, doubled, risked>>
    PROVE  Promise!Next
  <1>1. \A s \in Slots : Excused(s) => Excused(s)'
    BY DEF UpdateBegin, Excused
  <1>2. \A s \in Slots : Excused(s) \in BOOLEAN /\ Excused(s)' \in BOOLEAN
    BY DEF Excused
  <1> QED
    BY <1>1, <1>2 DEF Promise!Next, Promise!LowerFloors

(* Every step of the device is a step of the promise or leaves it alone.    *)
LEMMA StepRefines ==
    ASSUME TypeInv, TypeInv', SafetyInv, [Next]_vars
    PROVE  [Promise!Next]_<<issued, doubled, [s \in Slots |-> Excused(s)]>>
  <1> DEFINE Still == UNCHANGED <<issued, doubled, lowered, risked>>
  <1>1. ASSUME NEW c \in Conns, Handler(c)
        PROVE  Promise!Next \/ Still
    <2>1. \/ Still
          \/ /\ pc[c] \in {"fast", "pwrite", "sync"} /\ Sign(c)
             /\ \/ UNCHANGED risked
                \/ risked' = [risked EXCEPT ![S(c)] = @ \/ doubt[S(c)]]
      BY <1>1 DEF Handler, CheckAndUpdate, SignCovered, WriteMark, SyncMark,
         UndoWrite, UndoSync, Respond, SignFailed, Refuse, history, trust,
         OverwriteFailed, Settled
    <2> QED
      BY <2>1, SignRefines
  <1>2. ASSUME HandleUpdate
        PROVE  Promise!Next
    BY <1>2, LowerRefines DEF HandleUpdate, trust
  <1>3. ASSUME NEW k \in Keys, SeedFloor(k)
        PROVE  Promise!Next \/ Still
    BY <1>3, LowerRefines DEF SeedFloor, trust
  <1>4. ASSUME \E c \in Conns : \E r \in Requests : Precheck(c, r)
        PROVE  Still
    BY <1>4 DEF Precheck, history, trust
  <1>5. ASSUME \E t \in Ceilers : CeilingWrite(t) \/ CeilingSync(t)
        PROVE  Still
    BY <1>5 DEF CeilingWrite, CeilingSync, history, trust, Settled
  <1>6. ASSUME UpdateWrite \/ UpdateSync \/ HandleAlert \/ HandleMenu \/ Tap
        PROVE  Still
    BY <1>6 DEF UpdateWrite, UpdateSync, HandleAlert, HandleMenu, Tap, history, trust,
       OverwriteFailed, Settled
  <1>7. ASSUME \/ Boot \/ Unlock \/ StartSigner \/ PowerLoss
               \/ \E level \in ConfigLevels : StageConfig(level)
        PROVE  Still
    BY <1>7 DEF Boot, Unlock, StartSigner, PowerLoss, StageConfig, history, trust
  <1>8. ASSUME UNCHANGED vars
        PROVE  Still
    BY <1>8 DEF vars, history, trust
  <1>9. Promise!Next \/ Still
    BY <1>1, <1>2, <1>3, <1>4, <1>5, <1>6, <1>7, <1>8 DEF Next
  <1>10. Still => UNCHANGED <<issued, doubled, [s \in Slots |-> Excused(s)]>>
    BY DEF Excused
  <1> QED
    BY <1>9, <1>10

(* The device, with its threads, files, fast path and power losses,         *)
(* implements what it promises the baker: at every key and operation type   *)
(* signatures rise strictly until a floor is set under one of them, or one  *)
(* is made that a failed write may let a crash forget.                      *)
THEOREM ImplementsPromise == Spec => PromiseKept
  <1>1. Init => Promise!Init
    BY DEF Init, Promise!Init, Excused
  <1>2. TypeInv /\ TypeInv' /\ SafetyInv /\ [Next]_vars
          => [Promise!Next]_<<issued, doubled, [s \in Slots |-> Excused(s)]>>
    BY StepRefines
  <1> QED
    BY <1>1, <1>2, Safety, PTL DEF Spec, PromiseKept, Promise!Spec

-----------------------------------------------------------------------------
(* What a crash costs the baker. *)

(* No mark and no floor fails to be written: either would leave its level   *)
(* in the file when the mark in memory is taken back or already replaced.   *)
WritesSucceed == Failing \subseteq {"ceiling"}

(* Then no ceiling is ever doubted: no mark is put over one in vain.        *)
NoDoubt == \A s \in Slots : ~ doubt[s] /\ ~ risked[s]

(* Every step keeps it so.                                                  *)
LEMMA NoDoubtStep ==
    ASSUME WritesSucceed, TypeInv, NoDoubt, [Next]_vars
    PROVE  NoDoubt'
<1> USE DEF WritesSucceed, NoDoubt, trust
<1>1. \/ UNCHANGED trust
      \/ \E s : Settled(s)
      \/ \E s : UNCHANGED doubt /\ risked' = [risked EXCEPT ![s] = @ \/ doubt[s]]
      \/ PowerLoss
  <2>1. ASSUME NEW c \in Conns, Handler(c) \/ \E r \in Requests : Precheck(c, r)
        PROVE  \/ UNCHANGED trust
               \/ Settled(S(c))
               \/ UNCHANGED doubt /\ risked' = [risked EXCEPT ![S(c)] = @ \/ doubt[S(c)]]
    BY <2>1 DEF Handler, Precheck, CheckAndUpdate, SignCovered, WriteMark, SyncMark, UndoWrite,
                UndoSync, Respond
  <2>2. ASSUME NEW t \in Ceilers, CeilingWrite(t) \/ CeilingSync(t)
        PROVE  UNCHANGED trust \/ Settled(jobs[t].slot)
    BY <2>2 DEF CeilingWrite, CeilingSync
  <2>3. CASE UpdateWrite \/ UpdateSync
    BY <2>3 DEF UpdateWrite, UpdateSync
  <2>4. CASE \/ HandleAlert \/ HandleUpdate \/ HandleMenu \/ Tap
             \/ \E level \in ConfigLevels : StageConfig(level)
             \/ Boot \/ Unlock \/ StartSigner \/ \E k \in Keys : SeedFloor(k)
             \/ UNCHANGED vars
    BY <2>4 DEF HandleAlert, HandleUpdate, HandleMenu, Tap, StageConfig, Boot, Unlock,
                StartSigner, SeedFloor, vars
  <2> QED
    BY <2>1, <2>2, <2>3, <2>4 DEF Next
<1>2. ASSUME NEW s, Settled(s)
      PROVE  NoDoubt'
  BY <1>2 DEF Settled, TypeInv, TypeOK, HistoryTypeOK
<1>3. ASSUME NEW s, UNCHANGED doubt, risked' = [risked EXCEPT ![s] = @ \/ doubt[s]]
      PROVE  NoDoubt'
  BY <1>3 DEF TypeInv, TypeOK, HistoryTypeOK
<1>4. CASE PowerLoss
  BY <1>4 DEF PowerLoss
<1> QED
  BY <1>1, <1>2, <1>3, <1>4

(* The files still to be brought back: those of a floor that is being       *)
(* written, and the one of a request that is being undone.                  *)
Unsettled(s) ==
    \/ upd # None /\ s[1] = upd.key /\ s[2] >= upd.op
    \/ \E c \in Conns : pc[c] \in {"undo", "undosync"} /\ S(c) = s

(* Every other file is at most one level ahead of memory, and so is what a  *)
(* ceiling thread is going to write, since its level follows a signature.   *)
NearInv ==
    /\ \A s \in Slots : ~ lowered[s] /\ entries[s] # NoMark /\ ~ Unsettled(s) =>
           \A v \in disk[s] : v = NoMark \/ v.level <= entries[s].level + 1
    /\ \A t \in Ceilers : jobs[t] # None =>
           \E p \in issued[jobs[t].slot] : jobs[t].level <= p.level + 1
    /\ \A c \in Conns : pc[c] = "respond" => M(c) \in issued[S(c)]

(* Where a level follows that of a mark.                                    *)
LEMMA FollowsSignature ==
    ASSUME TypeInv, SafetyInv, NoDoubt, NEW s \in Slots, ~ lowered[s], entries[s] # NoMark,
           NEW p \in issued[s], NEW level \in Level, level <= p.level + 1
    PROVE  level <= entries[s].level + 1
<1>1. p \in Mark /\ entries[s] \in Mark
  BY DEF TypeInv, TypeOK, HistoryTypeOK, StoreTypeOK, OptMark
<1>2. AtMost(p, entries[s])
  BY DEF SafetyInv, SignedStaysCovered, Bounds, Excused, NoDoubt
<1> QED
  BY <1>1, <1>2 DEF AtMost, Mark, Level

(* Every step keeps the files near the marks.                               *)
LEMMA NearStep ==
    ASSUME WritesSucceed, TypeInv, TypeInv', SafetyInv, NoDoubt, NearInv, [Next]_vars
    PROVE  NearInv'
<1> DEFINE Near(s) == ~ lowered[s] /\ entries[s] # NoMark /\ ~ Unsettled(s) =>
                        \A v \in disk[s] : v = NoMark \/ v.level <= entries[s].level + 1
           Follows == \A t \in Ceilers : jobs[t] # None =>
                        \E p \in issued[jobs[t].slot] : jobs[t].level <= p.level + 1
           Signed == \A c \in Conns : pc[c] = "respond" => M(c) \in issued[S(c)]
<1> USE NoMarkAssumption, ThreadAssumption
<1> USE DEF TypeInv, TypeOK, bootVars, connVars, uiVars, history, storeVars
<1>0. /\ (\A s \in Slots : Near(s)) /\ Follows /\ Signed
      /\ (\A s \in Slots : Near(s)') /\ Follows' /\ Signed' => NearInv'
  BY DEF NearInv
<1>1. ASSUME NEW c \in Conns, CheckAndUpdate(c)
      PROVE  NearInv'
  <2>1. req[c] \in Requests /\ S(c) \in Slots /\ M(c) \in Mark
    BY <1>1, RequestType DEF RequestInv, S, M, CheckAndUpdate
  <2>2. /\ upd = None /\ upd' = None
        /\ \A d \in Conns : pc[d] \notin Holding
    BY <1>1, Free DEF CheckAndUpdate
  <2>3. /\ \A d \in Conns : d # c => pc'[d] = pc[d] /\ S(d)' = S(d) /\ M(d)' = M(d)
        /\ pc'[c] \in {"idle", "fast", "pwrite"}
    BY <1>1 DEF CheckAndUpdate, Return, ConnTypeOK, S, M
  <2>4. Accepts(entries[S(c)], M(c)) =>
          entries[S(c)] \in Mark /\ entries[S(c)].level <= M(c).level
    BY <2>1, AcceptsAbove DEF StoreTypeOK, Below, Mark, Level
  <2>5. \A s \in Slots : ~ Unsettled(s) /\ ~ Unsettled(s)'
    BY <2>2, <2>3 DEF Unsettled, Holding
  <2>6. \A s \in Slots : /\ entries[s] = NoMark => entries'[s] = NoMark
                         /\ entries[s] # NoMark => /\ entries'[s] \in Mark
                                                   /\ entries[s].level <= entries'[s].level
    BY <1>1, <2>1, <2>4 DEF CheckAndUpdate, StoreTypeOK, OptMark, Accepts, Mark, Level
  <2>7. \A s \in Slots : Near(s)'
    <3> SUFFICES ASSUME NEW s \in Slots, ~ lowered[s], entries[s] # NoMark,
                        NEW v \in disk[s], v # NoMark
                 PROVE  v.level <= entries'[s].level + 1
      BY <1>1, <2>6 DEF CheckAndUpdate
    <3>1. v \in Mark /\ entries[s] \in Mark /\ v.level <= entries[s].level + 1
      BY <1>0, <2>5 DEF StoreTypeOK, OptMark
    <3> QED
      BY <2>6, <3>1 DEF Mark, Level
  <2>8. Follows' /\ Signed'
    BY <1>0, <1>1, <2>3 DEF CheckAndUpdate
  <2> QED
    BY <1>0, <2>7, <2>8
<1>2. ASSUME NEW c \in Conns, SignCovered(c)
      PROVE  NearInv'
  <2>1. req[c] \in Requests /\ S(c) \in Slots /\ M(c) \in Mark
    BY <1>2, RequestType DEF RequestInv, S, M, SignCovered
  <2>2. /\ upd = None /\ upd' = None
        /\ \A d \in Conns : pc[d] \in Holding => d = c
    BY <1>2, Alone DEF SignCovered, Holding, Sign, SignFailed, Goto
  <2>3. \A d \in Conns : /\ S(d)' = S(d) /\ M(d)' = M(d)
                         /\ d # c => pc'[d] = pc[d]
    BY <1>2 DEF SignCovered, Sign, SignFailed, Goto, ConnTypeOK, S, M
  <2>4. /\ pc[c] = "fast" /\ UNCHANGED <<disk, jobs>>
        /\ \A s \in Slots : issued[s] \subseteq issued'[s] /\ lowered'[s] = lowered[s]
        /\ \/ pc'[c] = "respond" /\ entries' = entries /\ M(c) \in issued'[S(c)]
           \/ pc'[c] = "undo" /\ entries' = [entries EXCEPT ![S(c)] = prev[c]]
    BY <1>2, <2>1 DEF SignCovered, Sign, SignFailed, Rollback, Goto, ConnTypeOK, HistoryTypeOK
  <2>5. \A s \in Slots : /\ ~ Unsettled(s)
                         /\ pc'[c] = "undo" => (Unsettled(s)' <=> s = S(c))
    BY <2>2, <2>3, <2>4 DEF Unsettled, Holding
  <2>6. \A s \in Slots : Near(s)'
    BY <1>0, <2>1, <2>4, <2>5 DEF StoreTypeOK
  <2>7. Follows' /\ Signed'
    <3>1. \A t \in Ceilers : jobs[t] # None => jobs[t].slot \in Slots
      BY DEF LockTypeOK, Job
    <3>2. \A d \in Conns : pc[d] = "respond" => S(d) \in Slots
      BY RequestType DEF RequestInv, S
    <3> QED
      BY <1>0, <2>3, <2>4, <3>1, <3>2
  <2> QED
    BY <1>0, <2>6, <2>7
<1>3. ASSUME NEW c \in Conns, WriteMark(c)
      PROVE  NearInv'
  <2>1. req[c] \in Requests /\ S(c) \in Slots /\ M(c) \in Mark
    BY <1>3, RequestType DEF RequestInv, S, M, WriteMark
  <2>2. upd = None /\ \A d \in Conns : pc[d] \in Holding => d = c
    BY <1>3, Alone DEF WriteMark, Holding
  <2>3. /\ Goto(c, "sync") /\ pc[c] = "pwrite"
        /\ UNCHANGED <<entries, lock, history, upd, jobs>>
    BY <1>3 DEF WriteMark, WritesSucceed
  <2>4. /\ \A d \in Conns : /\ S(d)' = S(d) /\ M(d)' = M(d)
                            /\ d # c => pc'[d] = pc[d]
        /\ pc'[c] = "sync"
    BY <2>3 DEF Goto, ConnTypeOK, S, M
  <2>5. entries[S(c)] = M(c)
    BY <2>3 DEF SafetyInv, HandlerInv
  <2>6. \A s \in Slots : \A v \in disk'[s] :
          v \in disk[s] \/ v = NoMark \/ (s = S(c) /\ v = M(c))
    BY <1>3, <2>1, InFlightIsMark DEF WriteMark, Pwrite, StoreTypeOK
  <2>7. \A s \in Slots : ~ Unsettled(s)
    BY <2>2, <2>3 DEF Unsettled, Holding
  <2>8. \A s \in Slots : Near(s)'
    BY <1>0, <2>1, <2>3, <2>5, <2>6, <2>7 DEF Mark, Level
  <2>9. Follows' /\ Signed'
    BY <1>0, <2>3, <2>4
  <2> QED
    BY <1>0, <2>8, <2>9
<1>4. ASSUME NEW c \in Conns, SyncMark(c)
      PROVE  NearInv'
  <2>1. req[c] \in Requests /\ S(c) \in Slots /\ M(c) \in Mark
    BY <1>4, RequestType DEF RequestInv, S, M, SyncMark
  <2>2. /\ upd = None /\ upd' = None
        /\ \A d \in Conns : pc[d] \in Holding => d = c
    BY <1>4, Alone DEF SyncMark, Holding
  <2>3. MarkSynced(S(c), M(c)) /\ (Sign(c) \/ SignFailed(c))
    BY <1>4 DEF SyncMark, WritesSucceed
  <2>4. \A d \in Conns : /\ S(d)' = S(d) /\ M(d)' = M(d)
                         /\ d # c => pc'[d] = pc[d]
    BY <2>3 DEF Sign, SignFailed, Goto, ConnTypeOK, S, M
  <2>5. /\ pc[c] = "sync" /\ UNCHANGED jobs
        /\ disk' = [disk EXCEPT ![S(c)] = {M(c)}]
        /\ \A s \in Slots : issued[s] \subseteq issued'[s] /\ lowered'[s] = lowered[s]
        /\ \/ pc'[c] = "respond" /\ entries' = entries /\ M(c) \in issued'[S(c)]
           \/ pc'[c] = "undo" /\ entries' = [entries EXCEPT ![S(c)] = prev[c]]
    BY <1>4, <2>1, <2>3
    DEF SyncMark, MarkSynced, Sign, SignFailed, Rollback, Goto, ConnTypeOK, HistoryTypeOK
  <2>6. \A s \in Slots : /\ ~ Unsettled(s)
                         /\ pc'[c] = "undo" => (Unsettled(s)' <=> s = S(c))
    BY <2>2, <2>4, <2>5 DEF Unsettled, Holding
  <2>7. entries[S(c)] = M(c)
    BY <2>5 DEF SafetyInv, HandlerInv
  <2>8. \A s \in Slots : Near(s)'
    BY <1>0, <2>1, <2>5, <2>6, <2>7 DEF StoreTypeOK, Mark, Level
  <2>9. Follows' /\ Signed'
    <3>1. \A t \in Ceilers : jobs[t] # None => jobs[t].slot \in Slots
      BY DEF LockTypeOK, Job
    <3>2. \A d \in Conns : pc[d] = "respond" => S(d) \in Slots
      BY RequestType DEF RequestInv, S
    <3> QED
      BY <1>0, <2>4, <2>5, <3>1, <3>2
  <2> QED
    BY <1>0, <2>8, <2>9
<1>5. ASSUME NEW c \in Conns, UndoWrite(c)
      PROVE  NearInv'
  <2>1. Goto(c, "undosync") /\ pc[c] = "undo" /\ UNCHANGED <<entries, history, upd, jobs>>
    BY <1>5 DEF UndoWrite, WritesSucceed
  <2>2. S(c) \in Slots /\ \A s \in Slots : s # S(c) => disk'[s] = disk[s]
    BY <1>5, RequestType DEF UndoWrite, Pwrite, StoreTypeOK, RequestInv, S
  <2>3. \A d \in Conns : /\ S(d)' = S(d) /\ M(d)' = M(d)
                         /\ pc'[d] = IF d = c THEN "undosync" ELSE pc[d]
    BY <2>1 DEF Goto, ConnTypeOK, S, M
  <2>4. \A s \in Slots : Unsettled(s)' <=> Unsettled(s)
    BY <2>1, <2>3 DEF Unsettled
  <2>5. Unsettled(S(c))
    BY <2>1 DEF Unsettled
  <2>6. \A s \in Slots : Near(s)'
    BY <1>0, <2>1, <2>2, <2>4, <2>5
  <2>7. Follows' /\ Signed'
    BY <1>0, <2>1, <2>3
  <2> QED
    BY <1>0, <2>6, <2>7
<1>6. ASSUME NEW c \in Conns, UndoSync(c)
      PROVE  NearInv'
  <2>1. /\ pc[c] = "undosync" /\ MarkSynced(S(c), prev[c]) /\ Return(c)
        /\ UNCHANGED <<entries, history, upd, jobs>>
    BY <1>6 DEF UndoSync, WritesSucceed
  <2>2. S(c) \in Slots /\ entries[S(c)] = prev[c] /\ prev[c] \in Mark
    BY <2>1, RequestType DEF RequestInv, S, SafetyInv, HandlerInv, ConnTypeOK, OptMark
  <2>3. \A d \in Conns : /\ d # c => S(d)' = S(d) /\ M(d)' = M(d) /\ pc'[d] = pc[d]
                         /\ d = c => pc'[d] = "idle"
    BY <2>1 DEF Return, ConnTypeOK, S, M
  <2>4. \A s \in Slots : s # S(c) => ~ Unsettled(s)
    BY <2>1, Alone DEF Unsettled, Holding
  <2>5. disk' = [disk EXCEPT ![S(c)] = {prev[c]}]
    BY <2>1 DEF MarkSynced
  <2>6. \A s \in Slots : Near(s)'
    BY <1>0, <2>1, <2>2, <2>4, <2>5 DEF StoreTypeOK, Mark, Level
  <2>7. Follows' /\ Signed'
    BY <1>0, <2>1, <2>3
  <2> QED
    BY <1>0, <2>6, <2>7
<1>7. ASSUME NEW c \in Conns, Respond(c)
      PROVE  NearInv'
  <2>1. pc[c] = "respond" /\ Return(c) /\ UNCHANGED <<entries, disk, history, upd>>
    BY <1>7 DEF Respond
  <2>2. \A d \in Conns : /\ d # c => S(d)' = S(d) /\ M(d)' = M(d) /\ pc'[d] = pc[d]
                         /\ d = c => pc'[d] = "idle"
    BY <2>1 DEF Return, ConnTypeOK, S, M
  <2>3. \A s \in Slots : Unsettled(s)' <=> Unsettled(s)
    BY <2>1, <2>2 DEF Unsettled
  <2>4. \A s \in Slots : Near(s)'
    BY <1>0, <2>1, <2>3
  <2>5. \A t \in Ceilers : \/ jobs'[t] = jobs[t]
                           \/ jobs'[t] = [slot |-> S(c), level |-> M(c).level + 1]
    BY <1>7 DEF Respond, Schedule, LockTypeOK
  <2>6. M(c) \in issued[S(c)] /\ M(c).level \in Level
    BY <1>0, <2>1, RequestType DEF RequestInv, M
  <2>7. Follows'
    <3> SUFFICES ASSUME NEW t \in Ceilers, jobs'[t] # None
                 PROVE  \E p \in issued[jobs'[t].slot] : jobs'[t].level <= p.level + 1
      BY <2>1
    <3>1. CASE jobs'[t] = jobs[t]
      BY <1>0, <3>1
    <3>2. CASE jobs'[t] = [slot |-> S(c), level |-> M(c).level + 1]
      <4>1. jobs'[t].slot = S(c) /\ jobs'[t].level <= M(c).level + 1
        BY <2>6, <3>2 DEF Level
      <4> QED
        BY <2>6, <4>1
    <3> QED
      BY <2>5, <3>1, <3>2
  <2>8. Signed'
    BY <1>0, <2>1, <2>2
  <2> QED
    BY <1>0, <2>4, <2>7, <2>8
<1>8. ASSUME NEW c \in Conns, NEW r \in Requests, Precheck(c, r)
      PROVE  NearInv'
  <2>1. \A d \in Conns : \/ S(d)' = S(d) /\ M(d)' = M(d) /\ pc'[d] = pc[d]
                         \/ pc[d] = "idle" /\ pc'[d] = "check"
    BY <1>8 DEF Precheck, ConnTypeOK, S, M
  <2>2. \A s \in Slots : Unsettled(s)' <=> Unsettled(s)
    BY <1>8, <2>1 DEF Precheck, Unsettled
  <2>3. \A s \in Slots : Near(s)'
    BY <1>0, <1>8, <2>2 DEF Precheck
  <2>4. Follows' /\ Signed'
    BY <1>0, <1>8, <2>1 DEF Precheck
  <2> QED
    BY <1>0, <2>3, <2>4
<1>9. ASSUME NEW t \in Ceilers, CeilingWrite(t)
      PROVE  NearInv'
  <2> DEFINE s == jobs[t].slot
             level == jobs[t].level
  <2>1. s \in Slots /\ level \in Level /\ entries[s] # NoMark
    BY <1>9 DEF CeilingWrite, LockTypeOK, Job, SafetyInv, CeilerInv
  <2>2. \A x \in Slots : ~ Unsettled(x)
    BY <1>9, Free DEF CeilingWrite, Unsettled, Holding
  <2>3. \A x \in Slots : \A v \in disk'[x] :
          v \in disk[x] \/ v = NoMark \/ (x = s /\ v = CeilingAt(level))
    <3>1. CeilingAt(level) \in Mark
      BY <2>1, FloorAndCeiling
    <3>2. InFlight(CeilingAt(level)) \subseteq {CeilingAt(level), NoMark}
      BY <3>1, InFlightIsMark
    <3>3. disk' = disk \/ disk' = [disk EXCEPT ![s] = @ \cup InFlight(CeilingAt(level))]
      BY <1>9 DEF CeilingWrite, Pwrite
    <3> QED
      BY <2>1, <3>2, <3>3 DEF StoreTypeOK
  <2>4. ~ lowered[s] => level <= entries[s].level + 1
    BY <1>0, <1>9, <2>1, FollowsSignature DEF CeilingWrite
  <2> HIDE DEF s, level
  <2>5. \A x \in Slots : Near(x)'
    BY <1>0, <1>9, <2>2, <2>3, <2>4 DEF CeilingWrite, CeilingAt
  <2>6. \A x \in Ceilers : jobs'[x] = jobs[x] \/ jobs'[x] = None
    BY <1>9 DEF CeilingWrite, LockTypeOK
  <2>7. Follows' /\ Signed'
    BY <1>0, <1>9, <2>6 DEF CeilingWrite, S, M
  <2> QED
    BY <1>0, <2>5, <2>7
<1>10. ASSUME NEW t \in Ceilers, CeilingSync(t)
       PROVE  NearInv'
  <2> DEFINE s == jobs[t].slot
             level == jobs[t].level
  <2>1. jobs[t] # None /\ s \in Slots /\ level \in Level /\ entries[s] # NoMark
    BY <1>10 DEF CeilingSync, LockInv, LockTypeOK, Job, SafetyInv, CeilerInv
  <2>2. \A x \in Slots : ~ Unsettled(x)
    BY <1>10 DEF CeilingSync, Unsettled, Holding, LockInv
  <2>3. \A x \in Slots : \A v \in disk'[x] : v \in disk[x] \/ (x = s /\ v = CeilingAt(level))
    BY <1>10, <2>1 DEF CeilingSync, CeilingSynced, StoreTypeOK
  <2>4. ~ lowered[s] => level <= entries[s].level + 1
    BY <1>0, <2>1, FollowsSignature
  <2> HIDE DEF s, level
  <2>5. \A x \in Slots : Near(x)'
    BY <1>0, <1>10, <2>2, <2>3, <2>4 DEF CeilingSync, CeilingAt
  <2>6. \A x \in Ceilers : jobs'[x] = jobs[x] \/ jobs'[x] = None
    BY <1>10 DEF CeilingSync, LockTypeOK
  <2>7. Follows' /\ Signed'
    BY <1>0, <1>10, <2>6 DEF CeilingSync, S, M
  <2> QED
    BY <1>0, <2>5, <2>7
<1>11. ASSUME UpdateWrite
       PROVE  NearInv'
  <2>1. /\ upd # None /\ upd' = [upd EXCEPT !.stage = "sync"]
        /\ Pwrite(<<upd.key, upd.op>>, FloorAt(upd.level))
        /\ UNCHANGED <<entries, history, connVars, jobs>>
    BY <1>11 DEF UpdateWrite, WritesSucceed
  <2>2. upd \in Update /\ upd' # None /\ upd'.key = upd.key /\ upd'.op = upd.op
    <3>1. upd \in Update
      BY <2>1 DEF LockTypeOK
    <3>2. upd' = [key |-> upd.key, level |-> upd.level, op |-> upd.op, stage |-> "sync"]
      BY <2>1, <3>1 DEF Update
    <3> QED
      BY <3>1, <3>2, UpdateIsSome DEF Update
  <2>3. \A s \in Slots : Unsettled(s)' <=> Unsettled(s)
    BY <2>1, <2>2 DEF Unsettled, S
  <2>4. <<upd.key, upd.op>> \in Slots /\ Unsettled(<<upd.key, upd.op>>)
    BY <2>1, <2>2 DEF Unsettled, Update, Slots, Ops
  <2>5. \A s \in Slots : s # <<upd.key, upd.op>> => disk'[s] = disk[s]
    BY <2>1 DEF Pwrite, StoreTypeOK
  <2>6. \A s \in Slots : Near(s)'
    BY <1>0, <2>1, <2>3, <2>4, <2>5
  <2>7. Follows' /\ Signed'
    BY <1>0, <2>1 DEF S, M
  <2> QED
    BY <1>0, <2>6, <2>7
<1>12. ASSUME UpdateSync
       PROVE  NearInv'
  <2> DEFINE f == <<upd.key, upd.op>>
  <2>1. /\ upd # None /\ MarkSynced(f, FloorAt(upd.level))
        /\ UNCHANGED <<entries, history, connVars, jobs>>
        /\ IF upd.op + 1 < NumOps
           THEN upd' = [upd EXCEPT !.op = @ + 1, !.stage = "pwrite"]
           ELSE upd' = None
    BY <1>12 DEF UpdateSync, WritesSucceed, UpdateEnd
  <2>2. upd \in Update /\ f \in Slots
    BY <2>1 DEF LockTypeOK, Update, Slots
  <2>3. disk' = [disk EXCEPT ![f] = {FloorAt(upd.level)}]
    BY <2>1 DEF MarkSynced
  <2>4. entries[f] = FloorAt(upd.level)
    BY <2>1, <2>2 DEF SafetyInv, UpdateInv
  <2>5. \A s \in Slots : s # f => (Unsettled(s)' <=> Unsettled(s))
    <3> SUFFICES ASSUME NEW s \in Slots, s # f
                 PROVE  Unsettled(s)' <=> Unsettled(s)
      OBVIOUS
    <3>1. PICK k \in Keys, o \in Ops : s = <<k, o>>
      BY DEF Slots
    <3>2. s[1] = k /\ s[2] = o /\ o \in 0 .. NumOps - 1 /\ upd.op \in 0 .. NumOps - 1
      BY <2>2, <3>1 DEF Update, Ops
    <3>3. s[1] = upd.key => s[2] # upd.op
      BY <3>1, <3>2
    <3>4. ASSUME upd.op + 1 < NumOps
          PROVE  upd' # None /\ upd'.key = upd.key /\ upd'.op = upd.op + 1
      <4>1. upd' = [key |-> upd.key, level |-> upd.level, op |-> upd.op + 1, stage |-> "pwrite"]
        BY <2>1, <2>2, <3>4 DEF Update
      <4>2. upd.op + 1 \in Ops /\ upd.key \in Keys /\ upd.level \in Level
        BY <2>2, <3>2, <3>4, NumOpsAssumption DEF Update, Ops
      <4> QED
        BY <4>1, <4>2, UpdateIsSome
    <3>5. CASE upd.op + 1 < NumOps
      BY <2>1, <3>2, <3>3, <3>4, <3>5 DEF Unsettled, S
    <3>6. CASE ~ (upd.op + 1 < NumOps)
      <4>1. s[1] = upd.key => ~ (s[2] >= upd.op)
        BY <3>2, <3>3, <3>6, NumOpsAssumption
      <4> QED
        BY <2>1, <3>6, <4>1 DEF Unsettled, S
    <3> QED
      BY <3>5, <3>6
  <2> HIDE DEF f
  <2>6. \A s \in Slots : Near(s)'
    <3> SUFFICES ASSUME NEW s \in Slots PROVE Near(s)'
      OBVIOUS
    <3>1. CASE s = f
      <4>1. disk'[s] = {FloorAt(upd.level)} /\ entries'[s] = FloorAt(upd.level)
        BY <2>1, <2>2, <2>3, <2>4, <3>1 DEF StoreTypeOK
      <4>2. FloorAt(upd.level).level <= FloorAt(upd.level).level + 1
        BY <2>2 DEF FloorAt, Update, Level
      <4> QED
        BY <4>1, <4>2
    <3>2. CASE s # f
      BY <1>0, <2>1, <2>3, <2>5, <3>2 DEF StoreTypeOK
    <3> QED
      BY <3>1, <3>2
  <2>7. Follows' /\ Signed'
    BY <1>0, <2>1 DEF S, M
  <2> QED
    BY <1>0, <2>6, <2>7
<1>13. ASSUME HandleUpdate
       PROVE  NearInv'
  <2>1. /\ UNCHANGED <<disk, pc, req, jobs, issued>>
        /\ \/ UNCHANGED <<entries, upd, lowered>>
           \/ UpdateBegin(Head(queue).key, Head(queue).level)
    BY <1>13 DEF HandleUpdate
  <2>2. CASE UNCHANGED <<entries, upd, lowered>>
    BY <1>0, <2>1, <2>2 DEF Unsettled, S, M
  <2>3. CASE UpdateBegin(Head(queue).key, Head(queue).level)
    <3>1. Head(queue).key \in Keys /\ Head(queue).level \in Level
      <4>1. Head(queue) \in Event
        BY <1>13 DEF HandleUpdate, UiTypeOK
      <4> QED
        BY <1>13, <4>1 DEF HandleUpdate, Event, Menu
    <3>2. upd' # None /\ upd'.key = Head(queue).key /\ upd'.op = 0
      <4>1. upd' = [key |-> Head(queue).key, level |-> Head(queue).level, op |-> 0, stage |-> "pwrite"]
        BY <2>3 DEF UpdateBegin
      <4>2. 0 \in Ops
        BY NumOpsAssumption DEF Ops
      <4> QED
        BY <3>1, <4>1, <4>2, UpdateIsSome
    <3>3. \A s \in Slots : s[1] = Head(queue).key => Unsettled(s)'
      BY <3>2 DEF Unsettled, Slots, Ops
    <3>4. upd = None
      BY <1>13 DEF HandleUpdate
    <3>5. \A s \in Slots : s[1] # Head(queue).key => /\ entries'[s] = entries[s] /\ lowered'[s] = lowered[s]
                                                     /\ ~ Unsettled(s)' => ~ Unsettled(s)
      BY <2>1, <2>3, <3>4 DEF UpdateBegin, SetFloorInMemory, Unsettled, S, HistoryTypeOK
    <3>6. \A s \in Slots : Near(s)'
      BY <1>0, <2>1, <3>3, <3>5
    <3>7. Follows' /\ Signed'
      BY <1>0, <2>1 DEF S, M
    <3> QED
      BY <1>0, <3>6, <3>7
  <2> QED
    BY <2>1, <2>2, <2>3
<1>14. ASSUME NEW k \in Keys, SeedFloor(k)
       PROVE  NearInv'
  <2>1. /\ UNCHANGED <<disk, pc, req, jobs, issued>>
        /\ \/ UNCHANGED <<entries, upd, lowered>>
           \/ UpdateBegin(k, staged)
    BY <1>14 DEF SeedFloor
  <2>2. CASE UNCHANGED <<entries, upd, lowered>>
    BY <1>0, <2>1, <2>2 DEF Unsettled, S, M
  <2>3. CASE UpdateBegin(k, staged)
    <3>1. k \in Keys /\ staged \in Level
      BY <1>14 DEF SeedFloor, BootTypeOK, RequestInv
    <3>2. upd' # None /\ upd'.key = k /\ upd'.op = 0
      <4>1. upd' = [key |-> k, level |-> staged, op |-> 0, stage |-> "pwrite"]
        BY <2>3 DEF UpdateBegin
      <4>2. 0 \in Ops
        BY NumOpsAssumption DEF Ops
      <4> QED
        BY <3>1, <4>1, <4>2, UpdateIsSome
    <3>3. \A s \in Slots : s[1] = k => Unsettled(s)'
      BY <3>2 DEF Unsettled, Slots, Ops
    <3>4. upd = None
      BY <1>14 DEF SeedFloor
    <3>5. \A s \in Slots : s[1] # k => /\ entries'[s] = entries[s] /\ lowered'[s] = lowered[s]
                                       /\ ~ Unsettled(s)' => ~ Unsettled(s)
      BY <2>1, <2>3, <3>4 DEF UpdateBegin, SetFloorInMemory, Unsettled, S, HistoryTypeOK
    <3>6. \A s \in Slots : Near(s)'
      BY <1>0, <2>1, <3>3, <3>5
    <3>7. Follows' /\ Signed'
      BY <1>0, <2>1 DEF S, M
    <3> QED
      BY <1>0, <3>6, <3>7
  <2> QED
    BY <2>1, <2>2, <2>3
<1>15. CASE HandleAlert \/ HandleMenu \/ Tap
  BY <1>0, <1>15 DEF HandleAlert, HandleMenu, Tap, Unsettled, S, M
<1>16. CASE Boot \/ StartSigner \/ \E level \in ConfigLevels : StageConfig(level)
  BY <1>0, <1>16 DEF Boot, StartSigner, StageConfig, Unsettled, S, M
<1>17. CASE Unlock
  <2>1. /\ \A c \in Conns : pc'[c] = "idle"
        /\ \A t \in Ceilers : jobs'[t] = None
    BY <1>17 DEF Unlock, LockInv
  <2>2. \A s \in Slots : disk'[s] = {entries'[s]} /\ entries'[s] \in OptMark
    BY <1>17 DEF Unlock, Load, StoreTypeOK
  <2>3. \A s \in Slots : Near(s)'
    BY <2>2 DEF OptMark, Mark, Level
  <2> QED
    BY <1>0, <2>1, <2>3
<1>18. CASE PowerLoss
  <2>1. /\ \A c \in Conns : pc'[c] = "idle"
        /\ \A t \in Ceilers : jobs'[t] = None
        /\ \A s \in Slots : entries'[s] = NoMark
    BY <1>18 DEF PowerLoss, NoMarks
  <2> QED
    BY <1>0, <2>1
<1>19. CASE UNCHANGED vars
  BY <1>0, <1>19 DEF vars, Unsettled, S, M
<1> QED
  BY <1>1, <1>2, <1>3, <1>4, <1>5, <1>6, <1>7, <1>8, <1>9, <1>10, <1>11, <1>12,
     <1>13, <1>14, <1>15, <1>16, <1>17, <1>18, <1>19 DEF Next, Handler

(* With no mark or floor that failed to be written, a power loss between    *)
(* two requests costs at most the next level, at any distance of requests   *)
(* (write_ceiling, check_and_update_parsed).                                *)
THEOREM CrashCostsLittle == ASSUME WritesSucceed PROVE Spec => []CrashCostsOneLevel
<1>1. Init => NoDoubt
  BY DEF Init, NoDoubt
<1>2. Init => NearInv
  BY DEF Init, NearInv, NoMarks
<1>3. TypeInv /\ TypeInv' /\ SafetyInv /\ NoDoubt /\ NearInv /\ [Next]_vars
        => NoDoubt' /\ NearInv'
  BY NearStep, NoDoubtStep
<1>4. TypeInv /\ NearInv => CrashCostsOneLevel
  <2> SUFFICES ASSUME TypeInv, NearInv, lock = None PROVE CrashCostsOneLevel
    BY DEF CrashCostsOneLevel
  <2>1. \A s \in Slots : ~ Unsettled(s)
    BY Free DEF Unsettled, Holding
  <2> QED
    BY <2>1 DEF NearInv, CrashCostsOneLevel
<1> QED
  BY <1>1, <1>2, <1>3, <1>4, Safety, PTL DEF Spec
=============================================================================
