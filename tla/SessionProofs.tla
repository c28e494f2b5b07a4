--------------------------- MODULE SessionProofs ---------------------------
(***************************************************************************)
(* Rekeys, retirement and Close for every number of key-ids, of rekeyers   *)
(* and of generations.                                                     *)
(***************************************************************************)
EXTENDS Session, TLAPS

(* The provers every leaf may use, and how long the first may take. *)
USE SMTT(20), Zenon

(* Where a rekey is: outside Begin's critical section, with the key-ids it *)
(* has chosen, with a layer of its own, and past the switch.               *)
Outside == {"idle", "begin", "returned", "report"}
Pumping == {"writeLoop", "tickLoop"}
Exchanging == {"reset", "handshake", "keys", "slot"}
Before == {"layer", "activate"} \cup Pumping \cup Exchanging
After == {"conn", "previous", "schedule"}
Critical == Before \cup After
Rekey ==
  [pc : Outside \cup Critical, old : KIDs, new : KIDs, gen : Nat, prev : Nat,
   err : {"nil", "ErrClosed", "ErrRekeyInProgress", "failed"}]
Closer ==
  [pc : {"none", "exit", "shutdown", "retire", "conn", "wait", "done"}, kid : KIDs,
   by : {"nobody", "user", "async", Watch}]

TypeInv ==
  /\ slots \in [KIDs -> Nat] /\ layers \in [KIDs -> Nat] /\ active \in KIDs
  /\ openLayers \subseteq Nat /\ tlsConn \in Nat /\ openConns \subseteq Nat
  /\ gen \in Nat \ {0}
  /\ rekey \in [Rekeyers -> Rekey]
  /\ timers \subseteq [kid : KIDs, slot : Nat, layer : Nat]
  /\ closed \in BOOLEAN /\ shutdown \in BOOLEAN /\ inProgress \in BOOLEAN
  /\ closer \in Closer

(* inProgress is a lock: one rekey at a time is past Begin. *)
LockInv ==
  /\ \A r \in Rekeyers : rekey[r].pc \in Critical => inProgress
  /\ \A q, r \in Rekeyers : rekey[q].pc \in Critical /\ rekey[r].pc \in Critical => q = r

(* What the rekey under way has chosen and made. *)
Chosen(r) ==
  /\ rekey[r].pc \in Before => rekey[r].old = active /\ rekey[r].new = nextKeyID(active)
  /\ rekey[r].pc \in After => rekey[r].new = active /\ rekey[r].old # active
  /\ rekey[r].pc \in Critical \ {"layer"} => rekey[r].gen = gen
  /\ rekey[r].pc \in Pumping \cup Exchanging => \A k \in KIDs : slots[k] < gen
  /\ rekey[r].pc = "activate" => slots[rekey[r].new] = gen /\ slots[active] < gen
RekeyInv == \A r \in Rekeyers : Chosen(r)

(* The active slot is the newest, but for one about to be switched to, and *)
(* no timer is set for it.                                                 *)
SlotInv ==
  /\ slots[active] # None
  /\ \A k \in KIDs : slots[k] <= gen
  /\ \A k \in KIDs \ {active} :
       \/ slots[k] < slots[active]
       \/ \E r \in Rekeyers : rekey[r].pc = "activate" /\ k = rekey[r].new
  /\ \A t \in timers : t.slot < slots[active]

KeyInv == TypeInv /\ LockInv /\ RekeyInv /\ SlotInv

(* Every entry but the active one has its timer, except the ones the rekey *)
(* under way has made, or is about to leave.                               *)
SlotTimed(k) == slots[k] # None => \E t \in timers : t.kid = k /\ t.slot = slots[k]
LayerTimed(k) == layers[k] # None => \E t \in timers : t.kid = k /\ t.layer = layers[k]
SlotInUse(k, r) ==
  \/ rekey[r].pc = "activate" /\ k = rekey[r].new
  \/ rekey[r].pc \in After /\ k = rekey[r].old
LayerInUse(k, r) ==
  \/ rekey[r].pc \in {"activate"} \cup Pumping \cup Exchanging /\ k = rekey[r].new
  \/ rekey[r].pc \in After /\ k = rekey[r].old
TimerInv ==
  shutdown \/
  \A k \in KIDs \ {active} :
    /\ SlotTimed(k) \/ \E r \in Rekeyers : SlotInUse(k, r)
    /\ LayerTimed(k) \/ \E r \in Rekeyers : LayerInUse(k, r)

(* Close is past key-id k: a layer there is one of a rekey that has still  *)
(* to start its pumps, and will take it away.                              *)
Retired(k) == closer.pc \in {"conn", "wait", "done"} \/ (closer.pc = "retire" /\ k < closer.kid)
CloserInv ==
  /\ closer.pc # "none" => closed
  /\ closer.pc \in {"retire", "conn", "wait", "done"} => shutdown
  /\ closer.pc \in {"none", "exit", "shutdown"} => closer.kid = 0
  /\ closer.pc \in {"wait", "done"} => tlsConn = None
InTable == \A g \in openLayers : g # None /\ \E k \in KIDs : layers[k] = g
RetiredGone ==
  \A k \in KIDs : Retired(k) /\ layers[k] # None =>
    \E r \in Rekeyers : rekey[r].pc \in Pumping /\ rekey[r].new = k /\ rekey[r].gen = layers[k]

(* A TLS conn that is open is the session's, or in the hands of a rekey. *)
ConnInv ==
  \A g \in openConns :
    /\ g # None
    /\ \/ g = tlsConn
       \/ \E r \in Rekeyers :
            \/ rekey[r].pc \in {"keys", "slot", "activate", "conn"} /\ g = rekey[r].gen
            \/ rekey[r].pc = "previous" /\ g = rekey[r].prev

LeftInv == InTable /\ RetiredGone /\ ConnInv

(* The reason comes before the goroutine that will close. *)
ReasonInv == (async => closeErr # "nil") /\ ReasonBeforeClose

-----------------------------------------------------------------------------
(* Key-ids and records *)

LEMMA Constants ==
  /\ NumKeyIDs \in Nat /\ NumKeyIDs >= 3 /\ 0 \in KIDs /\ Watch \in Rekeyers
  /\ Watch \notin Servers
BY SessionAssumption DEF KIDs, Rekeyers

(* The next key-id is another one, and never 0, which is the initial       *)
(* handshake's.                                                            *)
LEMMA NextKeyID ==
  ASSUME NEW cur \in KIDs
  PROVE  nextKeyID(cur) \in KIDs \ {0, cur}
<1>1. cur \in Int /\ 0 <= cur /\ cur + 1 <= NumKeyIDs
  BY Constants DEF KIDs
<1>2. CASE cur + 1 = NumKeyIDs
  <2>1. (cur + 1) % NumKeyIDs = 0
    BY <1>1, <1>2, Constants
  <2> QED BY <1>1, <1>2, <2>1, Constants DEF nextKeyID, KIDs
<1>3. CASE cur + 1 < NumKeyIDs
  <2>1. (cur + 1) % NumKeyIDs = cur + 1
    BY <1>1, <1>3, Constants
  <2> QED BY <1>1, <1>3, <2>1, Constants DEF nextKeyID, KIDs
<1> QED BY <1>1, <1>2, <1>3, Constants

(* The sets of places are disjoint. *)
LEMMA Places ==
  /\ Outside \cap Critical = {} /\ Before \cap After = {}
  /\ Pumping \subseteq Before /\ Exchanging \subseteq Before
  /\ Pumping \cap (Exchanging \cup {"layer", "activate"}) = {}
  /\ Exchanging \cap {"layer", "activate"} = {}
  /\ Before \subseteq Critical /\ After \subseteq Critical
  /\ "layer" \in Before /\ "activate" \in Before
BY DEF Outside, Critical, Before, After, Pumping, Exchanging

LEMMA IdleFacts ==
  Idle \in Rekey /\ Idle.pc = "idle"
<1>1. "idle" \in Outside
  BY DEF Outside
<1> QED BY <1>1, Constants DEF Idle, Rekey, None

(* r moves, and no other rekey does. *)
Only(r) == rekey' = [rekey EXCEPT ![r] = rekey'[r]] /\ rekey'[r] \in Rekey

LEMMA OthersStay ==
  ASSUME TypeInv, NEW r \in Rekeyers, Only(r)
  PROVE  rekey' \in [Rekeyers -> Rekey] /\ \A q \in Rekeyers \ {r} : rekey'[q] = rekey[q]
BY DEF TypeInv, Only

LEMMA GotoFacts ==
  ASSUME TypeInv, NEW r \in Rekeyers, NEW pc \in Outside \cup Critical, Goto(r, pc)
  PROVE  /\ Only(r) /\ rekey'[r].pc = pc
         /\ rekey'[r].old = rekey[r].old /\ rekey'[r].new = rekey[r].new
         /\ rekey'[r].gen = rekey[r].gen /\ rekey'[r].prev = rekey[r].prev
BY DEF Goto, TypeInv, Rekey, Only

LEMMA ReturnFacts ==
  ASSUME TypeInv, NEW r \in Rekeyers,
         NEW err \in {"nil", "ErrClosed", "ErrRekeyInProgress", "failed"}, Return(r, err)
  PROVE  Only(r) /\ rekey'[r].pc \in Outside
<1> DEFINE one == [Idle EXCEPT !.pc = "returned"]
           two == [one EXCEPT !.err = err]
           new == IF r = Watch THEN two ELSE Idle
<1>1. rekey' = [rekey EXCEPT ![r] = new]
  BY DEF Return
<1>2. one \in Rekey /\ one.pc = "returned"
  BY IdleFacts DEF Rekey, Outside
<1> HIDE DEF one
<1>3. two \in Rekey /\ two.pc = "returned"
  BY <1>2 DEF Rekey
<1> HIDE DEF two
<1>4. new \in Rekey /\ new.pc \in Outside
  BY <1>3, IdleFacts DEF Outside
<1> HIDE DEF new
<1>5. rekey'[r] = new
  BY <1>1 DEF TypeInv
<1> QED BY <1>1, <1>4, <1>5, Zenon DEF Only

-----------------------------------------------------------------------------
(* Every step is of one of these kinds, or RetireAfter, RetireCancelled,   *)
(* RetireAll or CloseTLSConn as they are.                                  *)

closeState == <<closed, closer, shutdown>>

(* Tables, timers and the rekey under way, if any, are left alone; Close   *)
(* may move on.                                                            *)
Quiet ==
  /\ UNCHANGED <<tableVars, inProgress, timers, gen>>
  /\ rekey' \in [Rekeyers -> Rekey]
  /\ \A r \in Rekeyers : \/ rekey'[r] = rekey[r]
                         \/ rekey[r].pc \in Outside /\ rekey'[r].pc \in Outside
  /\ closed' \in BOOLEAN /\ (closed => closed')
  /\ shutdown' \in BOOLEAN /\ (shutdown => shutdown')
  /\ closer' \in Closer
  /\ \/ UNCHANGED closer
     \/ closer'.pc = "exit" /\ closer'.kid = 0 /\ closed'
     \/ /\ closer'.kid = closer.kid
        /\ \/ closer.pc = "exit" /\ closer'.pc = "shutdown"
           \/ closer.pc = "shutdown" /\ closer'.pc = "retire" /\ shutdown'
           \/ closer.pc = "wait" /\ closer'.pc = "done"

Takes(r) ==
  /\ Only(r) /\ rekey[r].pc \in Outside /\ rekey'[r].pc = "layer"
  /\ rekey'[r].old = active /\ rekey'[r].new = nextKeyID(active)
  /\ ~inProgress /\ inProgress' = TRUE
  /\ UNCHANGED <<tableVars, timers, gen, closeState>>

SameKeys(r) == rekey'[r].old = rekey[r].old /\ rekey'[r].new = rekey[r].new
SameGen(r) == gen' = gen /\ rekey'[r].gen = rekey[r].gen

AddsLayer(r) ==
  /\ Only(r) /\ rekey[r].pc = "layer" /\ rekey'[r].pc = "writeLoop"
  /\ SameKeys(r) /\ rekey'[r].gen = gen + 1 /\ gen' = gen + 1
  /\ layers' = [layers EXCEPT ![rekey[r].new] = gen + 1]
  /\ openLayers' = (openLayers \ {layers[rekey[r].new]}) \cup {gen + 1}
  /\ UNCHANGED <<slots, active, tlsConn, openConns, inProgress, timers, closeState>>

GoesOn(r) ==
  /\ Only(r) /\ SameKeys(r) /\ SameGen(r)
  /\ rekey[r].pc \in Pumping \cup Exchanging /\ rekey'[r].pc \in Pumping \cup Exchanging
  /\ rekey[r].pc \in Pumping => rekey'[r].pc \in Pumping \/ ~shutdown
  /\ rekey[r].pc \in {"keys", "slot"} => rekey'[r].pc \in {"keys", "slot"}
  /\ \/ UNCHANGED openConns
     \/ openConns' = openConns \cup {rekey[r].gen} /\ rekey'[r].pc = "keys"
  /\ UNCHANGED <<slots, active, layers, openLayers, tlsConn, inProgress, timers, closeState>>

Leaves(r) ==
  /\ Only(r) /\ rekey[r].pc \in Critical /\ rekey'[r].pc \in Outside
  /\ inProgress' = FALSE /\ UNCHANGED <<slots, active, tlsConn, gen, closeState>>

Rejected(r) ==
  /\ Leaves(r) /\ rekey[r].pc = "tickLoop" /\ shutdown
  /\ RetireLayerIf(rekey[r].new, rekey[r].gen)
  /\ UNCHANGED <<openConns, timers>>

GivesUp(r) ==
  /\ Leaves(r) /\ rekey[r].pc \in Exchanging
  /\ openConns' = openConns \ {rekey[r].gen}
  /\ openLayers' = openLayers \ {rekey[r].gen, layers[rekey[r].new]}
  /\ layers' = [layers EXCEPT ![rekey[r].new] = None]
  /\ UNCHANGED timers

Schedules(r) ==
  /\ Leaves(r) /\ rekey[r].pc = "schedule"
  /\ timers' = timers \cup {[kid |-> rekey[r].old, slot |-> slots[rekey[r].old],
                             layer |-> layers[rekey[r].old]]}
  /\ UNCHANGED <<layers, openLayers, openConns>>

AddsSlot(r) ==
  /\ Only(r) /\ SameKeys(r) /\ SameGen(r)
  /\ rekey[r].pc = "slot" /\ rekey'[r].pc = "activate"
  /\ slots' = [slots EXCEPT ![rekey[r].new] = rekey[r].gen]
  /\ UNCHANGED <<active, layers, openLayers, tlsConn, openConns, inProgress, timers, closeState>>

Switches(r) ==
  /\ Only(r) /\ SameKeys(r) /\ SameGen(r)
  /\ rekey[r].pc = "activate" /\ rekey'[r].pc = "conn"
  /\ active' = rekey[r].new
  /\ UNCHANGED <<slots, layers, openLayers, tlsConn, openConns, inProgress, timers, closeState>>

HandsOver(r) ==
  /\ Only(r) /\ SameKeys(r) /\ SameGen(r)
  /\ \/ /\ rekey[r].pc = "conn" /\ closed /\ rekey'[r].pc = "schedule"
        /\ CloseConn(rekey[r].gen) /\ UNCHANGED tlsConn
     \/ /\ rekey[r].pc = "conn" /\ ~closed /\ rekey'[r].pc = "previous"
        /\ tlsConn' = rekey[r].gen /\ rekey'[r].prev = tlsConn
        /\ UNCHANGED <<openConns, openLayers>>
     \/ /\ rekey[r].pc = "previous" /\ rekey'[r].pc = "schedule"
        /\ CloseConn(rekey[r].prev) /\ UNCHANGED tlsConn
  /\ UNCHANGED <<slots, active, layers, inProgress, timers, closeState>>

Works(r) ==
  \/ Takes(r) \/ AddsLayer(r) \/ GoesOn(r) \/ Rejected(r) \/ GivesUp(r)
  \/ AddsSlot(r) \/ Switches(r) \/ HandsOver(r) \/ Schedules(r)

(* A process that is outside before and after. *)
LEMMA StaysOutside ==
  ASSUME TypeInv, NEW r \in Rekeyers, Only(r), rekey[r].pc \in Outside, rekey'[r].pc \in Outside,
         UNCHANGED <<tableVars, inProgress, timers, gen, closeState>>
  PROVE  Quiet
BY OthersStay DEF Quiet, TypeInv, closeState

(* PerformSoftReset, step by step. *)
LEMMA SoftResetKinds ==
  ASSUME TypeInv, NEW r \in Rekeyers, SoftReset(r)
  PROVE  Quiet \/ Works(r)
<1>1. CASE PerformSoftReset(r)
  <2>1. /\ rekey[r].pc \in Outside /\ "begin" \in Outside
        /\ UNCHANGED <<tableVars, inProgress, timers, gen, closeState>>
        /\ Return(r, "ErrClosed") \/ Goto(r, "begin")
    BY <1>1 DEF PerformSoftReset, At, Outside, closeVars, closeState
  <2>2. Only(r) /\ rekey'[r].pc \in Outside
    BY <2>1, ReturnFacts, GotoFacts
  <2> QED BY <2>1, <2>2, StaysOutside
<1>2. CASE Begin(r) /\ inProgress
  <2>1. /\ rekey[r].pc \in Outside /\ Return(r, "ErrRekeyInProgress")
        /\ UNCHANGED <<tableVars, inProgress, timers, gen, closeState>>
    BY <1>2 DEF Begin, At, Outside, closeVars, closeState
  <2>2. Only(r) /\ rekey'[r].pc \in Outside
    BY <2>1, ReturnFacts
  <2> QED BY <2>1, <2>2, StaysOutside
<1>3. CASE Begin(r) /\ ~inProgress
  <2> DEFINE one == [Idle EXCEPT !.pc = "layer"]
             two == [one EXCEPT !.old = active]
             three == [two EXCEPT !.new = nextKeyID(active)]
  <2>1. active \in KIDs /\ nextKeyID(active) \in KIDs /\ "layer" \in Critical
    BY NextKeyID, Places DEF TypeInv
  <2>2. one \in Rekey /\ one.pc = "layer"
    BY <2>1, IdleFacts DEF Rekey
  <2>3. rekey' = [rekey EXCEPT ![r] = three]
    BY <1>3 DEF Begin
  <2> HIDE DEF one
  <2>4. two \in Rekey /\ two.pc = "layer" /\ two.old = active
    BY <2>1, <2>2 DEF Rekey
  <2> HIDE DEF two
  <2>5. three \in Rekey /\ three.pc = "layer" /\ three.old = active /\ three.new = nextKeyID(active)
    BY <2>1, <2>4 DEF Rekey
  <2> HIDE DEF three
  <2>6. rekey'[r] = three
    BY <2>3 DEF TypeInv
  <2>7. /\ rekey[r].pc \in Outside /\ ~inProgress /\ inProgress' = TRUE
        /\ UNCHANGED <<tableVars, timers, gen, closeState>>
    BY <1>3 DEF Begin, At, Outside, closeVars, closeState
  <2> QED BY <2>3, <2>5, <2>6, <2>7, Zenon DEF Works, Takes, Only
<1>4. CASE InstallLayer(r)
  <2> DEFINE one == [rekey[r] EXCEPT !.pc = "writeLoop"]
             two == [one EXCEPT !.gen = gen + 1]
  <2>1. rekey[r] \in Rekey /\ "writeLoop" \in Critical /\ gen + 1 \in Nat
    BY DEF TypeInv, Critical, Before, Pumping
  <2>2. rekey' = [rekey EXCEPT ![r] = two]
    BY <1>4, Zenon DEF InstallLayer, TypeInv
  <2>3. one \in Rekey /\ one.pc = "writeLoop" /\ one.old = rekey[r].old /\ one.new = rekey[r].new
    BY <2>1 DEF Rekey
  <2> HIDE DEF one
  <2>4. /\ two \in Rekey /\ two.pc = "writeLoop" /\ two.old = rekey[r].old /\ two.new = rekey[r].new
        /\ two.gen = gen + 1
    BY <2>1, <2>3 DEF Rekey
  <2> HIDE DEF two
  <2>5. rekey'[r] = two
    BY <2>2 DEF TypeInv
  <2>6. /\ rekey[r].pc = "layer" /\ gen' = gen + 1
        /\ layers' = [layers EXCEPT ![rekey[r].new] = gen + 1]
        /\ openLayers' = (openLayers \ {layers[rekey[r].new]}) \cup {gen + 1}
        /\ UNCHANGED <<slots, active, tlsConn, openConns, inProgress, timers, closeState>>
    BY <1>4 DEF InstallLayer, At, closeVars, closeState
  <2> QED BY <2>2, <2>4, <2>5, <2>6, Zenon DEF Works, AddsLayer, Only, SameKeys
<1>5. CASE StartWriteLoop(r)
  <2>1. /\ rekey[r].pc = "writeLoop" /\ Goto(r, "tickLoop")
        /\ UNCHANGED <<tableVars, inProgress, timers, gen, closeState>>
    BY <1>5 DEF StartWriteLoop, At, closeVars, closeState
  <2>2. "tickLoop" \in Critical /\ "writeLoop" \in Pumping /\ "tickLoop" \in Pumping
    BY DEF Critical, Before, Pumping
  <2>3. Only(r) /\ SameKeys(r) /\ SameGen(r) /\ rekey'[r].pc = "tickLoop"
    BY <2>1, <2>2, GotoFacts DEF SameKeys, SameGen
  <2>4. GoesOn(r)
    BY <2>1, <2>2, <2>3 DEF GoesOn, tableVars
  <2> QED BY <2>4 DEF Works
<1>6. CASE StartTickLoop(r) /\ ~shutdown
  <2>1. /\ rekey[r].pc = "tickLoop" /\ Goto(r, "reset")
        /\ UNCHANGED <<tableVars, inProgress, timers, gen, closeState>>
    BY <1>6 DEF StartTickLoop, At, closeVars, closeState, tableVars
  <2>2. "reset" \in Critical /\ "reset" \in Exchanging /\ "tickLoop" \in Pumping
    BY DEF Critical, Before, Pumping, Exchanging
  <2>3. Only(r) /\ SameKeys(r) /\ SameGen(r) /\ rekey'[r].pc = "reset"
    BY <2>1, <2>2, GotoFacts DEF SameKeys, SameGen
  <2>4. GoesOn(r)
    BY <1>6, <2>1, <2>2, <2>3 DEF GoesOn, tableVars
  <2> QED BY <2>4 DEF Works
<1>7. CASE StartTickLoop(r) /\ shutdown
  <2>1. /\ rekey[r].pc = "tickLoop" /\ Return(r, "ErrClosed") /\ inProgress' = FALSE
        /\ RetireLayerIf(rekey[r].new, rekey[r].gen)
        /\ UNCHANGED <<slots, active, tlsConn, openConns, timers, gen, closeState>>
    BY <1>7 DEF StartTickLoop, At, closeVars, closeState
  <2>2. Only(r) /\ rekey'[r].pc \in Outside /\ "tickLoop" \in Critical
    BY <2>1, ReturnFacts DEF Critical, Before, Pumping
  <2> QED BY <1>7, <2>1, <2>2 DEF Works, Rejected, Leaves
<1>8. CASE SendSoftReset(r) \/ Handshake(r) \/ ExchangeKeys(r)
  <2>1. /\ rekey[r].pc \in {"reset", "handshake", "keys"}
        /\ UNCHANGED <<timers, gen, closeState>>
    BY <1>8 DEF SendSoftReset, Handshake, ExchangeKeys, At, closeVars, closeState
  <2>2. {"reset", "handshake", "keys", "slot"} \subseteq Exchanging \cap Critical
    BY DEF Critical, Before, Exchanging
  <2>3. CASE Failed(r)
    <3>1. Only(r) /\ rekey'[r].pc \in Outside
      BY <2>3, ReturnFacts DEF Failed
    <3>2. /\ inProgress' = FALSE /\ UNCHANGED <<slots, active, tlsConn>>
          /\ openConns' = openConns \ {rekey[r].gen}
          /\ openLayers' = openLayers \ {rekey[r].gen, layers[rekey[r].new]}
          /\ layers' = [layers EXCEPT ![rekey[r].new] = None]
      BY <2>3 DEF Failed
    <3>3. Leaves(r)
      BY <2>1, <2>2, <3>1, <3>2 DEF Leaves
    <3>4. GivesUp(r)
      BY <2>1, <2>2, <3>2, <3>3 DEF GivesUp
    <3> QED BY <3>4 DEF Works
  <2>4. CASE ~Failed(r)
    <3>1. /\ UNCHANGED <<slots, active, layers, openLayers, tlsConn, inProgress>>
          /\ \/ rekey[r].pc = "reset" /\ Goto(r, "handshake") /\ UNCHANGED openConns
             \/ rekey[r].pc = "handshake" /\ Goto(r, "keys") /\ openConns' = openConns \cup {rekey[r].gen}
             \/ rekey[r].pc = "keys" /\ Goto(r, "slot") /\ UNCHANGED openConns
      BY <1>8, <2>4 DEF SendSoftReset, Handshake, ExchangeKeys, At, tableVars
    <3>2. /\ Only(r) /\ SameKeys(r) /\ SameGen(r)
          /\ \/ rekey[r].pc = "reset" /\ rekey'[r].pc = "handshake" /\ UNCHANGED openConns
             \/ /\ rekey[r].pc = "handshake" /\ rekey'[r].pc = "keys"
                /\ openConns' = openConns \cup {rekey[r].gen}
             \/ rekey[r].pc = "keys" /\ rekey'[r].pc = "slot" /\ UNCHANGED openConns
      BY <2>1, <2>2, <3>1, GotoFacts DEF SameKeys, SameGen
    <3>3. rekey[r].pc \notin Pumping /\ rekey[r].pc \in Exchanging /\ rekey'[r].pc \in Exchanging
      BY <2>2, <3>2 DEF Pumping
    <3>4. GoesOn(r)
      BY <2>1, <3>1, <3>2, <3>3 DEF GoesOn
    <3> QED BY <3>4 DEF Works
  <2> QED BY <2>3, <2>4
<1>9. CASE InstallSlot(r)
  <2>1. Goto(r, "activate") /\ "activate" \in Critical
    BY <1>9, Places DEF InstallSlot
  <2>2. Only(r) /\ SameKeys(r) /\ rekey'[r].gen = rekey[r].gen /\ rekey'[r].pc = "activate"
    BY <2>1, GotoFacts DEF SameKeys
  <2>3. AddsSlot(r)
    BY <1>9, <2>2 DEF InstallSlot, AddsSlot, At, SameGen, closeVars, closeState
  <2> QED BY <2>3 DEF Works
<1>10. CASE Activate(r)
  <2>1. Goto(r, "conn") /\ "conn" \in Critical
    BY <1>10, Places DEF Activate, After
  <2>2. Only(r) /\ SameKeys(r) /\ rekey'[r].gen = rekey[r].gen /\ rekey'[r].pc = "conn"
    BY <2>1, GotoFacts DEF SameKeys
  <2>3. Switches(r)
    BY <1>10, <2>2 DEF Activate, Switches, At, SameGen, closeVars, closeState
  <2> QED BY <2>3 DEF Works
<1>11. CASE InstallTLSConn(r) /\ closed
  <2>1. Goto(r, "schedule") /\ "schedule" \in Critical
    BY <1>11, Places DEF InstallTLSConn, After
  <2>2. Only(r) /\ SameKeys(r) /\ rekey'[r].gen = rekey[r].gen /\ rekey'[r].pc = "schedule"
    BY <2>1, GotoFacts DEF SameKeys
  <2>3. HandsOver(r)
    BY <1>11, <2>2 DEF InstallTLSConn, HandsOver, At, SameGen, closeVars, closeState
  <2> QED BY <2>3 DEF Works
<1>12. CASE InstallTLSConn(r) /\ ~closed
  <2> DEFINE one == [rekey[r] EXCEPT !.pc = "previous"]
             two == [one EXCEPT !.prev = tlsConn]
  <2>1. rekey[r] \in Rekey /\ "previous" \in Critical /\ tlsConn \in Nat
    BY Places DEF TypeInv, After
  <2>2. rekey' = [rekey EXCEPT ![r] = two]
    BY <1>12, Zenon DEF InstallTLSConn, TypeInv
  <2>3. /\ one \in Rekey /\ one.pc = "previous" /\ one.old = rekey[r].old /\ one.new = rekey[r].new
        /\ one.gen = rekey[r].gen
    BY <2>1 DEF Rekey
  <2> HIDE DEF one
  <2>4. /\ two \in Rekey /\ two.pc = "previous" /\ two.old = rekey[r].old /\ two.new = rekey[r].new
        /\ two.gen = rekey[r].gen /\ two.prev = tlsConn
    BY <2>1, <2>3 DEF Rekey
  <2> HIDE DEF two
  <2>5. rekey'[r] = two
    BY <2>2 DEF TypeInv
  <2>6. /\ Only(r) /\ SameKeys(r) /\ rekey'[r].gen = rekey[r].gen /\ rekey'[r].pc = "previous"
        /\ rekey'[r].prev = tlsConn
    BY <2>2, <2>4, <2>5, Zenon DEF SameKeys, Only
  <2>7. HandsOver(r)
    BY <1>12, <2>6 DEF InstallTLSConn, HandsOver, At, SameGen, closeVars, closeState
  <2> QED BY <2>7 DEF Works
<1>13. CASE ClosePrevious(r)
  <2>1. Goto(r, "schedule") /\ "schedule" \in Critical
    BY <1>13, Places DEF ClosePrevious, After
  <2>2. Only(r) /\ SameKeys(r) /\ rekey'[r].gen = rekey[r].gen /\ rekey'[r].pc = "schedule"
    BY <2>1, GotoFacts DEF SameKeys
  <2>3. HandsOver(r)
    BY <1>13, <2>2 DEF ClosePrevious, HandsOver, At, SameGen, closeVars, closeState
  <2> QED BY <2>3 DEF Works
<1>14. CASE Schedule(r)
  <2>1. Only(r) /\ rekey'[r].pc \in Outside /\ "schedule" \in Critical
    BY <1>14, ReturnFacts, Places DEF Schedule, After
  <2>2. /\ rekey[r].pc = "schedule" /\ inProgress' = FALSE
        /\ timers' = timers \cup {[kid |-> rekey[r].old, slot |-> slots[rekey[r].old],
                                   layer |-> layers[rekey[r].old]]}
        /\ UNCHANGED <<tableVars, gen, closeState>>
    BY <1>14 DEF Schedule, At, closeVars, closeState
  <2>3. Schedules(r)
    BY <2>1, <2>2 DEF Schedules, Leaves, tableVars
  <2> QED BY <2>3 DEF Works
<1> QED BY <1>1, <1>2, <1>3, <1>4, <1>5, <1>6, <1>7, <1>8, <1>9, <1>10, <1>11, <1>12, <1>13, <1>14
       DEF SoftReset

(* Steps that leave the rekeys alone, or one of them outside. *)
LEMMA QuietFacts ==
  ASSUME TypeInv, UNCHANGED <<tableVars, inProgress, timers, gen, rekey>>,
         UNCHANGED <<shutdown, closed, closer>>
  PROVE  Quiet
BY DEF Quiet, TypeInv

LEMMA NextKinds ==
  ASSUME TypeInv, [Next]_vars
  PROVE  \/ Quiet
         \/ \E r \in Rekeyers : Works(r)
         \/ \E t \in timers : RetireAfter(t) \/ RetireCancelled(t)
         \/ RetireAll \/ CloseTLSConn
<1>1. CASE UNCHANGED vars
  BY <1>1, QuietFacts DEF vars, closeVars
<1>2. ASSUME NEW r \in Rekeyers, ClassifyAutoRekey(r)
      PROVE  Quiet
  <2>1. /\ rekey[r].pc \in Outside /\ {"idle", "report"} \subseteq Outside
        /\ UNCHANGED <<tableVars, inProgress, timers, gen, closeState>>
        /\ rekey' = [rekey EXCEPT ![r] = Idle] \/ Goto(r, "report")
    BY <1>2 DEF ClassifyAutoRekey, At, Outside, closeVars, closeState
  <2>2. Only(r) /\ rekey'[r].pc \in Outside
    <3>1. CASE rekey' = [rekey EXCEPT ![r] = Idle]
      <4>1. rekey'[r] = Idle
        BY <3>1 DEF TypeInv
      <4> QED BY <2>1, <3>1, <4>1, IdleFacts, Zenon DEF Only
    <3>2. CASE Goto(r, "report")
      BY <2>1, <3>2, GotoFacts
    <3> QED BY <2>1, <3>1, <3>2
  <2> QED BY <2>1, <2>2, StaysOutside
<1>3. ASSUME NEW by \in {"user", "async", Watch}, CloseBy(by)
      PROVE  /\ closed' \in BOOLEAN /\ (closed => closed') /\ closer' \in Closer
             /\ \/ UNCHANGED closer
                \/ closer'.pc = "exit" /\ closer'.kid = 0 /\ closed'
  <2>1. CASE closed
    BY <1>3, <2>1 DEF CloseBy, TypeInv
  <2>2. CASE ~closed
    <3>1. closed' = TRUE /\ closer' = [pc |-> "exit", kid |-> 0, by |-> by]
      BY <1>3, <2>2 DEF CloseBy
    <3>2. closer' \in Closer /\ closer'.pc = "exit" /\ closer'.kid = 0
      BY <3>1, Constants DEF Closer
    <3>3. closed' \in BOOLEAN /\ closed'
      BY <3>1, Zenon
    <3> QED BY <3>2, <3>3
  <2> QED BY <2>1, <2>2
<1>4. CASE Close \/ CloseAsync
  <2>1. UNCHANGED <<tableVars, inProgress, timers, gen, rekey, shutdown>>
    BY <1>4 DEF Close, CloseAsync
  <2>2. PICK by \in {"user", "async", Watch} : CloseBy(by)
    BY <1>4 DEF Close, CloseAsync
  <2>3. rekey' \in [Rekeyers -> Rekey] /\ shutdown' \in BOOLEAN
    BY <2>1 DEF TypeInv
  <2> QED BY <1>3, <2>1, <2>2, <2>3 DEF Quiet
<1>5. CASE ReportAutoRekeyFailed
  <2>1. /\ UNCHANGED <<tableVars, inProgress, timers, gen, shutdown>> /\ CloseBy(Watch)
        /\ rekey[Watch].pc = "report" /\ rekey' = [rekey EXCEPT ![Watch] = Idle]
    BY <1>5 DEF ReportAutoRekeyFailed, At
  <2>2. rekey'[Watch] = Idle
    BY <2>1, Constants DEF TypeInv
  <2>3. Only(Watch) /\ rekey[Watch].pc \in Outside /\ rekey'[Watch].pc \in Outside
    BY <2>1, <2>2, IdleFacts, Zenon DEF Only, Outside
  <2>4. /\ rekey' \in [Rekeyers -> Rekey]
        /\ \A r \in Rekeyers : \/ rekey'[r] = rekey[r]
                               \/ rekey[r].pc \in Outside /\ rekey'[r].pc \in Outside
    BY <2>3, OthersStay, Constants
  <2>5. shutdown' \in BOOLEAN
    BY <2>1 DEF TypeInv
  <2> QED BY <1>3, <2>1, <2>4, <2>5 DEF Quiet
<1>6. CASE ExitNotify \/ Shutdown \/ Wait
  <2>1. /\ UNCHANGED <<tableVars, inProgress, timers, gen, rekey, closed>>
        /\ \/ closer.pc = "exit" /\ closer' = [closer EXCEPT !.pc = "shutdown"] /\ UNCHANGED shutdown
           \/ closer.pc = "shutdown" /\ closer' = [closer EXCEPT !.pc = "retire"] /\ shutdown' = TRUE
           \/ closer.pc = "wait" /\ closer' = [closer EXCEPT !.pc = "done"] /\ UNCHANGED shutdown
    BY <1>6 DEF ExitNotify, Shutdown, Wait
  <2>2. closer' \in Closer /\ closer'.kid = closer.kid
        /\ \/ closer.pc = "exit" /\ closer'.pc = "shutdown"
           \/ closer.pc = "shutdown" /\ closer'.pc = "retire" /\ shutdown'
           \/ closer.pc = "wait" /\ closer'.pc = "done"
    BY <2>1 DEF TypeInv, Closer
  <2>3. rekey' \in [Rekeyers -> Rekey] /\ closed' \in BOOLEAN /\ shutdown' \in BOOLEAN
        /\ (shutdown => shutdown')
    <3>1. UNCHANGED shutdown \/ shutdown' = TRUE
      BY <2>1
    <3> QED BY <2>1, <3>1, Zenon DEF TypeInv
  <2> QED BY <2>1, <2>2, <2>3 DEF Quiet
<1>7. CASE \/ \E s \in Servers : ServerSoftReset(s)
           \/ \E who \in reports : Report(who)
           \/ SessionFails \/ WorkerEnds
  <2>1. UNCHANGED <<tableVars, inProgress, timers, gen, rekey, shutdown, closed, closer>>
    BY <1>7, Zenon DEF ServerSoftReset, Report, SessionFails, WorkerEnds, ReadLoopFails, RequestRestart,
         WatchdogFires, TickFatal, ServerMessage, WorkersLeave, Exits, Unreported, closeVars
  <2> QED BY <2>1, QuietFacts
<1> QED BY <1>1, <1>2, <1>4, <1>5, <1>6, <1>7, SoftResetKinds DEF Next, CloserSteps

-----------------------------------------------------------------------------
(* Key-ids, generations and the active slot *)

(* Who works on a rekey is alone. *)
LEMMA WorksAlone ==
  ASSUME TypeInv, LockInv, NEW r \in Rekeyers, Works(r)
  PROVE  /\ Only(r)
         /\ \A q \in Rekeyers \ {r} : rekey'[q] = rekey[q] /\ rekey[q].pc \notin Critical
         /\ Takes(r) \/ rekey[r].pc \in Critical
         /\ LockInv' /\ inProgress' \in BOOLEAN /\ UNCHANGED closeState
<1>1. Only(r) /\ UNCHANGED closeState
  BY DEF Works, Takes, AddsLayer, GoesOn, Rejected, GivesUp, Leaves, AddsSlot, Switches, HandsOver,
       Schedules
<1>2. \/ Takes(r)
      \/ rekey[r].pc \in Critical /\ UNCHANGED inProgress
      \/ rekey[r].pc \in Critical /\ rekey'[r].pc \in Outside /\ inProgress' = FALSE
  <2>1. CASE AddsLayer(r) \/ GoesOn(r) \/ AddsSlot(r) \/ Switches(r) \/ HandsOver(r)
    BY <2>1, Places DEF AddsLayer, GoesOn, AddsSlot, Switches, HandsOver, Exchanging, After
  <2>2. CASE Rejected(r) \/ GivesUp(r) \/ Schedules(r)
    BY <2>2, Zenon DEF Rejected, GivesUp, Schedules, Leaves
  <2> QED BY <2>1, <2>2, Zenon DEF Works
<1>3. \A q \in Rekeyers \ {r} : rekey[q].pc \notin Critical
  BY <1>2 DEF LockInv, Takes
<1>4. \A q \in Rekeyers \ {r} : rekey'[q] = rekey[q]
  BY <1>1, OthersStay
<1>5. LockInv' /\ inProgress' \in BOOLEAN
  <2>1. CASE Takes(r)
    <3>1. inProgress' \in BOOLEAN /\ inProgress'
      BY <2>1 DEF Takes
    <3> QED BY <1>3, <1>4, <3>1 DEF LockInv
  <2>2. CASE rekey[r].pc \in Critical /\ UNCHANGED inProgress
    BY <1>3, <1>4, <2>2 DEF LockInv, TypeInv
  <2>3. CASE rekey'[r].pc \in Outside /\ inProgress' = FALSE
    <3>1. rekey'[r].pc \notin Critical /\ inProgress' \in BOOLEAN
      BY <2>3, Places, Zenon
    <3> QED BY <1>3, <1>4, <3>1 DEF LockInv
  <2> QED BY <1>2, <2>1, <2>2, <2>3, Zenon
<1> QED BY <1>1, <1>2, <1>3, <1>4, <1>5

LEMMA WorksTypes ==
  ASSUME TypeInv, LockInv, RekeyInv, NEW r \in Rekeyers, Works(r)
  PROVE  TypeInv'
<1>1. /\ rekey' \in [Rekeyers -> Rekey] /\ inProgress' \in BOOLEAN
      /\ closed' \in BOOLEAN /\ shutdown' \in BOOLEAN /\ closer' \in Closer
  BY WorksAlone, OthersStay DEF TypeInv, closeState
<1>2. /\ rekey[r].old \in KIDs /\ rekey[r].new \in KIDs /\ rekey[r].gen \in Nat /\ rekey[r].prev \in Nat
      /\ gen + 1 \in Nat \ {0} /\ None \in Nat
  BY DEF TypeInv, Rekey, None
<1>3. /\ gen \in Nat \ {0} /\ active \in KIDs /\ tlsConn \in Nat
      /\ slots \in [KIDs -> Nat] /\ layers \in [KIDs -> Nat]
      /\ openLayers \subseteq Nat /\ openConns \subseteq Nat
      /\ timers \subseteq [kid : KIDs, slot : Nat, layer : Nat]
  BY DEF TypeInv
<1> DEFINE Tables == /\ gen' \in Nat \ {0} /\ active' \in KIDs /\ tlsConn' \in Nat
                     /\ slots' \in [KIDs -> Nat] /\ layers' \in [KIDs -> Nat]
                     /\ openLayers' \subseteq Nat /\ openConns' \subseteq Nat
                     /\ timers' \subseteq [kid : KIDs, slot : Nat, layer : Nat]
<1>4. Takes(r) => Tables
  BY <1>3 DEF Takes, tableVars
<1>5. AddsLayer(r) => Tables
  BY <1>2, <1>3, Zenon DEF AddsLayer
<1>6. GoesOn(r) => Tables
  BY <1>2, <1>3, Zenon DEF GoesOn, SameGen
<1>7. Rejected(r) => Tables
  BY <1>2, <1>3, Zenon DEF Rejected, Leaves, RetireLayerIf
<1>8. GivesUp(r) => Tables
  BY <1>2, <1>3, Zenon DEF GivesUp, Leaves
<1>9. AddsSlot(r) => Tables
  BY <1>2, <1>3 DEF AddsSlot, SameGen
<1>10. Switches(r) => Tables
  BY <1>2, <1>3 DEF Switches, SameGen
<1>11. HandsOver(r) => Tables
  BY <1>2, <1>3, Zenon DEF HandsOver, SameGen, CloseConn
<1>12. Schedules(r) => Tables
  BY <1>2, <1>3 DEF Schedules, Leaves
<1>13. Tables
  BY <1>4, <1>5, <1>6, <1>7, <1>8, <1>9, <1>10, <1>11, <1>12, Zenon DEF Works
<1> QED BY <1>1, <1>13 DEF TypeInv

(* A step that keeps slots and generations, by a process that is not about *)
(* to switch.                                                              *)
LEMMA SteadyStep ==
  ASSUME KeyInv, NEW r \in Rekeyers, Works(r), UNCHANGED <<slots, active, gen>>,
         \A t \in timers' : t \in timers \/ t.slot < slots[active],
         rekey[r].pc # "activate", Chosen(r)'
  PROVE  KeyInv'
<1>1. TypeInv' /\ LockInv' /\ \A q \in Rekeyers \ {r} : rekey'[q] = rekey[q]
  BY WorksAlone, WorksTypes DEF KeyInv
<1>2. RekeyInv'
  BY <1>1 DEF KeyInv, RekeyInv, Chosen
<1>3. SlotInv'
  BY <1>1 DEF KeyInv, SlotInv
<1> QED BY <1>1, <1>2, <1>3 DEF KeyInv

LEMMA WorksKey ==
  ASSUME KeyInv, NEW r \in Rekeyers, Works(r)
  PROVE  KeyInv'
<1> USE DEF KeyInv
<1>1. /\ TypeInv' /\ LockInv'
      /\ \A q \in Rekeyers \ {r} : rekey'[q] = rekey[q] /\ rekey[q].pc \notin Critical
  BY WorksAlone, WorksTypes
<1>2. /\ slots \in [KIDs -> Nat] /\ active \in KIDs /\ gen \in Nat /\ rekey[r].new \in KIDs
      /\ Chosen(r)
  BY DEF TypeInv, Rekey, RekeyInv
<1>3. CASE Takes(r)
  <2>1. /\ UNCHANGED <<slots, active, gen, timers>> /\ rekey'[r].pc = "layer"
        /\ rekey[r].pc # "activate"
    BY <1>3, Places DEF Takes, tableVars
  <2>2. Chosen(r)'
    BY <1>3, <2>1, Places DEF Takes, Chosen
  <2> QED BY <2>1, <2>2, SteadyStep
<1>4. CASE AddsLayer(r)
  <2>1. /\ UNCHANGED <<slots, active, timers>> /\ gen' = gen + 1 /\ rekey'[r].gen = gen'
        /\ rekey[r].pc = "layer" /\ rekey'[r].pc = "writeLoop" /\ SameKeys(r)
    BY <1>4 DEF AddsLayer
  <2>2. \A k \in KIDs : slots[k] \in Nat /\ slots[k] <= gen /\ slots[k] < gen'
    BY <1>2, <2>1 DEF SlotInv
  <2>3. "writeLoop" \in Pumping
    BY DEF Pumping
  <2>4. Chosen(r)'
    BY <1>2, <2>1, <2>2, <2>3, Places DEF Chosen, SameKeys
  <2>5. RekeyInv'
    <3>1. ASSUME NEW q \in Rekeyers \ {r} PROVE Chosen(q)'
      <4>1. rekey'[q].pc \notin Critical
        BY <1>1
      <4> QED BY <4>1, Places DEF Chosen
    <3> QED BY <2>4, <3>1 DEF RekeyInv
  <2>6. SlotInv'
    <3>1. \A k \in KIDs : slots[k] <= gen'
      BY <1>2, <2>1, <2>2
    <3> QED BY <1>1, <2>1, <3>1 DEF SlotInv
  <2> QED BY <1>1, <2>5, <2>6
<1>5. CASE GoesOn(r)
  <2>1. UNCHANGED <<slots, active, gen, timers>> /\ rekey[r].pc # "activate"
    BY <1>5, Places DEF GoesOn, SameGen
  <2>2. Chosen(r)'
    BY <1>2, <1>5, <2>1, Places DEF GoesOn, Chosen, SameKeys, SameGen
  <2> QED BY <2>1, <2>2, SteadyStep
<1>6. CASE Rejected(r) \/ GivesUp(r)
  <2>1. UNCHANGED <<slots, active, gen, timers>> /\ rekey[r].pc # "activate" /\ rekey'[r].pc \in Outside
    BY <1>6, Places DEF Rejected, GivesUp, Leaves
  <2>2. Chosen(r)'
    BY <2>1, Places DEF Chosen
  <2> QED BY <2>1, <2>2, SteadyStep
<1>7. CASE Schedules(r)
  <2>1. UNCHANGED <<slots, active, gen>> /\ rekey[r].pc = "schedule" /\ rekey'[r].pc \in Outside
    BY <1>7 DEF Schedules, Leaves
  <2>2. Chosen(r)'
    BY <2>1, Places DEF Chosen
  <2>3. rekey[r].old \in KIDs \ {active}
    BY <1>2, <2>1 DEF Chosen, After, TypeInv, Rekey
  <2>4. \A q \in Rekeyers : rekey[q].pc # "activate"
    BY <1>1, <2>1, Places
  <2>5. slots[rekey[r].old] < slots[active]
    BY <2>3, <2>4 DEF SlotInv
  <2>6. \A t \in timers' : t \in timers \/ t.slot < slots[active]
    BY <1>7, <2>5 DEF Schedules
  <2> QED BY <2>1, <2>2, <2>6, SteadyStep
<1>8. CASE HandsOver(r)
  <2>1. UNCHANGED <<slots, active, gen, timers>> /\ rekey[r].pc \in After /\ rekey'[r].pc \in After
        /\ rekey[r].pc # "activate" /\ rekey[r].pc # "layer"
    BY <1>8 DEF HandsOver, SameGen, After
  <2>2. Chosen(r)'
    BY <1>2, <1>8, <2>1, Places DEF HandsOver, Chosen, SameKeys, SameGen
  <2> QED BY <2>1, <2>2, SteadyStep
<1>9. CASE AddsSlot(r)
  <2>1. /\ UNCHANGED <<active, gen, timers>> /\ slots' = [slots EXCEPT ![rekey[r].new] = gen]
        /\ rekey[r].pc = "slot" /\ rekey'[r].pc = "activate" /\ SameKeys(r) /\ rekey'[r].gen = gen
        /\ "slot" \in Exchanging
    BY <1>2, <1>9, Places, Zenon DEF AddsSlot, SameGen, Chosen, Exchanging
  <2>2. /\ rekey[r].new = nextKeyID(active) /\ rekey[r].old = active /\ rekey[r].new # active
        /\ \A k \in KIDs : slots[k] < gen
    BY <1>2, <2>1, Places, NextKeyID DEF Chosen
  <2>3. /\ slots'[rekey[r].new] = gen /\ slots'[active] = slots[active]
        /\ \A k \in KIDs \ {rekey[r].new} : slots'[k] = slots[k]
    BY <1>2, <2>1, <2>2
  <2>4. Chosen(r)'
    BY <1>2, <2>1, <2>2, <2>3, Places DEF Chosen, SameKeys
  <2>5. RekeyInv'
    <3>1. ASSUME NEW q \in Rekeyers \ {r} PROVE Chosen(q)'
      <4>1. rekey'[q].pc \notin Critical
        BY <1>1
      <4> QED BY <4>1, Places DEF Chosen
    <3> QED BY <2>4, <3>1 DEF RekeyInv
  <2>6. SlotInv'
    <3>1. \A k \in KIDs : slots'[k] <= gen
      BY <1>2, <2>2, <2>3
    <3>2. \A q \in Rekeyers : rekey[q].pc # "activate"
      BY <1>1, <2>1, Places
    <3>3. ASSUME NEW k \in KIDs \ {active}
          PROVE  \/ slots'[k] < slots'[active]
                 \/ rekey'[r].pc = "activate" /\ k = rekey'[r].new
      <4>1. slots[k] < slots[active]
        BY <3>2 DEF SlotInv
      <4> QED BY <2>1, <2>3, <4>1 DEF SameKeys
    <3> QED BY <2>1, <2>3, <3>1, <3>3 DEF SlotInv
  <2> QED BY <1>1, <2>5, <2>6
<1>10. CASE Switches(r)
  <2>1. /\ UNCHANGED <<slots, gen, timers>> /\ active' = rekey[r].new
        /\ rekey[r].pc = "activate" /\ rekey'[r].pc = "conn" /\ SameKeys(r) /\ SameGen(r)
        /\ "conn" \in After
    BY <1>10 DEF Switches, SameGen, After
  <2>2. /\ rekey[r].new = nextKeyID(active) /\ rekey[r].old = active /\ rekey[r].new # active
        /\ slots[rekey[r].new] = gen /\ slots[active] < gen
        /\ rekey[r].gen = gen
    BY <1>2, <2>1, Places, NextKeyID DEF Chosen
  <2>3. Chosen(r)'
    <3>1. rekey'[r].pc \in Critical /\ rekey'[r].pc \notin Before
          /\ rekey'[r].pc \notin Pumping \cup Exchanging /\ rekey'[r].pc # "activate"
      BY <2>1, Places
    <3> QED BY <2>1, <2>2, <3>1 DEF Chosen, SameKeys, SameGen
  <2>4. RekeyInv'
    <3>1. ASSUME NEW q \in Rekeyers \ {r} PROVE Chosen(q)'
      <4>1. rekey'[q].pc \notin Critical
        BY <1>1
      <4> QED BY <4>1, Places DEF Chosen
    <3> QED BY <2>3, <3>1 DEF RekeyInv
  <2>5. SlotInv'
    <3>1. \A q \in Rekeyers : rekey[q].pc = "activate" => q = r
      BY <1>1, Places
    <3>2. ASSUME NEW k \in KIDs \ {rekey[r].new}
          PROVE  slots[k] < gen
      <4>1. CASE k = active
        BY <2>2, <4>1
      <4>2. CASE k # active
        <5>1. slots[k] < slots[active]
          BY <3>1, <4>2 DEF SlotInv
        <5>2. slots[k] \in Nat /\ slots[active] \in Nat
          BY <1>2
        <5> QED BY <1>2, <2>2, <5>1, <5>2
      <4> QED BY <4>1, <4>2
    <3>3. ASSUME NEW t \in timers
          PROVE  t.slot < gen
      <4>1. t.slot \in Nat /\ slots[active] \in Nat /\ t.slot < slots[active]
        BY <1>2 DEF TypeInv, SlotInv
      <4> QED BY <1>2, <2>2, <4>1
    <3>4. gen # None
      BY DEF TypeInv, None
    <3> QED BY <2>1, <2>2, <3>2, <3>3, <3>4 DEF SlotInv
  <2> QED BY <1>1, <2>4, <2>5
<1> QED BY <1>3, <1>4, <1>5, <1>6, <1>7, <1>8, <1>9, <1>10 DEF Works

LEMMA QuietKey ==
  ASSUME KeyInv, Quiet
  PROVE  KeyInv'
<1> USE DEF KeyInv
<1>1. TypeInv'
  BY DEF Quiet, TypeInv, tableVars
<1>2. \A r \in Rekeyers : rekey'[r] = rekey[r] \/ (rekey[r].pc \notin Critical /\ rekey'[r].pc \notin Critical)
  BY Places DEF Quiet
<1>3. UNCHANGED <<slots, active, gen, timers, inProgress>>
  BY DEF Quiet, tableVars
<1>4. LockInv'
  BY <1>2, <1>3 DEF LockInv
<1>5. RekeyInv'
  <2> SUFFICES ASSUME NEW r \in Rekeyers PROVE Chosen(r)'
    BY DEF RekeyInv
  <2>1. CASE rekey'[r] = rekey[r]
    BY <1>3, <2>1 DEF RekeyInv, Chosen
  <2>2. CASE rekey'[r].pc \notin Critical
    BY <2>2, Places DEF Chosen
  <2> QED BY <1>2, <2>1, <2>2
<1>6. SlotInv'
  <2>1. \A r \in Rekeyers : rekey[r].pc = "activate" => rekey'[r] = rekey[r]
    BY <1>2, Places
  <2> QED BY <1>3, <2>1 DEF SlotInv
<1> QED BY <1>1, <1>4, <1>5, <1>6

(* A timer never takes the active slot, nor one about to be switched to. *)
LEMMA RetireFacts ==
  ASSUME KeyInv, NEW t \in timers, RetireAfter(t)
  PROVE  /\ t \in [kid : KIDs, slot : Nat, layer : Nat]
         /\ slots' = IF slots[t.kid] = t.slot THEN [slots EXCEPT ![t.kid] = None] ELSE slots
         /\ slots' \in [KIDs -> Nat] /\ layers' \in [KIDs -> Nat] /\ openLayers' \subseteq openLayers
         /\ \A k \in KIDs : slots'[k] = slots[k] \/ (slots'[k] = None /\ k = t.kid /\ slots[k] = t.slot)
         /\ slots'[active] = slots[active]
         /\ timers' = timers \ {t}
         /\ UNCHANGED <<active, tlsConn, openConns, closeState, inProgress, rekey, gen>>
<1>1. t \in [kid : KIDs, slot : Nat, layer : Nat] /\ None \in Nat
  BY DEF KeyInv, TypeInv, None
<1>2. slots' = IF slots[t.kid] = t.slot THEN [slots EXCEPT ![t.kid] = None] ELSE slots
  BY DEF RetireAfter, RetireSlotIf
<1>3. /\ slots' \in [KIDs -> Nat]
      /\ \A k \in KIDs : slots'[k] = slots[k] \/ (slots'[k] = None /\ k = t.kid /\ slots[k] = t.slot)
  BY <1>1, <1>2 DEF KeyInv, TypeInv
<1>4. layers' \in [KIDs -> Nat] /\ openLayers' \subseteq openLayers
  BY <1>1 DEF RetireAfter, RetireLayerIf, KeyInv, TypeInv
<1>5. slots[active] # t.slot
  <2>1. t.slot \in Nat /\ slots[active] \in Nat /\ t.slot < slots[active]
    BY <1>1 DEF KeyInv, TypeInv, SlotInv
  <2> QED BY <2>1
<1>6. slots'[active] = slots[active]
  BY <1>3, <1>5 DEF KeyInv, TypeInv
<1>7. /\ timers' = timers \ {t}
      /\ UNCHANGED <<active, tlsConn, openConns, closeState, inProgress, rekey, gen>>
  BY DEF RetireAfter, closeVars, closeState
<1> QED BY <1>1, <1>2, <1>3, <1>4, <1>6, <1>7

LEMMA RetireKey ==
  ASSUME KeyInv, NEW t \in timers, RetireAfter(t)
  PROVE  KeyInv'
<1> USE DEF KeyInv
<1> HIDE DEF None
<1>1. /\ slots' \in [KIDs -> Nat] /\ layers' \in [KIDs -> Nat] /\ openLayers' \subseteq openLayers
      /\ \A k \in KIDs : slots'[k] = slots[k] \/ (slots'[k] = None /\ slots[k] = t.slot)
      /\ slots'[active] = slots[active] /\ timers' = timers \ {t}
      /\ UNCHANGED <<active, tlsConn, openConns, closed, closer, shutdown, inProgress, rekey, gen>>
  BY RetireFacts DEF closeState
<1>2. \A k \in KIDs : slots[k] \in Nat /\ slots'[k] \in Nat /\ slots'[k] <= slots[k]
  BY <1>1 DEF TypeInv, None
<1>3. TypeInv'
  BY <1>1 DEF TypeInv
<1>4. active \in KIDs /\ slots[active] \in Nat /\ gen \in Nat /\ t.slot \in Nat /\ t.slot < slots[active]
  BY DEF TypeInv, SlotInv
<1>5. RekeyInv'
  <2> SUFFICES ASSUME NEW r \in Rekeyers PROVE Chosen(r)'
    BY DEF RekeyInv
  <2>1. Chosen(r) /\ rekey[r].new \in KIDs
    BY DEF RekeyInv, TypeInv, Rekey
  <2>2. rekey[r].pc \in Pumping \cup Exchanging => \A k \in KIDs : slots'[k] < gen
    BY <1>2, <1>4, <2>1 DEF Chosen
  <2>3. rekey[r].pc = "activate" => slots'[rekey[r].new] = gen
    <3>1. rekey[r].pc = "activate" => slots[rekey[r].new] = gen /\ slots[active] < gen
      BY <2>1, Zenon DEF Chosen
    <3>2. slots'[rekey[r].new] = slots[rekey[r].new] \/ slots[rekey[r].new] = t.slot
      BY <1>1, <2>1, Zenon
    <3>3. rekey[r].pc = "activate" => slots[rekey[r].new] # t.slot
      BY <1>4, <3>1
    <3> QED BY <3>1, <3>2, <3>3, Zenon
  <2> QED BY <1>1, <2>1, <2>2, <2>3, Zenon DEF Chosen
<1>6. SlotInv'
  <2>1. \A k \in KIDs : slots'[k] <= gen
    BY <1>2, <1>4 DEF SlotInv
  <2>2. \A k \in KIDs : slots[k] < slots[active] => slots'[k] < slots[active]
    BY <1>2, <1>4
  <2> QED BY <1>1, <2>1, <2>2 DEF SlotInv
<1>7. LockInv'
  BY <1>1 DEF LockInv
<1> QED BY <1>3, <1>5, <1>6, <1>7

(* Steps that touch only the timers, the layers or the TLS conns. *)
LEMMA AsideKey ==
  ASSUME KeyInv, UNCHANGED <<slots, active, gen, inProgress, rekey, closed, shutdown>>,
         layers' \in [KIDs -> Nat], openLayers' \subseteq Nat, tlsConn' \in Nat,
         openConns' \subseteq Nat, timers' \subseteq timers, closer' \in Closer
  PROVE  KeyInv'
<1> USE DEF KeyInv
<1>1. TypeInv'
  BY DEF TypeInv
<1>2. LockInv' /\ RekeyInv'
  BY DEF LockInv, RekeyInv, Chosen
<1>3. SlotInv'
  BY DEF SlotInv
<1> QED BY <1>1, <1>2, <1>3

(* What RetireAll and CloseTLSConn change. *)
LEMMA CloserFacts ==
  ASSUME TypeInv, RetireAll \/ CloseTLSConn
  PROVE  /\ UNCHANGED <<slots, active, gen, inProgress, rekey, closed, shutdown, timers>>
         /\ layers' \in [KIDs -> Nat] /\ openLayers' \subseteq openLayers /\ tlsConn' \in Nat
         /\ openConns' \subseteq openConns /\ closer' \in Closer
<1>1. CASE RetireAll
  <2>1. /\ UNCHANGED <<slots, active, gen, inProgress, rekey, closed, shutdown, timers, tlsConn, openConns>>
        /\ layers' = [layers EXCEPT ![closer.kid] = None]
        /\ openLayers' = openLayers \ {layers[closer.kid]}
        /\ closer' = IF closer.kid + 1 \in KIDs THEN [closer EXCEPT !.kid = @ + 1]
                     ELSE [closer EXCEPT !.pc = "conn"]
    BY <1>1 DEF RetireAll
  <2>2. closer' \in Closer
    BY <2>1 DEF TypeInv, Closer
  <2>3. layers' \in [KIDs -> Nat]
    BY <2>1, Zenon DEF TypeInv, None
  <2> QED BY <2>1, <2>2, <2>3 DEF TypeInv
<1>2. CASE CloseTLSConn
  <2>1. /\ UNCHANGED <<slots, active, gen, inProgress, rekey, closed, shutdown, timers, layers>>
        /\ tlsConn' = None /\ CloseConn(tlsConn) /\ closer' = [closer EXCEPT !.pc = "wait"]
    BY <1>2 DEF CloseTLSConn
  <2>2. closer' \in Closer
    BY <2>1 DEF TypeInv, Closer
  <2> QED BY <2>1, <2>2 DEF TypeInv, CloseConn, None
<1> QED BY <1>1, <1>2

LEMMA KeyStep ==
  ASSUME KeyInv, [Next]_vars
  PROVE  KeyInv'
<1>1. TypeInv
  BY DEF KeyInv
<1>2. CASE \E t \in timers : RetireCancelled(t)
  <2>1. /\ UNCHANGED <<slots, active, gen, inProgress, rekey, closed, shutdown>>
        /\ UNCHANGED <<layers, openLayers, tlsConn, openConns, closer>> /\ timers' \subseteq timers
    BY <1>2 DEF RetireCancelled, tableVars, closeVars
  <2> QED BY <1>1, <2>1, AsideKey DEF TypeInv
<1>3. CASE RetireAll \/ CloseTLSConn
  <2>1. openLayers \subseteq Nat /\ openConns \subseteq Nat
    BY <1>1 DEF TypeInv
  <2> QED BY <1>1, <1>3, <2>1, CloserFacts, AsideKey, Zenon
<1> QED BY <1>1, <1>2, <1>3, NextKinds, QuietKey, WorksKey, RetireKey

LEMMA InitKey ==
  ASSUME Init
  PROVE  KeyInv
<1>1. /\ \A r \in Rekeyers : rekey[r] = Idle
      /\ active = 0 /\ timers = {} /\ gen = 1 /\ active \in KIDs
      /\ \A k \in KIDs : slots[k] = IF k = 0 THEN 1 ELSE 0
  BY Constants DEF Init, None
<1>2. "idle" \notin Critical
  BY DEF Critical, Before, After, Pumping, Exchanging
<1>3. TypeInv
  <2>1. closed = FALSE /\ shutdown = FALSE /\ inProgress = FALSE
    BY DEF Init
  <2>2. closed \in BOOLEAN /\ shutdown \in BOOLEAN /\ inProgress \in BOOLEAN
    BY <2>1, Zenon
  <2>3. closer \in Closer
    BY Constants DEF Init, Closer
  <2>4. rekey \in [Rekeyers -> Rekey]
    BY IdleFacts DEF Init
  <2>5. slots \in [KIDs -> Nat] /\ layers \in [KIDs -> Nat]
    BY DEF Init, None
  <2>6. openLayers = {1} /\ openConns = {1} /\ tlsConn = 1
    BY DEF Init
  <2> QED BY <1>1, <2>2, <2>3, <2>4, <2>5, <2>6 DEF TypeInv
<1>4. LockInv
  BY <1>1, <1>2, IdleFacts DEF LockInv
<1>5. RekeyInv
  BY <1>1, <1>2, IdleFacts, Places DEF RekeyInv, Chosen
<1>6. SlotInv
  BY <1>1, Constants DEF SlotInv, None
<1> QED BY <1>3, <1>4, <1>5, <1>6 DEF KeyInv

LEMMA KeyAlways == Spec => []KeyInv
<1>1. KeyInv /\ [Next]_vars => KeyInv'
  BY KeyStep
<1> QED BY <1>1, InitKey, PTL DEF Spec

(* Outbound packets always have keys, and the newest that a rekey has      *)
(* switched to, with any number of key-ids that come round again while     *)
(* retireAfter's timers for their old slots still run.                     *)
THEOREM ActiveIsNewest == Spec => []ActiveSlotIsNewest
<1>1. KeyInv => ActiveSlotIsNewest
  <2> SUFFICES ASSUME KeyInv, NEW k \in KIDs, slots[k] > slots[active]
               PROVE  \E r \in Rekeyers : At(r, "activate") /\ rekey[r].gen = slots[k]
    BY DEF ActiveSlotIsNewest, KeyInv, SlotInv
  <2>1. slots[k] \in Nat /\ slots[active] \in Nat /\ k # active
    BY DEF KeyInv, TypeInv
  <2>2. PICK r \in Rekeyers : rekey[r].pc = "activate" /\ k = rekey[r].new
    BY <2>1 DEF KeyInv, SlotInv
  <2>3. slots[k] = gen /\ rekey[r].gen = gen
    BY <2>2, Places DEF KeyInv, RekeyInv, Chosen
  <2> QED BY <2>2, <2>3 DEF At
<1> QED BY <1>1, KeyAlways, PTL

(* The previous key opens packets for the whole transition window: a slot  *)
(* goes when its own timer fires or when a newer one takes its key-id.     *)
THEOREM SlotsKept == Spec => SlotsKeptInTransition
<1> DEFINE Kept == \A k \in KIDs : slots[k] # None /\ slots'[k] # slots[k] =>
                     \/ slots'[k] > slots[k]
                     \/ \E t \in timers : t.slot = slots[k] /\ t \notin timers'
<1>1. KeyInv /\ [Next]_vars => Kept \/ UNCHANGED vars
  <2> SUFFICES ASSUME KeyInv, [Next]_vars PROVE Kept
    OBVIOUS
  <2>1. CASE Quiet \/ RetireAll \/ CloseTLSConn \/ \E t \in timers : RetireCancelled(t)
    <3>1. UNCHANGED slots
      BY <2>1, CloserFacts DEF Quiet, RetireCancelled, tableVars, KeyInv
    <3> QED BY <3>1
  <2>2. ASSUME NEW t \in timers, RetireAfter(t) PROVE Kept
    <3>1. /\ \A k \in KIDs : slots'[k] = slots[k] \/ (slots'[k] = None /\ slots[k] = t.slot)
          /\ timers' = timers \ {t}
      BY <2>2, RetireFacts
    <3> QED BY <3>1
  <2>3. ASSUME NEW r \in Rekeyers, Works(r) PROVE Kept
    <3>1. CASE AddsSlot(r)
      <4>1. slots' = [slots EXCEPT ![rekey[r].new] = rekey[r].gen] /\ rekey[r].pc = "slot"
        BY <3>1 DEF AddsSlot
      <4>2. rekey[r].gen = gen /\ \A k \in KIDs : slots[k] < gen
        BY <4>1, Places DEF KeyInv, RekeyInv, Chosen, Exchanging
      <4>3. gen \in Nat /\ slots \in [KIDs -> Nat]
        BY DEF KeyInv, TypeInv
      <4> QED BY <4>1, <4>2, <4>3
    <3>2. CASE ~AddsSlot(r)
      <4>1. UNCHANGED slots
        BY <2>3, <3>2, Zenon DEF Works, Takes, AddsLayer, GoesOn, Rejected, GivesUp, Leaves, Switches,
             HandsOver, Schedules, tableVars
      <4> QED BY <4>1
    <3> QED BY <3>1, <3>2
  <2> QED BY <2>1, <2>2, <2>3, NextKinds DEF KeyInv
<1> QED BY <1>1, KeyAlways, PTL DEF Spec, SlotsKeptInTransition

-----------------------------------------------------------------------------
(* Timers *)

LEMMA CloserStep ==
  ASSUME KeyInv, CloserInv, [Next]_vars
  PROVE  CloserInv' /\ (shutdown => shutdown')
<1> USE DEF KeyInv
<1>1. CASE Quiet
  <2>1. UNCHANGED tlsConn
    BY <1>1 DEF Quiet, tableVars
  <2> QED BY <1>1, <2>1 DEF Quiet, CloserInv
<1>2. ASSUME NEW r \in Rekeyers, Works(r)
      PROVE  CloserInv' /\ (shutdown => shutdown')
  <2>1. UNCHANGED <<closed, closer, shutdown>>
    BY <1>2, WorksAlone DEF closeState
  <2>2. closed => UNCHANGED tlsConn
    BY <1>2, Zenon DEF Works, Takes, AddsLayer, GoesOn, Rejected, GivesUp, Leaves, AddsSlot, Switches,
         HandsOver, Schedules, tableVars
  <2> QED BY <2>1, <2>2 DEF CloserInv
<1>3. ASSUME NEW t \in timers, RetireAfter(t) \/ RetireCancelled(t)
      PROVE  CloserInv' /\ (shutdown => shutdown')
  <2>1. UNCHANGED <<closed, closer, shutdown, tlsConn>>
    BY <1>3 DEF RetireAfter, RetireCancelled, closeVars, tableVars
  <2> QED BY <2>1 DEF CloserInv
<1>4. CASE RetireAll
  <2>1. /\ UNCHANGED <<closed, shutdown, tlsConn>> /\ closer.pc = "retire"
        /\ closer' = IF closer.kid + 1 \in KIDs THEN [closer EXCEPT !.kid = @ + 1]
                     ELSE [closer EXCEPT !.pc = "conn"]
    BY <1>4 DEF RetireAll
  <2>2. closer'.pc \in {"retire", "conn"}
    BY <2>1 DEF TypeInv, Closer
  <2> QED BY <2>1, <2>2 DEF CloserInv
<1>5. CASE CloseTLSConn
  <2>1. /\ UNCHANGED <<closed, shutdown>> /\ closer.pc = "conn" /\ tlsConn' = None
        /\ closer' = [closer EXCEPT !.pc = "wait"]
    BY <1>5 DEF CloseTLSConn
  <2>2. closer'.pc = "wait"
    BY <2>1 DEF TypeInv, Closer
  <2> QED BY <2>1, <2>2 DEF CloserInv
<1> QED BY <1>1, <1>2, <1>3, <1>4, <1>5, NextKinds

(* A rekey starts no timer for what it uses, and sets one for what it      *)
(* leaves behind.                                                          *)
LEMMA WorksTimed ==
  ASSUME KeyInv, TimerInv, ~shutdown, NEW r \in Rekeyers, Works(r), NEW k \in KIDs \ {active'}
  PROVE  /\ SlotTimed(k)' \/ SlotInUse(k, r)'
         /\ LayerTimed(k)' \/ LayerInUse(k, r)'
<1> USE DEF KeyInv
<1>1. /\ slots \in [KIDs -> Nat] /\ layers \in [KIDs -> Nat] /\ active \in KIDs
      /\ rekey[r].new \in KIDs /\ rekey[r].old \in KIDs /\ Chosen(r)
  BY DEF TypeInv, Rekey, RekeyInv
<1>2. \A q \in Rekeyers \ {r} : rekey[q].pc \notin Critical
  BY WorksAlone
<1>3. \A q \in Rekeyers : SlotInUse(k, q) \/ LayerInUse(k, q) => q = r
  BY <1>2, Places DEF SlotInUse, LayerInUse
<1>4. k # active => (SlotTimed(k) \/ SlotInUse(k, r)) /\ (LayerTimed(k) \/ LayerInUse(k, r))
  BY <1>3 DEF TimerInv
<1>5. CASE Takes(r)
  <2>1. UNCHANGED <<slots, layers, active, timers>> /\ rekey[r].pc \notin Critical
    BY <1>5, Places DEF Takes, tableVars
  <2>2. ~SlotInUse(k, r) /\ ~LayerInUse(k, r)
    BY <2>1, Places DEF SlotInUse, LayerInUse
  <2> QED BY <1>4, <2>1, <2>2 DEF SlotTimed, LayerTimed
<1>6. CASE AddsLayer(r)
  <2>1. /\ UNCHANGED <<slots, active, timers>> /\ rekey[r].pc = "layer" /\ rekey'[r].pc = "writeLoop"
        /\ layers' = [layers EXCEPT ![rekey[r].new] = gen + 1] /\ SameKeys(r)
    BY <1>6 DEF AddsLayer
  <2>2. ~SlotInUse(k, r) /\ ~LayerInUse(k, r)
    BY <2>1, Places DEF SlotInUse, LayerInUse
  <2>3. SlotTimed(k) /\ LayerTimed(k)
    BY <1>4, <2>1, <2>2
  <2>4. k # rekey[r].new => layers'[k] = layers[k]
    BY <1>1, <2>1
  <2>5. k = rekey[r].new => LayerInUse(k, r)'
    BY <2>1 DEF LayerInUse, Pumping, SameKeys
  <2> QED BY <2>1, <2>3, <2>4, <2>5 DEF SlotTimed, LayerTimed
<1>7. CASE GoesOn(r)
  <2>1. UNCHANGED <<slots, layers, active, timers>>
    BY <1>7, Zenon DEF GoesOn
  <2>2. ~SlotInUse(k, r) /\ (LayerInUse(k, r) => LayerInUse(k, r)')
    BY <1>7, Places DEF GoesOn, SlotInUse, LayerInUse, SameKeys
  <2> QED BY <1>4, <2>1, <2>2 DEF SlotTimed, LayerTimed
<1>8. CASE Rejected(r)
  BY <1>8 DEF Rejected
<1>9. CASE GivesUp(r)
  <2>1. /\ UNCHANGED <<slots, active, timers>> /\ rekey[r].pc \in Exchanging
        /\ layers' = [layers EXCEPT ![rekey[r].new] = None]
    BY <1>9 DEF GivesUp, Leaves
  <2>2. ~SlotInUse(k, r) /\ (LayerInUse(k, r) => k = rekey[r].new)
    BY <2>1, Places DEF SlotInUse, LayerInUse
  <2>3. layers'[k] = IF k = rekey[r].new THEN None ELSE layers[k]
    BY <1>1, <2>1
  <2> QED BY <1>4, <2>1, <2>2, <2>3, Zenon DEF SlotTimed, LayerTimed
<1>10. CASE AddsSlot(r)
  <2>1. /\ UNCHANGED <<layers, active, timers>> /\ rekey[r].pc = "slot" /\ rekey'[r].pc = "activate"
        /\ slots' = [slots EXCEPT ![rekey[r].new] = rekey[r].gen] /\ SameKeys(r)
    BY <1>10, Zenon DEF AddsSlot
  <2>2. ~SlotInUse(k, r) /\ (LayerInUse(k, r) => k = rekey[r].new)
    BY <2>1, Places DEF SlotInUse, LayerInUse, Exchanging
  <2>3. k # rekey[r].new => slots'[k] = slots[k]
    BY <1>1, <2>1
  <2>4. k = rekey[r].new => SlotInUse(k, r)' /\ LayerInUse(k, r)'
    BY <2>1 DEF SlotInUse, LayerInUse, SameKeys
  <2> QED BY <1>4, <2>1, <2>2, <2>3, <2>4 DEF SlotTimed, LayerTimed
<1>11. CASE Switches(r)
  <2>1. /\ UNCHANGED <<slots, layers, timers>> /\ rekey[r].pc = "activate" /\ rekey'[r].pc = "conn"
        /\ active' = rekey[r].new /\ SameKeys(r) /\ rekey[r].old = active
    BY <1>1, <1>11, Places, Zenon DEF Switches, Chosen
  <2>2. k = active => SlotInUse(k, r)' /\ LayerInUse(k, r)'
    BY <2>1, Zenon DEF SlotInUse, LayerInUse, SameKeys, After
  <2>3. ~SlotInUse(k, r) /\ ~LayerInUse(k, r)
    BY <2>1, Places DEF SlotInUse, LayerInUse
  <2> QED BY <1>4, <2>1, <2>2, <2>3, Zenon DEF SlotTimed, LayerTimed
<1>12. CASE HandsOver(r)
  <2>1. UNCHANGED <<slots, layers, active, timers>> /\ rekey[r].pc \in After /\ rekey'[r].pc \in After
        /\ SameKeys(r)
    BY <1>12, Zenon DEF HandsOver, After
  <2>2. (SlotInUse(k, r) => SlotInUse(k, r)') /\ (LayerInUse(k, r) => LayerInUse(k, r)')
    BY <2>1, Places DEF SlotInUse, LayerInUse, SameKeys
  <2> QED BY <1>4, <2>1, <2>2 DEF SlotTimed, LayerTimed
<1>13. CASE Schedules(r)
  <2> DEFINE new == [kid |-> rekey[r].old, slot |-> slots[rekey[r].old], layer |-> layers[rekey[r].old]]
  <2>1. /\ UNCHANGED <<slots, layers, active>> /\ rekey[r].pc = "schedule"
        /\ timers' = timers \cup {new}
    BY <1>13 DEF Schedules, Leaves
  <2>2. SlotInUse(k, r) \/ LayerInUse(k, r) => k = rekey[r].old
    BY <2>1, Places DEF SlotInUse, LayerInUse, After
  <2>3. new \in timers' /\ new.kid = rekey[r].old /\ new.slot = slots[rekey[r].old]
        /\ new.layer = layers[rekey[r].old]
    BY <2>1, Zenon
  <2> HIDE DEF new
  <2>4. k = rekey[r].old => SlotTimed(k)' /\ LayerTimed(k)'
    BY <2>1, <2>3 DEF SlotTimed, LayerTimed
  <2>5. (SlotTimed(k) => SlotTimed(k)') /\ (LayerTimed(k) => LayerTimed(k)')
    BY <2>1 DEF SlotTimed, LayerTimed
  <2> QED BY <1>4, <2>1, <2>2, <2>4, <2>5
<1> QED BY <1>5, <1>6, <1>7, <1>8, <1>9, <1>10, <1>11, <1>12, <1>13 DEF Works

LEMMA TimerStep ==
  ASSUME KeyInv, CloserInv, TimerInv, [Next]_vars
  PROVE  TimerInv'
<1> USE DEF KeyInv
<1>1. SUFFICES ASSUME ~shutdown' PROVE TimerInv'
  BY DEF TimerInv
<1>2. ~shutdown
  BY <1>1, CloserStep
<1>3. CASE Quiet
  <2>1. UNCHANGED <<slots, layers, active, timers>>
    BY <1>3 DEF Quiet, tableVars
  <2>2. \A r \in Rekeyers : rekey[r].pc \in Critical => rekey'[r] = rekey[r]
    BY <1>3, Places DEF Quiet
  <2>3. \A k \in KIDs : (SlotTimed(k) => SlotTimed(k)') /\ (LayerTimed(k) => LayerTimed(k)')
    BY <2>1, Zenon DEF SlotTimed, LayerTimed
  <2>4. ASSUME NEW k \in KIDs \ {active}
        PROVE  /\ SlotTimed(k)' \/ \E r \in Rekeyers : SlotInUse(k, r)'
               /\ LayerTimed(k)' \/ \E r \in Rekeyers : LayerInUse(k, r)'
    <3>1. /\ SlotTimed(k) \/ \E r \in Rekeyers : SlotInUse(k, r)
          /\ LayerTimed(k) \/ \E r \in Rekeyers : LayerInUse(k, r)
      BY <1>2 DEF TimerInv
    <3>2. (SlotTimed(k) => SlotTimed(k)') /\ (LayerTimed(k) => LayerTimed(k)')
      BY <2>3
    <3>3. ASSUME NEW r \in Rekeyers, SlotInUse(k, r) PROVE \E q \in Rekeyers : SlotInUse(k, q)'
      <4>1. SlotInUse(k, r)'
        BY <2>2, <3>3, Places DEF SlotInUse
      <4> QED BY <4>1
    <3>4. ASSUME NEW r \in Rekeyers, LayerInUse(k, r) PROVE \E q \in Rekeyers : LayerInUse(k, q)'
      <4>1. LayerInUse(k, r)'
        BY <2>2, <3>4, Places DEF LayerInUse
      <4> QED BY <4>1
    <3> QED BY <3>1, <3>2, <3>3, <3>4
  <2> QED BY <2>1, <2>4 DEF TimerInv
<1>4. CASE \E r \in Rekeyers : Works(r)
  BY <1>2, <1>4, WorksTimed DEF TimerInv
<1>5. ASSUME NEW t \in timers, RetireAfter(t)
      PROVE  TimerInv'
  <2>1. /\ UNCHANGED <<active, rekey>> /\ timers' = timers \ {t} /\ t.kid \in KIDs
        /\ slots' = IF slots[t.kid] = t.slot THEN [slots EXCEPT ![t.kid] = None] ELSE slots
    BY <1>5, RetireFacts
  <2>2. layers' = IF layers[t.kid] = t.layer /\ t.layer # None
                  THEN [layers EXCEPT ![t.kid] = None] ELSE layers
    BY <1>5 DEF RetireAfter, RetireLayerIf
  <2>3. slots \in [KIDs -> Nat] /\ layers \in [KIDs -> Nat]
    BY DEF TypeInv
  <2>4. ASSUME NEW k \in KIDs, SlotTimed(k) PROVE SlotTimed(k)'
    <3> SUFFICES ASSUME slots'[k] # None
                 PROVE  \E u \in timers' : u.kid = k /\ u.slot = slots'[k]
      BY DEF SlotTimed
    <3>1. slots'[k] = slots[k] /\ ~(k = t.kid /\ slots[k] = t.slot)
      BY <2>1, <2>3
    <3>2. PICK u \in timers : u.kid = k /\ u.slot = slots[k]
      BY <2>4, <3>1 DEF SlotTimed
    <3> QED BY <2>1, <3>1, <3>2
  <2>5. ASSUME NEW k \in KIDs, LayerTimed(k) PROVE LayerTimed(k)'
    <3> SUFFICES ASSUME layers'[k] # None
                 PROVE  \E u \in timers' : u.kid = k /\ u.layer = layers'[k]
      BY DEF LayerTimed
    <3>1. layers'[k] = layers[k] /\ ~(k = t.kid /\ layers[k] = t.layer)
      BY <2>2, <2>3
    <3>2. PICK u \in timers : u.kid = k /\ u.layer = layers[k]
      BY <2>5, <3>1 DEF LayerTimed
    <3> QED BY <2>1, <3>1, <3>2
  <2>6. ASSUME NEW k \in KIDs \ {active}
        PROVE  /\ SlotTimed(k)' \/ \E r \in Rekeyers : SlotInUse(k, r)'
               /\ LayerTimed(k)' \/ \E r \in Rekeyers : LayerInUse(k, r)'
    <3>1. /\ SlotTimed(k) \/ \E r \in Rekeyers : SlotInUse(k, r)
          /\ LayerTimed(k) \/ \E r \in Rekeyers : LayerInUse(k, r)
      BY <1>2 DEF TimerInv
    <3>2. (SlotTimed(k) => SlotTimed(k)') /\ (LayerTimed(k) => LayerTimed(k)')
      BY <2>4, <2>5
    <3>3. ASSUME NEW r \in Rekeyers, SlotInUse(k, r) PROVE \E q \in Rekeyers : SlotInUse(k, q)'
      <4>1. SlotInUse(k, r)'
        BY <2>1, <3>3 DEF SlotInUse
      <4> QED BY <4>1
    <3>4. ASSUME NEW r \in Rekeyers, LayerInUse(k, r) PROVE \E q \in Rekeyers : LayerInUse(k, q)'
      <4>1. LayerInUse(k, r)'
        BY <2>1, <3>4 DEF LayerInUse
      <4> QED BY <4>1
    <3> QED BY <3>1, <3>2, <3>3, <3>4
  <2> QED BY <2>1, <2>6 DEF TimerInv
<1>6. ~RetireAll /\ ~CloseTLSConn /\ \A t \in timers : ~RetireCancelled(t)
  BY <1>2 DEF RetireAll, CloseTLSConn, RetireCancelled, CloserInv
<1> QED BY <1>3, <1>4, <1>5, <1>6, NextKinds

LEMMA CloserAlways == Spec => []CloserInv
<1>1. Init => CloserInv
  BY DEF Init, CloserInv
<1>2. KeyInv /\ CloserInv /\ [Next]_vars => CloserInv'
  BY CloserStep
<1> QED BY <1>1, <1>2, KeyAlways, PTL DEF Spec

(* Old keys retire: whatever key-ids come round and however timers and     *)
(* rekeys interleave, each slot and each layer that no rekey uses has the  *)
(* timer that will take it away.                                           *)
THEOREM OldKeysGo == Spec => []OldKeysRetire
<1>1. Init => TimerInv
  <2> SUFFICES ASSUME Init, NEW k \in KIDs \ {0}
               PROVE  slots[k] = None /\ layers[k] = None
    BY DEF Init, TimerInv, SlotTimed, LayerTimed
  <2> QED BY DEF Init
<1>2. KeyInv /\ CloserInv /\ TimerInv /\ [Next]_vars => TimerInv'
  BY TimerStep
<1>3. TimerInv => OldKeysRetire
  <2> SUFFICES ASSUME TimerInv, ~shutdown, NEW k \in KIDs \ {active},
                      ~\E r \in Rekeyers : rekey[r].pc \notin {"idle", "begin", "returned", "report"}
                                          /\ k \in {rekey[r].old, rekey[r].new}
               PROVE  /\ slots[k] # None => \E t \in timers : t.kid = k /\ t.slot = slots[k]
                      /\ layers[k] # None => \E t \in timers : t.kid = k /\ t.layer = layers[k]
    BY DEF OldKeysRetire
  <2>1. \A r \in Rekeyers : ~SlotInUse(k, r) /\ ~LayerInUse(k, r)
    BY Places DEF SlotInUse, LayerInUse, Outside
  <2>2. SlotTimed(k) /\ LayerTimed(k)
    BY <2>1 DEF TimerInv
  <2> QED BY <2>2 DEF SlotTimed, LayerTimed
<1> QED BY <1>1, <1>2, <1>3, KeyAlways, CloserAlways, PTL DEF Spec

-----------------------------------------------------------------------------
(* What Close leaves *)

LEMMA InTableStep ==
  ASSUME KeyInv, InTable, [Next]_vars
  PROVE  InTable'
<1>1. layers \in [KIDs -> Nat] /\ gen \in Nat \ {0} /\ closer.kid \in KIDs
      /\ \A r \in Rekeyers : rekey[r].new \in KIDs
  BY DEF KeyInv, TypeInv, Rekey, Closer
<1>2. ASSUME UNCHANGED layers, openLayers' \subseteq openLayers
      PROVE  InTable'
  BY <1>2 DEF InTable
<1>3. ASSUME NEW k0 \in KIDs, layers' = [layers EXCEPT ![k0] = None],
             openLayers' \subseteq openLayers \ {layers[k0]}
      PROVE  InTable'
  BY <1>1, <1>3 DEF InTable
<1>4. ASSUME NEW kid \in KIDs, NEW want, RetireLayerIf(kid, want)
      PROVE  InTable'
  BY <1>2, <1>3, <1>4 DEF RetireLayerIf
<1>5. ASSUME NEW r \in Rekeyers, Works(r)
      PROVE  InTable'
  <2>1. CASE Takes(r) \/ GoesOn(r) \/ AddsSlot(r) \/ Switches(r) \/ HandsOver(r) \/ Schedules(r)
    BY <1>2, <2>1, Zenon DEF Takes, GoesOn, AddsSlot, Switches, HandsOver, Schedules, CloseConn, tableVars
  <2>2. CASE AddsLayer(r)
    <3>1. /\ layers' = [layers EXCEPT ![rekey[r].new] = gen + 1]
          /\ openLayers' = (openLayers \ {layers[rekey[r].new]}) \cup {gen + 1}
      BY <2>2 DEF AddsLayer
    <3>2. gen + 1 # None /\ layers'[rekey[r].new] = gen + 1
      BY <1>1, <3>1 DEF None
    <3> QED BY <1>1, <3>1, <3>2 DEF InTable
  <2>3. CASE Rejected(r)
    BY <1>1, <1>4, <2>3 DEF Rejected
  <2>4. CASE GivesUp(r)
    BY <1>1, <1>3, <2>4, Zenon DEF GivesUp
  <2> QED BY <1>5, <2>1, <2>2, <2>3, <2>4 DEF Works
<1>6. ASSUME NEW t \in timers, RetireAfter(t) \/ RetireCancelled(t)
      PROVE  InTable'
  <2>1. t.kid \in KIDs
    BY DEF KeyInv, TypeInv
  <2> QED BY <1>2, <1>4, <1>6, <2>1 DEF RetireAfter, RetireCancelled, tableVars
<1>7. CASE RetireAll \/ CloseTLSConn
  BY <1>1, <1>2, <1>3, <1>7 DEF RetireAll, CloseTLSConn, CloseConn
<1>8. CASE Quiet
  BY <1>2, <1>8 DEF Quiet, tableVars
<1> QED BY <1>5, <1>6, <1>7, <1>8, NextKinds DEF KeyInv

LEMMA RetiredStep ==
  ASSUME KeyInv, CloserInv, RetiredGone, [Next]_vars
  PROVE  RetiredGone'
<1> USE DEF KeyInv
<1> SUFFICES ASSUME NEW k \in KIDs, Retired(k)', layers'[k] # None
             PROVE  \E r \in Rekeyers : rekey'[r].pc \in Pumping /\ rekey'[r].new = k
                                        /\ rekey'[r].gen = layers'[k]
  BY DEF RetiredGone
<1>1. /\ layers \in [KIDs -> Nat] /\ gen \in Nat \ {0} /\ k \in Int /\ 0 <= k /\ k <= NumKeyIDs - 1
      /\ NumKeyIDs \in Nat
  BY Constants DEF TypeInv, KIDs
<1>2. ASSUME Retired(k), layers[k] # None
      PROVE  \E r \in Rekeyers : rekey[r].pc \in Pumping /\ rekey[r].new = k
                                 /\ rekey[r].gen = layers[k]
  BY <1>2 DEF RetiredGone
<1>3. CASE Quiet
  <2>1. UNCHANGED layers /\ \A r \in Rekeyers : rekey[r].pc \in Pumping => rekey'[r] = rekey[r]
    BY <1>3, Places DEF Quiet, tableVars
  <2>2. closer.pc \in {"none", "exit", "shutdown"} => closer.kid = 0
    BY DEF CloserInv
  <2>3. Retired(k)
    BY <1>1, <1>3, <2>2 DEF Quiet, Retired
  <2> QED BY <1>2, <2>1, <2>3
<1>4. ASSUME NEW r \in Rekeyers, Works(r)
      PROVE  rekey'[r].pc \in Pumping /\ rekey'[r].new = k /\ rekey'[r].gen = layers'[k]
  <2>1. /\ UNCHANGED <<closer, shutdown>>
        /\ \A q \in Rekeyers \ {r} : rekey[q].pc \notin Pumping
    BY <1>4, WorksAlone, Places DEF closeState
  <2>2. Retired(k) /\ shutdown
    BY <2>1 DEF Retired, CloserInv
  <2>3. layers[k] # None => rekey[r].pc \in Pumping /\ rekey[r].new = k /\ rekey[r].gen = layers[k]
    BY <1>2, <2>1, <2>2
  <2>4. rekey[r].new \in KIDs
    BY DEF TypeInv, Rekey
  <2>5. CASE AddsLayer(r)
    <3>1. /\ layers' = [layers EXCEPT ![rekey[r].new] = gen + 1] /\ rekey'[r].gen = gen + 1
          /\ rekey[r].pc = "layer" /\ rekey'[r].pc = "writeLoop" /\ SameKeys(r)
      BY <2>5 DEF AddsLayer
    <3>2. layers[k] = None
      BY <2>3, <3>1, Places
    <3>3. k = rekey[r].new /\ layers'[k] = gen + 1
      BY <1>1, <2>4, <3>1, <3>2, Zenon
    <3> QED BY <3>1, <3>3 DEF SameKeys, Pumping
  <2>6. CASE GoesOn(r)
    <3>1. UNCHANGED layers /\ rekey'[r].new = rekey[r].new /\ rekey'[r].gen = rekey[r].gen
          /\ (rekey[r].pc \in Pumping => rekey'[r].pc \in Pumping)
      BY <2>2, <2>6, Zenon DEF GoesOn, SameKeys, SameGen
    <3> QED BY <2>3, <3>1
  <2>7. CASE Rejected(r)
    <3>1. /\ RetireLayerIf(rekey[r].new, rekey[r].gen) /\ rekey[r].pc = "tickLoop"
      BY <2>7 DEF Rejected
    <3>2. layers[k] # None
      BY <1>1, <2>4, <3>1 DEF RetireLayerIf
    <3>3. layers[rekey[r].new] = rekey[r].gen /\ rekey[r].gen # None /\ k = rekey[r].new
      BY <2>3, <3>2
    <3>4. layers'[k] = None
      BY <1>1, <3>1, <3>3 DEF RetireLayerIf
    <3> QED BY <3>4
  <2>8. CASE GivesUp(r)
    <3>1. layers' = [layers EXCEPT ![rekey[r].new] = None] /\ rekey[r].pc \notin Pumping
      BY <2>8, Places DEF GivesUp
    <3>2. layers'[k] \in {None, layers[k]}
      BY <1>1, <2>4, <3>1
    <3> QED BY <2>3, <3>1, <3>2
  <2>9. CASE Takes(r) \/ AddsSlot(r) \/ Switches(r) \/ HandsOver(r) \/ Schedules(r)
    <3>1. UNCHANGED layers
      BY <2>9, Zenon DEF Takes, AddsSlot, Switches, HandsOver, Schedules, tableVars
    <3>2. rekey[r].pc \in Outside \cup {"slot", "activate"} \cup After
      BY <2>9, Zenon DEF Takes, AddsSlot, Switches, HandsOver, Schedules, After
    <3>3. rekey[r].pc \notin Pumping
      BY <3>2, Places DEF Exchanging
    <3> QED BY <2>3, <3>1, <3>3
  <2> QED BY <1>4, <2>5, <2>6, <2>7, <2>8, <2>9, Zenon DEF Works
<1>5. ASSUME NEW t \in timers, RetireAfter(t) \/ RetireCancelled(t)
      PROVE  UNCHANGED <<rekey, closer>> /\ layers'[k] = layers[k]
  <2>1. t.kid \in KIDs
    BY DEF TypeInv
  <2>2. UNCHANGED <<rekey, closer>>
    BY <1>5 DEF RetireAfter, RetireCancelled, closeVars
  <2>3. layers'[k] \in {None, layers[k]}
    BY <1>1, <1>5, <2>1 DEF RetireAfter, RetireCancelled, RetireLayerIf, tableVars
  <2> QED BY <2>2, <2>3
<1>6. CASE \E t \in timers : RetireAfter(t) \/ RetireCancelled(t)
  <2>1. UNCHANGED <<rekey, closer>> /\ layers'[k] = layers[k]
    BY <1>5, <1>6, Zenon
  <2>2. Retired(k)
    BY <2>1 DEF Retired
  <2> QED BY <1>2, <2>1, <2>2
<1>7. CASE RetireAll
  <2>1. /\ UNCHANGED rekey /\ closer.pc = "retire" /\ closer \in Closer
        /\ layers' = [layers EXCEPT ![closer.kid] = None]
        /\ closer' = IF closer.kid + 1 \in KIDs THEN [closer EXCEPT !.kid = @ + 1]
                     ELSE [closer EXCEPT !.pc = "conn"]
    BY <1>7 DEF RetireAll, TypeInv
  <2>2. closer.kid \in KIDs /\ closer.kid \in Int /\ k # closer.kid
    BY <1>1, <2>1 DEF Closer, KIDs
  <2>3. k < closer.kid
    <3>1. CASE closer.kid + 1 \in KIDs
      <4>1. closer'.pc = "retire" /\ closer'.kid = closer.kid + 1
        BY <2>1, <3>1 DEF Closer
      <4> QED BY <1>1, <2>2, <4>1 DEF Retired
    <3>2. CASE closer.kid + 1 \notin KIDs
      BY <1>1, <2>2, <3>2 DEF KIDs
    <3> QED BY <3>1, <3>2
  <2>4. Retired(k) /\ layers'[k] = layers[k]
    BY <1>1, <2>1, <2>2, <2>3 DEF Retired
  <2> QED BY <1>2, <2>1, <2>4
<1>8. CASE CloseTLSConn
  <2>1. UNCHANGED <<rekey, layers>> /\ Retired(k)
    BY <1>8 DEF CloseTLSConn, Retired
  <2> QED BY <1>2, <2>1
<1> QED BY <1>3, <1>4, <1>6, <1>7, <1>8, NextKinds

LEMMA ConnStep ==
  ASSUME KeyInv, ConnInv, [Next]_vars
  PROVE  ConnInv'
<1> USE DEF KeyInv
<1> SUFFICES ASSUME NEW g \in openConns'
             PROVE  /\ g # None
                    /\ \/ g = tlsConn'
                       \/ \E r \in Rekeyers :
                            \/ rekey'[r].pc \in {"keys", "slot", "activate", "conn"} /\ g = rekey'[r].gen
                            \/ rekey'[r].pc = "previous" /\ g = rekey'[r].prev
  BY DEF ConnInv
<1>1. g \in openConns =>
        /\ g # None
        /\ \/ g = tlsConn
           \/ \E r \in Rekeyers :
                \/ rekey[r].pc \in {"keys", "slot", "activate", "conn"} /\ g = rekey[r].gen
                \/ rekey[r].pc = "previous" /\ g = rekey[r].prev
  BY DEF ConnInv
<1>2. {"keys", "slot", "activate", "conn", "previous"} \subseteq Critical
  BY DEF Critical, Before, After, Exchanging
<1>3. CASE Quiet
  <2>1. /\ UNCHANGED <<tlsConn, openConns>>
        /\ \A r \in Rekeyers : rekey[r].pc \in Critical => rekey'[r] = rekey[r]
    BY <1>3, Places DEF Quiet, tableVars
  <2> QED BY <1>1, <1>2, <2>1
<1>4. ASSUME NEW r \in Rekeyers, Works(r)
      PROVE  /\ g # None
             /\ \/ g = tlsConn'
                \/ rekey'[r].pc \in {"keys", "slot", "activate", "conn"} /\ g = rekey'[r].gen
                \/ rekey'[r].pc = "previous" /\ g = rekey'[r].prev
  <2>1. \A q \in Rekeyers \ {r} : rekey[q].pc \notin Critical
    BY <1>4, WorksAlone, Zenon
  <2>2. g \in openConns =>
          /\ g # None
          /\ \/ g = tlsConn
             \/ rekey[r].pc \in {"keys", "slot", "activate", "conn"} /\ g = rekey[r].gen
             \/ rekey[r].pc = "previous" /\ g = rekey[r].prev
    BY <1>1, <1>2, <2>1
  <2>3. CASE Takes(r)
    BY <1>2, <2>2, <2>3, Places DEF Takes, tableVars
  <2>4. CASE AddsLayer(r) \/ Rejected(r) \/ Schedules(r)
    BY <2>2, <2>4, Zenon DEF AddsLayer, Rejected, Schedules, Leaves
  <2>5. CASE GoesOn(r)
    <3>1. /\ UNCHANGED tlsConn /\ rekey'[r].gen = rekey[r].gen
          /\ rekey[r].pc \in {"keys", "slot"} => rekey'[r].pc \in {"keys", "slot"}
          /\ g \in openConns \/ (g = rekey[r].gen /\ rekey'[r].pc = "keys")
      BY <2>5 DEF GoesOn, SameGen
    <3>2. rekey[r].pc \notin {"activate", "conn", "previous"} /\ rekey[r].gen # None
      <4>1. rekey[r].pc \in Pumping \cup Exchanging
        BY <2>5 DEF GoesOn
      <4>2. rekey[r].gen = gen
        BY <4>1, Places DEF RekeyInv, Chosen
      <4> QED BY <4>1, <4>2 DEF Pumping, Exchanging, TypeInv, None
    <3> QED BY <2>2, <3>1, <3>2
  <2>6. CASE GivesUp(r)
    <3>1. /\ UNCHANGED tlsConn /\ openConns' = openConns \ {rekey[r].gen} /\ rekey[r].pc # "previous"
      BY <2>6 DEF GivesUp, Leaves, Exchanging
    <3> QED BY <2>2, <3>1
  <2>7. CASE AddsSlot(r) \/ Switches(r)
    <3>1. /\ UNCHANGED <<tlsConn, openConns>> /\ rekey[r].pc \in {"slot", "activate"}
          /\ rekey'[r].pc \in {"activate", "conn"} /\ rekey'[r].gen = rekey[r].gen
      BY <2>7 DEF AddsSlot, Switches, SameGen
    <3> QED BY <2>2, <3>1
  <2>8. CASE HandsOver(r)
    BY <2>2, <2>8 DEF HandsOver, CloseConn, SameGen
  <2> QED BY <1>4, <2>3, <2>4, <2>5, <2>6, <2>7, <2>8, Zenon DEF Works
<1>5. CASE (\E t \in timers : RetireAfter(t) \/ RetireCancelled(t)) \/ RetireAll
  <2>1. UNCHANGED <<tlsConn, openConns, rekey>>
    BY <1>5 DEF RetireAfter, RetireCancelled, RetireAll, tableVars
  <2> QED BY <1>1, <2>1
<1>6. CASE CloseTLSConn
  <2>1. openConns' = openConns \ {tlsConn} /\ UNCHANGED rekey
    BY <1>6 DEF CloseTLSConn, CloseConn
  <2> QED BY <1>1, <2>1
<1> QED BY <1>3, <1>4, <1>5, <1>6, NextKinds

(* "Close" wins every race with a rekey: when it waits for the workers,    *)
(* and no rekey is under way any more, no layer and no TLS conn is open.   *)
(* A layer that a rekey puts where Close has already been is taken away by *)
(* that rekey when Shutdown rejects its pumps; a conn that it would put    *)
(* there is closed under tlsMu.                                            *)
THEOREM NothingLeft == Spec => []CloseLeavesNothing
<1>1. Init => LeftInv
  <2> SUFFICES ASSUME Init PROVE LeftInv
    OBVIOUS
  <2>1. openLayers = {1} /\ openConns = {1} /\ tlsConn = 1 /\ layers[0] = 1 /\ closer.pc = "none"
    BY Constants DEF Init
  <2> QED BY <2>1, Constants DEF LeftInv, InTable, RetiredGone, Retired, ConnInv, None
<1>2. KeyInv /\ CloserInv /\ LeftInv /\ [Next]_vars => LeftInv'
  BY InTableStep, RetiredStep, ConnStep DEF LeftInv
<1>3. CloserInv /\ LeftInv => CloseLeavesNothing
  <2> SUFFICES ASSUME CloserInv, LeftInv, closer.pc \in {"wait", "done"},
                      \A r \in Rekeyers : rekey[r].pc = "idle"
               PROVE  openLayers = {} /\ openConns = {}
    BY DEF CloseLeavesNothing, At
  <2>1. \A k \in KIDs : layers[k] = None
    BY DEF LeftInv, RetiredGone, Retired, Pumping
  <2>2. openLayers = {}
    BY <2>1 DEF LeftInv, InTable
  <2>3. openConns = {}
    BY DEF LeftInv, ConnInv, CloserInv
  <2> QED BY <2>2, <2>3
<1> QED BY <1>1, <1>2, <1>3, KeyAlways, CloserAlways, PTL DEF Spec

-----------------------------------------------------------------------------
(* Reasons *)

(* Whoever calls closeAsync has recorded the reason, and a reason stays. *)
LEMMA ReasonStep ==
  ASSUME KeyInv, ReasonInv, [Next]_vars
  PROVE  ReasonInv'
<1> USE DEF ReasonInv, ReasonBeforeClose
<1>1. ASSUME closeErr # "nil" => closeErr' # "nil", closed' => closed, UNCHANGED closer,
             async' => async \/ closeErr' # "nil"
      PROVE  ReasonInv'
  BY <1>1
<1>2. CASE UNCHANGED vars
  BY <1>1, <1>2 DEF vars, closeVars
<1>3. CASE \/ \E r \in Rekeyers : SoftReset(r) \/ ClassifyAutoRekey(r)
           \/ \E t \in timers : RetireAfter(t) \/ RetireCancelled(t)
           \/ \E s \in Servers : ServerSoftReset(s)
           \/ WorkersLeave
  <2>1. UNCHANGED <<closed, closeErr, async, closer>>
    BY <1>3, Zenon DEF SoftReset, PerformSoftReset, Begin, InstallLayer, StartWriteLoop, StartTickLoop,
         SendSoftReset, Handshake, ExchangeKeys, InstallSlot, Activate, InstallTLSConn,
         ClosePrevious, Schedule, ClassifyAutoRekey, RetireAfter, RetireCancelled,
         ServerSoftReset, WorkersLeave, closeVars
  <2> QED BY <1>1, <2>1
<1>4. CASE Close
  <2>1. UNCHANGED <<closeErr, async>> /\ CloseBy("user")
    BY <1>4 DEF Close
  <2>2. CASE closed
    BY <1>1, <2>1, <2>2 DEF CloseBy
  <2>3. CASE ~closed
    BY <2>1, <2>3 DEF CloseBy
  <2> QED BY <2>2, <2>3
<1>5. CASE CloseAsync \/ ReportAutoRekeyFailed
  <2>1. closeErr' # "nil" /\ (async' => async)
    BY <1>5 DEF CloseAsync, ReportAutoRekeyFailed, setCloseErr
  <2> QED BY <2>1
<1>6. CASE ExitNotify \/ Shutdown \/ RetireAll \/ CloseTLSConn \/ Wait
  <2>1. UNCHANGED <<closed, closeErr, async>>
    BY <1>6 DEF ExitNotify, Shutdown, RetireAll, CloseTLSConn, Wait
  <2>2. \/ closer' = [closer EXCEPT !.kid = @ + 1]
        \/ \E pc \in {"shutdown", "retire", "conn", "wait", "done"} : closer' = [closer EXCEPT !.pc = pc]
    BY <1>6 DEF ExitNotify, Shutdown, RetireAll, CloseTLSConn, Wait
  <2>3. closer'.by = closer.by
    BY <2>2 DEF KeyInv, TypeInv, Closer
  <2> QED BY <2>1, <2>3
<1>7. CASE SessionFails \/ WorkerEnds \/ \E who \in reports : Report(who)
  <2>1. CASE SessionFails \/ (\E g \in Generations : TickFatal(g)) \/ \E who \in reports : Report(who)
    <3>1. UNCHANGED <<closed, closer>>
      BY <2>1, Zenon DEF SessionFails, ReadLoopFails, RequestRestart, WatchdogFires, TickFatal,
           ServerMessage, Report, Unreported
    <3>2. \/ UNCHANGED <<closeErr, async>>
          \/ \E err \in {"exit", "restart", "authFailed"} : setCloseErr(err)
      BY <2>1, Zenon DEF SessionFails, ReadLoopFails, RequestRestart, WatchdogFires, TickFatal,
           ServerMessage, Report, ReportsRestart
    <3>3. UNCHANGED <<closeErr, async>> \/ closeErr' # "nil"
      BY <3>2 DEF setCloseErr
    <3> QED BY <1>1, <3>1, <3>3
  <2> QED BY <1>3, <1>7, <2>1 DEF WorkerEnds
<1> QED BY <1>2, <1>3, <1>4, <1>5, <1>6, <1>7 DEF Next, CloserSteps

(* A session that anyone but its user has closed has the reason recorded   *)
(* by then, whichever workers report at once: whoever finds it closed can  *)
(* tell whether to reconnect.                                              *)
THEOREM ReasonComesFirst == Spec => []ReasonBeforeClose
<1>1. Init => ReasonInv
  BY DEF Init, ReasonInv, ReasonBeforeClose
<1>2. KeyInv /\ ReasonInv /\ [Next]_vars => ReasonInv'
  BY ReasonStep
<1>3. ReasonInv => ReasonBeforeClose
  BY DEF ReasonInv
<1> QED BY <1>1, <1>2, <1>3, KeyAlways, PTL DEF Spec

=============================================================================
