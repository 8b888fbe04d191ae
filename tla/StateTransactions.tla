-------------------------- MODULE StateTransactions -------------------------
(***************************************************************************)
(* Transactions of the controller's state connection, local or in a        *)
(* network database.  Callers nest "with" blocks and may catch what a      *)
(* statement or an inner block raises.  A network session, and with it the *)
(* advisory lock of the database, may end at any time; another controller  *)
(* may then own it.                                                        *)
(***************************************************************************)
EXTENDS Naturals, FiniteSets, FiniteSetTheorems, TLAPS

CONSTANTS
    Network,    \* the configured driver, or a local file
    Blocks,     \* bound: outermost blocks
    Writes,     \* bound: statements of a block
    DEPTH       \* bound: nesting

ASSUME BoundAssumption ==
    /\ Network \in BOOLEAN /\ Blocks \in Nat /\ Writes \in Nat /\ DEPTH \in Nat \ {0}

Block == 1..Blocks
Row == [b : Block, n : 1..Writes]

VARIABLES
    block,     \* outermost blocks begun
    depth,
    active,    \* a transaction is open
    poisoned,  \* rollback_only
    broken,    \* failed: the connection is not used again
    session,   \* "mine"; "gone" and not noticed; or "other": the driver would connect again, without the lock
    written,   \* rows whose statement returned
    failures,  \* statements of a block that raised
    staged,    \* rows in the open transaction
    durable,
    outcome    \* Block -> "none", "open", "ok", "failed" or "unknown"

vars == <<block, depth, active, poisoned, broken, session, written, failures, staged, durable, outcome>>

Init ==
    /\ block = 0 /\ depth = 0 /\ active = FALSE /\ poisoned = FALSE /\ broken = FALSE /\ session = "mine"
    /\ written = {} /\ failures = 0 /\ staged = {} /\ durable = {} /\ outcome = [b \in Block |-> "none"]

\* Mutant: a connection that failed is used again, and the driver connects again.
NoticeQuietly == UNCHANGED broken /\ session' = "other"

(* A use of a session that ended marks the connection as failed for good. *)
Notice == broken' = TRUE /\ session' = "other"

Mine(b) == {r \in written : r.b = b}
End(result) == outcome' = [outcome EXCEPT ![block] = result]

-----------------------------------------------------------------------------
(* The outermost block begins a transaction unless one is open. *)
EnterFirst ==
    /\ depth = 0 /\ block < Blocks /\ block' = block + 1 /\ failures' = 0
    /\ LET refused == ~active /\ (broken \/ session = "gone") IN
       /\ IF ~active /\ ~broken /\ session = "gone" THEN Notice ELSE UNCHANGED <<broken, session>>
       /\ IF refused THEN UNCHANGED <<depth, active>> ELSE depth' = 1 /\ active' = TRUE
       /\ outcome' = [outcome EXCEPT ![block'] = IF refused THEN "failed" ELSE "open"]
    /\ UNCHANGED <<poisoned, written, staged, durable>>

EnterNested ==
    /\ depth \in 1..(DEPTH - 1) /\ Cardinality(Mine(block)) + failures < Writes /\ depth' = depth + 1
    /\ UNCHANGED <<block, active, poisoned, broken, session, written, failures, staged, durable, outcome>>

(* A statement returns, or raises and the caller may go on. *)
Execute ==
    /\ depth > 0 /\ Cardinality(Mine(block)) + failures < Writes
    /\ LET row == [b |-> block, n |-> Cardinality(Mine(block)) + failures + 1] IN
       \/ /\ ~broken /\ session # "gone" /\ staged' = staged \cup {row} /\ written' = written \cup {row}
          /\ UNCHANGED <<poisoned, broken, session, failures>>
       \/ /\ poisoned' = active /\ failures' = failures + 1
          /\ IF session = "gone" THEN Notice ELSE UNCHANGED <<broken, session>>
          /\ UNCHANGED <<staged, written>>
    /\ UNCHANGED <<block, depth, active, durable, outcome>>

(* An inner block ends; what it raises may be caught outside. *)
ExitNested ==
    /\ depth > 1 /\ depth' = depth - 1
    /\ \/ UNCHANGED <<poisoned, failures>>
       \/ poisoned' = TRUE /\ failures' = failures + 1
    /\ UNCHANGED <<block, active, broken, session, written, staged, durable, outcome>>

\* Mutant: a rollback only forgets that something failed.
RollbackFlag == poisoned' = FALSE /\ UNCHANGED <<active, broken, session, staged>>

Rollback ==
    CASE broken -> UNCHANGED <<active, poisoned, broken, session, staged>>
      [] ~broken /\ session = "gone" -> Notice /\ UNCHANGED <<active, poisoned, staged>>
      [] OTHER -> active' = FALSE /\ poisoned' = FALSE /\ staged' = {} /\ UNCHANGED <<broken, session>>

(* The outermost block raises. *)
ExitRaise ==
    /\ depth = 1 /\ depth' = 0 /\ Rollback /\ End("failed")
    /\ UNCHANGED <<block, written, failures, durable>>

(* The outermost block ends.  A commit whose answer is lost may have been   *)
(* applied.                                                                 *)
Commit ==
    /\ depth = 1 /\ depth' = 0
    /\ \/ poisoned /\ Rollback /\ End("failed") /\ UNCHANGED durable
       \/ ~poisoned /\ broken /\ End("failed") /\ UNCHANGED <<active, poisoned, broken, session, staged, durable>>
       \/ /\ ~poisoned /\ ~broken /\ session = "gone" /\ Notice /\ End("unknown")
          /\ UNCHANGED <<active, poisoned, staged, durable>>
       \/ /\ ~poisoned /\ ~broken /\ session # "gone" /\ durable' = durable \cup staged /\ staged' = {}
          /\ active' = FALSE /\ End("ok") /\ UNCHANGED <<poisoned, broken, session>>
       \/ /\ Network /\ ~poisoned /\ ~broken /\ session # "gone" /\ durable' \in {durable, durable \cup staged}
          /\ staged' = {} /\ Notice /\ End("unknown") /\ UNCHANGED <<active, poisoned>>
    /\ UNCHANGED <<block, written, failures>>

-----------------------------------------------------------------------------
(* The session ends, and with it its transaction and its advisory lock. *)
Disconnect ==
    /\ Network /\ session = "mine" /\ session' = "gone" /\ staged' = {}
    /\ UNCHANGED <<block, depth, active, poisoned, broken, written, failures, durable, outcome>>

Next ==
    \/ EnterFirst \/ EnterNested \/ Execute \/ ExitNested \/ ExitRaise \/ Commit \/ Disconnect

Spec == Init /\ [][Next]_vars

-----------------------------------------------------------------------------
TypeOK ==
    /\ block \in 0..Blocks /\ depth \in 0..DEPTH /\ active \in BOOLEAN /\ poisoned \in BOOLEAN /\ broken \in BOOLEAN
    /\ session \in {"mine", "gone", "other"} /\ failures \in 0..(Writes + DEPTH)
    /\ outcome \in [Block -> {"none", "open", "ok", "failed", "unknown"}]
    /\ written \subseteq Row /\ staged \subseteq written /\ durable \subseteq written

(* A block that ended is in the database whole or not at all, exactly as    *)
(* its caller was told, however its statements and inner blocks failed.     *)
AllOrNothing ==
    \A b \in Block :
        LET kept == {r \in durable : r.b = b} IN
        /\ outcome[b] = "ok" => kept = Mine(b)
        /\ outcome[b] = "failed" => kept = {}
        /\ outcome[b] = "unknown" => kept \in {{}, Mine(b)}

(* A block in which a statement or an inner block raised never reaches the *)
(* database, also when its caller caught that and went on.                  *)
RaisedNothing == block > 0 /\ failures > 0 => {r \in durable : r.b = block} = {}

(* Nothing is committed once the session that held the database's advisory *)
(* lock ended: another controller may own the database then.               *)
OwnedWrites == [][durable' # durable => session = "mine"]_vars

-----------------------------------------------------------------------------
(* Proofs, for every number of blocks, statements and levels of nesting *)

Kept(b) == {r \in durable : r.b = b}

(* The block in hand: its transaction is open and holds exactly its rows    *)
(* while the session is ours, nothing of it is durable, and what raised in  *)
(* it is remembered.  Between blocks our session holds nothing.             *)
InHand ==
    /\ depth > 0 => block > 0 /\ active /\ (session = "mine" => staged = Mine(block))
    /\ depth > 0 /\ failures > 0 => poisoned
    /\ depth = 0 /\ session = "mine" => staged = {} /\ ~active /\ ~poisoned
    /\ depth = 0 /\ session = "gone" => ~active
    /\ session # "mine" => staged = {}
    /\ session = "other" <=> broken

(* The blocks so far: only the one in hand is open, later ones are empty. *)
Told ==
    /\ \A r \in written : r.b <= block
    /\ \A b \in Block : /\ outcome[b] = "none" <=> b > block
                        /\ outcome[b] = "open" <=> b = block /\ depth > 0
                        /\ outcome[b] \in {"none", "open"} => Kept(b) = {}

Inv == /\ TypeOK /\ IsFiniteSet(written) /\ failures + depth <= Writes + DEPTH
       /\ InHand /\ Told /\ AllOrNothing /\ RaisedNothing

(* The empty database satisfies the invariant. *)
LEMMA InitInv == Init => Inv
<1> SUFFICES ASSUME Init PROVE Inv
    OBVIOUS
<1>1. TypeOK
  <2>1. block \in 0..Blocks /\ depth \in 0..DEPTH /\ failures \in 0..(Writes + DEPTH)
    BY BoundAssumption DEF Init
  <2>2. active \in BOOLEAN /\ poisoned \in BOOLEAN /\ broken \in BOOLEAN
    BY DEF Init
  <2>3. /\ session \in {"mine", "gone", "other"} /\ outcome \in [Block -> {"none", "open", "ok", "failed", "unknown"}]
        /\ written \subseteq Row /\ staged \subseteq written /\ durable \subseteq written
    BY DEF Init
  <2> QED BY <2>1, <2>2, <2>3 DEF TypeOK
<1>1a. failures + depth <= Writes + DEPTH
    BY BoundAssumption DEF Init
<1>2. IsFiniteSet(written)
    BY FS_EmptySet DEF Init
<1>3. InHand /\ Told /\ AllOrNothing /\ RaisedNothing
    BY BoundAssumption DEF Init, InHand, Told, AllOrNothing, RaisedNothing, Kept, Mine, Block
<1> QED BY <1>1, <1>1a, <1>2, <1>3 DEF Inv

(* The number of statements of the block in hand is a number. *)
LEMMA Counted ==
    ASSUME Inv
    PROVE  Cardinality(Mine(block)) \in Nat
<1>1. IsFiniteSet(Mine(block))
    BY FS_Subset, Mine(block) \in SUBSET written DEF Inv, Mine
<1> QED BY <1>1, FS_CardinalityType

(* A block begins, or is refused. *)
LEMMA EnterFirstStep ==
    ASSUME Inv, EnterFirst
    PROVE  Inv'
<1> DEFINE refused == ~active /\ (broken \/ session = "gone")
<1>1. /\ depth = 0 /\ block < Blocks /\ block' = block + 1 /\ failures' = 0
      /\ UNCHANGED <<poisoned, written, staged, durable>>
      /\ IF ~active /\ ~broken /\ session = "gone" THEN Notice ELSE UNCHANGED <<broken, session>>
      /\ IF refused THEN UNCHANGED <<depth, active>> ELSE depth' = 1 /\ active' = TRUE
      /\ outcome' = [outcome EXCEPT ![block'] = IF refused THEN "failed" ELSE "open"]
    BY DEF EnterFirst
<1>2. /\ block \in Nat /\ block' \in Block /\ block' \in 0..Blocks /\ block' > 0
      /\ outcome \in [Block -> {"none", "open", "ok", "failed", "unknown"}]
    BY <1>1, BoundAssumption DEF Inv, TypeOK, Block
<1>3. TypeOK'
  <2>1. (block \in 0..Blocks /\ depth \in 0..DEPTH /\ failures \in 0..(Writes + DEPTH))'
    BY <1>1, <1>2, BoundAssumption DEF Inv, TypeOK
  <2>2. (active \in BOOLEAN /\ poisoned \in BOOLEAN /\ broken \in BOOLEAN /\ session \in {"mine", "gone", "other"})'
    BY <1>1 DEF Inv, TypeOK, Notice
  <2>3. (outcome \in [Block -> {"none", "open", "ok", "failed", "unknown"}])'
    BY <1>1, <1>2
  <2>4. (written \subseteq Row /\ staged \subseteq written /\ durable \subseteq written)'
    BY <1>1 DEF Inv, TypeOK
  <2> QED BY <2>1, <2>2, <2>3, <2>4 DEF TypeOK
<1>3a. (failures + depth <= Writes + DEPTH)'
    BY <1>1, BoundAssumption DEF Inv, TypeOK
<1>4. Mine(block') = {} /\ Kept(block') = {} /\ outcome[block'] = "none"
    BY <1>1, <1>2 DEF Inv, Told, TypeOK, Mine, Kept, Row, Block
<1>5. \A b \in Block : outcome'[b] = IF b = block' THEN (IF refused THEN "failed" ELSE "open") ELSE outcome[b]
    BY <1>1, <1>2
<1>6. (\A b \in Block : Kept(b)' = Kept(b)) /\ (\A b \in Block : Mine(b)' = Mine(b)) /\ Mine(block)' = Mine(block')
    BY <1>1 DEF Kept, Mine
<1>7. InHand'
    BY <1>1, <1>2, <1>4, <1>6 DEF Inv, InHand, TypeOK, Notice
<1>8. Told'
    BY <1>1, <1>2, <1>4, <1>5, <1>6 DEF Inv, Told, TypeOK, Row, Block
<1>9. AllOrNothing'
    BY <1>4, <1>5, <1>6 DEF Inv, AllOrNothing, Kept
<1>10. RaisedNothing'
    BY <1>1 DEF RaisedNothing
<1> QED BY <1>1, <1>3, <1>3a, <1>7, <1>8, <1>9, <1>10 DEF Inv
(* The block in hand is open, and none of its rows is durable. *)
LEMMA OpenBlock ==
    ASSUME Inv, depth > 0
    PROVE  block \in Block /\ outcome[block] = "open" /\ Kept(block) = {}
<1>1. block \in Block
    BY BoundAssumption DEF Inv, TypeOK, InHand, Block
<1> QED BY <1>1 DEF Inv, Told

(* An inner block begins. *)
LEMMA EnterNestedStep ==
    ASSUME Inv, EnterNested
    PROVE  Inv'
<1>1. /\ depth \in 1..(DEPTH - 1) /\ Cardinality(Mine(block)) + failures < Writes /\ depth' = depth + 1
      /\ UNCHANGED <<block, active, poisoned, broken, session, written, failures, staged, durable, outcome>>
    BY DEF EnterNested
<1>2. Cardinality(Mine(block)) \in Nat
    BY Counted
<1>3. /\ depth \in Nat /\ depth > 0 /\ depth' \in 0..DEPTH /\ depth' > 0 /\ (failures + depth <= Writes + DEPTH)'
    BY <1>1, <1>2, BoundAssumption DEF Inv, TypeOK
<1>4. TypeOK' /\ IsFiniteSet(written)'
    BY <1>1, <1>3 DEF Inv, TypeOK
<1>5. (\A b : Mine(b)' = Mine(b) /\ Kept(b)' = Kept(b)) /\ Mine(block)' = Mine(block)
    BY <1>1 DEF Mine, Kept
<1>6. InHand'
    BY <1>1, <1>3, <1>5 DEF Inv, InHand
<1>7. Told'
    BY <1>1, <1>3, <1>5 DEF Inv, Told
<1>8. AllOrNothing' /\ RaisedNothing'
    BY <1>1, <1>5 DEF Inv, AllOrNothing, RaisedNothing, Kept
<1> QED BY <1>3, <1>4, <1>6, <1>7, <1>8 DEF Inv

(* A statement of the block in hand returns, or raises. *)
LEMMA ExecuteStep ==
    ASSUME Inv, Execute
    PROVE  Inv'
<1> DEFINE row == [b |-> block, n |-> Cardinality(Mine(block)) + failures + 1]
<1>1. /\ depth > 0 /\ Cardinality(Mine(block)) + failures < Writes
      /\ UNCHANGED <<block, depth, active, durable, outcome>>
      /\ \/ /\ ~broken /\ session # "gone" /\ staged' = staged \cup {row} /\ written' = written \cup {row}
            /\ UNCHANGED <<poisoned, broken, session, failures>>
         \/ /\ poisoned' = active /\ failures' = failures + 1
            /\ IF session = "gone" THEN Notice ELSE UNCHANGED <<broken, session>>
            /\ UNCHANGED <<staged, written>>
    BY DEF Execute
<1>2. Cardinality(Mine(block)) \in Nat
    BY Counted
<1>3. block \in Block /\ outcome[block] = "open" /\ Kept(block) = {} /\ active
    BY <1>1, OpenBlock DEF Inv, InHand
<1>4. \A b : Kept(b)' = Kept(b)
    BY <1>1 DEF Kept
<1>5. RaisedNothing'
    BY <1>1, <1>3 DEF RaisedNothing, Kept
<1>6. CASE ~broken /\ session # "gone" /\ staged' = staged \cup {row} /\ written' = written \cup {row}
           /\ UNCHANGED <<poisoned, broken, session, failures>>
  <2>1. row \in Row /\ row.b = block
    <3>1. Cardinality(Mine(block)) + failures + 1 \in 1..Writes
      BY <1>1, <1>2, BoundAssumption DEF Inv, TypeOK
    <3> QED BY <1>3, <3>1 DEF Row
  <2> HIDE DEF row
  <2>2. TypeOK'
    <3>1. (written \subseteq Row /\ staged \subseteq written /\ durable \subseteq written)'
      BY <1>1, <1>6, <2>1 DEF Inv, TypeOK
    <3> QED BY <1>1, <1>6, <3>1 DEF Inv, TypeOK
  <2>3. IsFiniteSet(written)'
    BY <1>6, FS_AddElement DEF Inv
  <2>4. session = "mine" /\ staged = Mine(block)
    BY <1>1, <1>6 DEF Inv, TypeOK, InHand
  <2>5. Mine(block)' = Mine(block) \cup {row} /\ (\A b : b # block => Mine(b)' = Mine(b))
    BY <1>1, <1>6, <2>1 DEF Mine
  <2>6. InHand'
    BY <1>1, <1>6, <2>4, <2>5 DEF Inv, InHand
  <2>7. Told'
    BY <1>1, <1>3, <1>4, <1>6, <2>1, BoundAssumption DEF Inv, Told, TypeOK, Block
  <2>8. AllOrNothing'
    BY <1>1, <1>3, <1>4, <2>5 DEF Inv, AllOrNothing, Kept
  <2>9. (failures + depth <= Writes + DEPTH)'
    BY <1>1, <1>6 DEF Inv
  <2> QED BY <1>5, <2>2, <2>3, <2>6, <2>7, <2>8, <2>9 DEF Inv
<1>7. CASE poisoned' = active /\ failures' = failures + 1
           /\ (IF session = "gone" THEN Notice ELSE UNCHANGED <<broken, session>>)
           /\ UNCHANGED <<staged, written>>
  <2>1. failures \in Nat /\ failures' \in 0..(Writes + DEPTH) /\ (failures + depth <= Writes + DEPTH)'
    BY <1>1, <1>2, <1>7, BoundAssumption DEF Inv, TypeOK
  <2>2. poisoned' = TRUE
    BY <1>3, <1>7 DEF Inv, TypeOK
  <2>3. TypeOK' /\ IsFiniteSet(written)'
    BY <1>1, <1>7, <2>1, <2>2 DEF Inv, TypeOK, Notice
  <2>4. (\A b : Mine(b)' = Mine(b)) /\ Mine(block)' = Mine(block)
    BY <1>1, <1>7 DEF Mine
  <2>5. InHand'
    BY <1>1, <1>7, <2>2, <2>4 DEF Inv, InHand, Notice
  <2>6. Told' /\ AllOrNothing'
    BY <1>1, <1>4, <1>7, <2>4 DEF Inv, Told, AllOrNothing, Kept
  <2> QED BY <1>5, <2>1, <2>3, <2>5, <2>6 DEF Inv
<1> HIDE DEF row
<1> QED BY <1>1, <1>6, <1>7

(* An inner block ends, or raises and is caught. *)
LEMMA ExitNestedStep ==
    ASSUME Inv, ExitNested
    PROVE  Inv'
<1>1. /\ depth > 1 /\ depth' = depth - 1
      /\ UNCHANGED <<block, active, broken, session, written, staged, durable, outcome>>
      /\ (UNCHANGED <<poisoned, failures>> \/ (poisoned' = TRUE /\ failures' = failures + 1))
    BY DEF ExitNested
<1>2. /\ depth > 0 /\ depth' > 0 /\ depth' \in 0..DEPTH /\ failures' \in 0..(Writes + DEPTH)
      /\ (failures + depth <= Writes + DEPTH)'
    BY <1>1, BoundAssumption DEF Inv, TypeOK
<1>3. block \in Block /\ outcome[block] = "open" /\ Kept(block) = {}
    BY <1>2, OpenBlock
<1>4. TypeOK' /\ IsFiniteSet(written)'
    BY <1>1, <1>2 DEF Inv, TypeOK
<1>5. (\A b : Mine(b)' = Mine(b) /\ Kept(b)' = Kept(b)) /\ Mine(block)' = Mine(block)
    BY <1>1 DEF Mine, Kept
<1>6. InHand'
    BY <1>1, <1>2, <1>5 DEF Inv, InHand
<1>7. Told' /\ AllOrNothing'
    BY <1>1, <1>2, <1>5 DEF Inv, Told, AllOrNothing, Kept
<1>8. RaisedNothing'
    BY <1>1, <1>3 DEF RaisedNothing, Kept
<1> QED BY <1>2, <1>4, <1>6, <1>7, <1>8 DEF Inv

(* What ends the block in hand preserves the invariant, if what it tells    *)
(* the caller is what it did to the database, and the connection is left    *)
(* clean or never used again.                                               *)
LEMMA EndStep ==
    ASSUME Inv, depth = 1, depth' = 0, UNCHANGED <<block, written, failures>>,
           NEW result \in {"ok", "failed", "unknown"}, End(result),
           active' \in BOOLEAN, poisoned' \in BOOLEAN, staged' = {},
           \/ ~broken' /\ session' = "mine" /\ ~active' /\ ~poisoned'
           \/ broken' = TRUE /\ session' = "other",
           broken' \in BOOLEAN,
           durable' \in {durable, durable \cup Mine(block)},
           result = "ok" => durable' = durable \cup Mine(block),
           result = "failed" => durable' = durable,
           failures > 0 => durable' = durable
    PROVE  Inv'
<1>1. depth > 0 /\ block \in Block /\ outcome[block] = "open" /\ Kept(block) = {}
    BY OpenBlock
<1>2. outcome \in [Block -> {"none", "open", "ok", "failed", "unknown"}] /\ outcome' = [outcome EXCEPT ![block] = result]
    BY DEF Inv, TypeOK, End
<1>3. \A b \in Block : outcome'[b] = IF b = block THEN result ELSE outcome[b]
    BY <1>1, <1>2
<1>4. (\A b : Mine(b)' = Mine(b)) /\ Mine(block)' = Mine(block)
    BY DEF Mine
<1>5. (\A b : b # block => Kept(b)' = Kept(b)) /\ Kept(block)' \in {{}, Mine(block)}
    BY <1>1 DEF Kept, Mine
<1>6. /\ result = "ok" => Kept(block)' = Mine(block)
      /\ result = "failed" => Kept(block)' = {}
      /\ failures > 0 => Kept(block)' = {}
    BY <1>1 DEF Kept, Mine
<1>7. TypeOK'
  <2>1. (block \in 0..Blocks /\ depth \in 0..DEPTH /\ failures \in 0..(Writes + DEPTH))'
    BY BoundAssumption DEF Inv, TypeOK
  <2>2. (active \in BOOLEAN /\ poisoned \in BOOLEAN /\ broken \in BOOLEAN /\ session \in {"mine", "gone", "other"})'
    OBVIOUS
  <2>3. (outcome \in [Block -> {"none", "open", "ok", "failed", "unknown"}])'
    BY <1>1, <1>2
  <2>4. (written \subseteq Row /\ staged \subseteq written /\ durable \subseteq written)'
    BY DEF Inv, TypeOK, Mine
  <2> QED BY <2>1, <2>2, <2>3, <2>4 DEF TypeOK
<1>8. IsFiniteSet(written)' /\ (failures + depth <= Writes + DEPTH)'
    BY BoundAssumption DEF Inv, TypeOK
<1>9. InHand'
    BY DEF InHand
<1>10. Told'
  <2>1. (\A r \in written : r.b <= block)'
    BY DEF Inv, Told
  <2>2. ASSUME NEW b \in Block
        PROVE  (/\ outcome[b] = "none" <=> b > block
                /\ outcome[b] = "open" <=> b = block /\ depth > 0
                /\ outcome[b] \in {"none", "open"} => Kept(b) = {})'
    BY <1>1, <1>3, <1>5 DEF Inv, Told
  <2> QED BY <2>1, <2>2 DEF Told
<1>11. AllOrNothing'
  <2>1. ASSUME NEW b \in Block
        PROVE  (/\ outcome[b] = "ok" => Kept(b) = Mine(b)
                /\ outcome[b] = "failed" => Kept(b) = {}
                /\ outcome[b] = "unknown" => Kept(b) \in {{}, Mine(b)})'
    BY <1>1, <1>3, <1>4, <1>5, <1>6 DEF Inv, AllOrNothing, Kept
  <2> QED BY <2>1 DEF AllOrNothing, Kept
<1>12. RaisedNothing'
    BY <1>6 DEF RaisedNothing, Kept
<1> QED BY <1>7, <1>8, <1>9, <1>10, <1>11, <1>12 DEF Inv

(* A rollback leaves the connection clean, or marked as failed. *)
LEMMA RollbackStep ==
    ASSUME Inv, depth = 1, Rollback
    PROVE  /\ active' \in BOOLEAN /\ poisoned' \in BOOLEAN /\ broken' \in BOOLEAN /\ staged' = {}
           /\ \/ ~broken' /\ session' = "mine" /\ ~active' /\ ~poisoned'
              \/ broken' = TRUE /\ session' = "other"
<1>1. CASE broken
    BY <1>1 DEF Inv, TypeOK, InHand, Rollback
<1>2. CASE ~broken /\ session = "gone"
    BY <1>2 DEF Inv, TypeOK, InHand, Rollback, Notice
<1>3. CASE ~broken /\ session # "gone"
    BY <1>3 DEF Inv, TypeOK, InHand, Rollback
<1> QED BY <1>1, <1>2, <1>3 DEF Inv, TypeOK

(* The outermost block raises. *)
LEMMA ExitRaiseStep ==
    ASSUME Inv, ExitRaise
    PROVE  Inv'
<1>1. depth = 1 /\ depth' = 0 /\ Rollback /\ End("failed") /\ UNCHANGED <<block, written, failures, durable>>
    BY DEF ExitRaise
<1> QED BY <1>1, RollbackStep, EndStep

(* The outermost block ends: only a whole block of the session that holds  *)
(* the lock becomes durable.                                                *)
LEMMA CommitStep ==
    ASSUME Inv, Commit
    PROVE  Inv' /\ (durable' # durable => session = "mine")
<1>1. depth = 1 /\ depth' = 0 /\ UNCHANGED <<block, written, failures>>
    BY DEF Commit
<1>2. /\ active \in BOOLEAN /\ poisoned \in BOOLEAN /\ broken \in BOOLEAN /\ session \in {"mine", "gone", "other"}
      /\ (session = "mine" => staged = Mine(block)) /\ (session # "mine" => staged = {})
      /\ (session = "other" <=> broken) /\ (failures > 0 => poisoned)
    BY <1>1 DEF Inv, TypeOK, InHand
<1>3. CASE poisoned /\ Rollback /\ End("failed") /\ UNCHANGED durable
    BY <1>1, <1>3, RollbackStep, EndStep
<1>4. CASE ~poisoned /\ broken /\ End("failed") /\ UNCHANGED <<active, poisoned, broken, session, staged, durable>>
    BY <1>1, <1>2, <1>4, EndStep
<1>5. CASE ~poisoned /\ ~broken /\ session = "gone" /\ Notice /\ End("unknown")
           /\ UNCHANGED <<active, poisoned, staged, durable>>
    BY <1>1, <1>2, <1>5, EndStep DEF Notice
<1>6. CASE ~poisoned /\ ~broken /\ session # "gone" /\ durable' = durable \cup staged /\ staged' = {}
           /\ active' = FALSE /\ End("ok") /\ UNCHANGED <<poisoned, broken, session>>
    BY <1>1, <1>2, <1>6, EndStep
<1>7. CASE ~poisoned /\ ~broken /\ session # "gone" /\ durable' \in {durable, durable \cup staged}
           /\ staged' = {} /\ Notice /\ End("unknown") /\ UNCHANGED <<active, poisoned>>
    BY <1>1, <1>2, <1>7, EndStep DEF Notice
<1> QED BY <1>3, <1>4, <1>5, <1>6, <1>7 DEF Commit

(* The session ends, and what it had staged is gone. *)
LEMMA DisconnectStep ==
    ASSUME Inv, Disconnect
    PROVE  Inv'
<1>1. /\ session = "mine" /\ session' = "gone" /\ staged' = {}
      /\ UNCHANGED <<block, depth, active, poisoned, broken, written, failures, durable, outcome>>
    BY DEF Disconnect
<1>2. TypeOK' /\ IsFiniteSet(written)' /\ (failures + depth <= Writes + DEPTH)'
    BY <1>1 DEF Inv, TypeOK
<1>3. InHand'
    BY <1>1 DEF Inv, InHand
<1>4. (\A b : Mine(b)' = Mine(b) /\ Kept(b)' = Kept(b))
    BY <1>1 DEF Mine, Kept
<1>5. Told' /\ AllOrNothing' /\ RaisedNothing'
    BY <1>1, <1>4 DEF Inv, Told, AllOrNothing, RaisedNothing, Kept
<1> QED BY <1>2, <1>3, <1>5 DEF Inv

(* A step that changes nothing preserves the invariant. *)
LEMMA StutterStep ==
    ASSUME Inv, UNCHANGED vars
    PROVE  Inv'
BY DEF Inv, vars, TypeOK, InHand, Told, AllOrNothing, RaisedNothing, Kept, Mine

(* The invariant holds in every reachable state. *)
LEMMA Invariant == Spec => []Inv
<1>1. Inv /\ [Next]_vars => Inv'
    BY EnterFirstStep, EnterNestedStep, ExecuteStep, ExitNestedStep, ExitRaiseStep, CommitStep, DisconnectStep,
       StutterStep DEF Next
<1> QED BY InitInv, <1>1, PTL DEF Spec

(* What a caller is told of a block is what the database holds of it,       *)
(* however the nested blocks of AtomicConnection and statements in them     *)
(* failed and wherever the session was lost.                                *)
THEOREM BlocksWhole == Spec => []AllOrNothing
<1>1. Inv => AllOrNothing
    BY DEF Inv
<1> QED BY Invariant, <1>1, PTL

(* A block with a caught failure is rolled back by the rollback_only mark. *)
THEOREM CaughtFailuresKeptOut == Spec => []RaisedNothing
<1>1. Inv => RaisedNothing
    BY DEF Inv
<1> QED BY Invariant, <1>1, PTL

(* Only the session that holds the advisory lock writes: a connection that  *)
(* was lost is never used again by this controller.                         *)
THEOREM LockHolderWrites == Spec => OwnedWrites
<1>1. ASSUME Inv, [Next]_vars
      PROVE  [durable' # durable => session = "mine"]_vars
  <2>1. CASE Commit
    BY <1>1, <2>1, CommitStep
  <2>2. CASE EnterFirst \/ EnterNested \/ Execute \/ ExitNested \/ ExitRaise \/ Disconnect \/ UNCHANGED vars
    BY <2>2 DEF EnterFirst, EnterNested, Execute, ExitNested, ExitRaise, Disconnect, vars
  <2> QED BY <1>1, <2>1, <2>2 DEF Next
<1> QED BY Invariant, <1>1, PTL DEF Spec, OwnedWrites
=============================================================================
