------------------------ MODULE MinerSchedulerProofs ------------------------
(***************************************************************************)
(* Proofs about MinerScheduler, for any callers, contracts, percentages    *)
(* and number of parts.                                                    *)
(***************************************************************************)
EXTENDS MinerScheduler, AllocProofs

USE WholeAssumption, DestAssumption, SharesAssumption

\* A split of the contracts' shares may be read as one that could also hold
\* the default destination.
LEMMA WithDefault ==
  ASSUME NEW s \in Seq(ShareType)
  PROVE  /\ s \in Splits(Contracts)
         /\ s \in Splits(Contracts \cup {Default})
<1> DEFINE R == [id : Contracts \cup {Default}, pct : Int]
<1>1. Len(s) \in Nat /\ s \in [1..Len(s) -> ShareType]
  OBVIOUS
<1>2. ShareType \subseteq R
  BY DEF ShareType
<1> HIDE DEF R
<1>3. s \in [1..Len(s) -> R]
  BY <1>1, <1>2
<1>4. s \in Seq(R)
  BY <1>1, <1>3
<1> QED
  BY <1>4 DEF R, Splits, ShareType

\* A cycle is not empty, divides the whole miner, and is the default
\* destination alone only if no contract had a share.
LEMMA CycleShape ==
  ASSUME split \in Seq(ShareType), AllPositive(split)
  PROVE  /\ getDest \in Seq([id : Contracts \cup {Default}, pct : Int])
         /\ 1 \in DOMAIN getDest
         /\ GetAllocated(getDest) = Whole
         /\ GetAllocated(split) <= Whole => AllPositive(getDest)
         /\ getDest = <<Share(Default, Whole)>> => split = <<>>
<1> DEFINE I == Contracts \cup {Default}
<1>1. split \in Splits(I)
  BY WithDefault
<1>2. /\ getDest \in Splits(I)
      /\ GetAllocated(getDest) = Whole
      /\ GetAllocated(split) <= Whole => AllPositive(getDest)
  <2> HIDE DEF I
  <2> QED BY <1>1, RemainingFillsWhole DEF getDest, I
<1>3. getDest # <<>>
  BY <1>2, TotalEmpty
<1>4. 1 \in DOMAIN getDest
  BY <1>2, <1>3 DEF Splits
<1>5. ASSUME getDest = <<Share(Default, Whole)>> PROVE split = <<>>
  <2>1. CASE getDest = split
    <3>0. split[1] \in ShareType
      BY <1>4, <2>1
    <3>1. split[1].id \in Contracts
      BY <3>0 DEF ShareType
    <3>2. split[1].id = Default
      BY <1>5, <2>1 DEF Share
    <3> QED BY <3>1, <3>2
  <2>2. CASE getDest # split
    <3> DEFINE r == GetUnallocated(split)
    <3>1. getDest = <<Share(Default, r)>> \o split
      BY <2>2 DEF getDest, AllocateRemaining, insert
    <3> HIDE DEF r
    <3>2. Len(getDest) = 1 + Len(split)
      BY <3>1
    <3> QED BY <1>5, <3>2
  <2> QED BY <2>1, <2>2
<1> QED
  BY <1>2, <1>4, <1>5 DEF Splits

\* The changes a method makes to the split.
LEMMA SplitChanges ==
  ASSUME NEW s \in Seq(ShareType)
  PROVE  /\ GetAllocated(s) \in Int
         /\ DOMAIN s = 1..Len(s) /\ Len(s) \in Nat
         /\ \A id \in Contracts, p \in Int :
               /\ insert(s, id, p) \in Seq(ShareType)
               /\ GetAllocated(insert(s, id, p)) = GetAllocated(s) + p
         /\ \A j \in DOMAIN s, x \in ShareType :
               /\ [s EXCEPT ![j] = x] \in Seq(ShareType)
               /\ GetAllocated([s EXCEPT ![j] = x]) = GetAllocated(s) - s[j].pct + x.pct
         /\ \A j \in DOMAIN s :
               /\ RemoveAt(s, j) \in Seq(ShareType)
               /\ Len(RemoveAt(s, j)) = Len(s) - 1
               /\ \A i \in 1..(Len(s) - 1) :
                     RemoveAt(s, j)[i] = IF i < j THEN s[i] ELSE s[i + 1]
               /\ GetAllocated(RemoveAt(s, j)) = GetAllocated(s) - s[j].pct
<1>1. Seq(ShareType) = Splits(Contracts) /\ ShareType = [id : Contracts, pct : Int]
  BY DEF Splits, ShareType
<1>2. DOMAIN s = 1..Len(s) /\ Len(s) \in Nat
  OBVIOUS
<1>3. GetAllocated(s) \in Int
  BY <1>1, TotalInt
<1>4. ASSUME NEW id \in Contracts, NEW p \in Int
      PROVE  /\ insert(s, id, p) \in Seq(ShareType)
             /\ GetAllocated(insert(s, id, p)) = GetAllocated(s) + p
  <2>1. s \in Splits(Contracts)
    BY <1>1
  <2>2. /\ insert(s, id, p) \in Splits(Contracts)
        /\ GetAllocated(insert(s, id, p)) = GetAllocated(s) + p
    BY <2>1, TotalInsert
  <2> QED BY <1>1, <2>2
<1>5. ASSUME NEW j \in DOMAIN s, NEW x \in ShareType
      PROVE  /\ [s EXCEPT ![j] = x] \in Seq(ShareType)
             /\ GetAllocated([s EXCEPT ![j] = x]) = GetAllocated(s) - s[j].pct + x.pct
  BY <1>1, TotalReplace, SMTT(30)
<1>6. ASSUME NEW j \in DOMAIN s
      PROVE  /\ RemoveAt(s, j) \in Seq(ShareType)
             /\ Len(RemoveAt(s, j)) = Len(s) - 1
             /\ \A i \in 1..(Len(s) - 1) :
                   RemoveAt(s, j)[i] = IF i < j THEN s[i] ELSE s[i + 1]
             /\ GetAllocated(RemoveAt(s, j)) = GetAllocated(s) - s[j].pct
  BY <1>1, TotalRemove
<1> QED
  BY <1>2, <1>3, <1>4, <1>5, <1>6

\* The record of a method's arguments and locals, and its fields.
LEMMA OpTypes ==
  /\ NoOp \in OpType
  /\ \A kind \in Kinds, id \in Contracts \cup {Default}, pct \in Int :
        Op(kind, id, pct) \in OpType
  /\ \A o \in OpType, b \in BOOLEAN : [o EXCEPT !.seen = b] \in OpType
  /\ \A o \in OpType, v \in Seq(ShareType) : [o EXCEPT !.view = v] \in OpType
  /\ \A o \in OpType, b \in BOOLEAN : [o EXCEPT !.shared = b] \in OpType
  /\ \A o \in OpType, n \in Nat : [o EXCEPT !.idx = n] \in OpType
<1> DEFINE V == Seq(ShareType)
<1>1. <<>> \in V
  OBVIOUS
<1> HIDE DEF V
<1>2. ASSUME NEW kind \in Kinds, NEW id \in Contracts \cup {Default}, NEW pct \in Int
      PROVE Op(kind, id, pct) \in OpType
  BY <1>1 DEF Op, OpType, V
<1>3. NoOp \in OpType
  BY <1>2 DEF NoOp, Kinds
<1>4. ASSUME NEW o \in OpType, NEW b \in BOOLEAN PROVE [o EXCEPT !.seen = b] \in OpType
  BY DEF OpType
<1>5. ASSUME NEW o \in OpType, NEW v \in V PROVE [o EXCEPT !.view = v] \in OpType
  BY DEF OpType, V
<1>6. ASSUME NEW o \in OpType, NEW b \in BOOLEAN PROVE [o EXCEPT !.shared = b] \in OpType
  BY DEF OpType
<1>7. ASSUME NEW o \in OpType, NEW n \in Nat PROVE [o EXCEPT !.idx = n] \in OpType
  BY DEF OpType
<1> QED
  BY <1>2, <1>3, <1>4, <1>5, <1>6, <1>7 DEF V

\* So do the records after a write to the array, or a move to a new one.
LEMMA WrittenTypes ==
  ASSUME TypeOK
  PROVE  /\ \A s \in Seq(ShareType) : Written(s) \in [Callers -> OpType]
         /\ Moved \in [Callers -> OpType]
<1> DEFINE V == Seq(ShareType)
<1>1. ASSUME NEW s \in V, NEW v \in V PROVE s \o SubSeq(v, Len(s) + 1, Len(v)) \in V
  OBVIOUS
<1> HIDE DEF V
<1>2. ASSUME NEW s \in V, NEW u \in Callers PROVE Written(s)[u] \in OpType
  <2>1. op[u] \in OpType /\ op[u].view \in V
    BY DEF TypeOK, OpType, V
  <2>2. s \o SubSeq(op[u].view, Len(s) + 1, Len(op[u].view)) \in V
    BY <1>1, <2>1
  <2>3. Written(s)[u] = IF op[u].shared
                        THEN [op[u] EXCEPT !.view = s \o SubSeq(@, Len(s) + 1, Len(@))]
                        ELSE op[u]
    BY DEF Written
  <2> QED BY <2>1, <2>2, <2>3, OpTypes DEF V
<1>3. ASSUME NEW s \in V PROVE Written(s) \in [Callers -> OpType]
  BY <1>2 DEF Written
<1>4. Moved \in [Callers -> OpType]
  BY OpTypes DEF Moved, TypeOK
<1> QED
  BY <1>3, <1>4 DEF V

LEMMA TypeInit == Init => TypeOK
<1> SUFFICES ASSUME Init PROVE TypeOK
  OBVIOUS
<1>1. op \in [Callers -> OpType]
  BY OpTypes DEF Init
<1>2. split \in Seq(ShareType) /\ cycle \in Seq([id : Contracts \cup {Default}, pct : Int])
  BY DEF Init
<1>3. pc \in [Callers -> {"idle", "check", "insert", "signal", "find", "write"}]
  BY DEF Init
<1>4. crashed \in BOOLEAN /\ irregular \in BOOLEAN
  BY DEF Init
<1>5. restart \in 0..1 /\ sched = "planning" /\ pos \in Nat /\ dest \in Dests
  BY DEF Init, Dests
<1> QED
  BY <1>1, <1>2, <1>3, <1>4, <1>5 DEF TypeOK

\* A caller's move that leaves Run alone keeps the types if the split, the
\* caller's place and the locals keep theirs.
LEMMA CallerTypes ==
  ASSUME TypeOK, NEW t \in Callers, UNCHANGED schedVars,
         split' \in Seq(ShareType), crashed' \in BOOLEAN, irregular' \in BOOLEAN,
         NEW at \in {"idle", "check", "insert", "signal", "find", "write"},
         NEW ops \in [Callers -> OpType], NEW o \in OpType,
         pc' = [pc EXCEPT ![t] = at], op' = [ops EXCEPT ![t] = o]
  PROVE  TypeOK'
BY DEF TypeOK, schedVars

\* A write leaves shares in the split.
LEMMA WritesTypes ==
  ASSUME TypeOK, NEW t \in Callers, WellFormed(t), Store(t) \/ Cut(t) \/ CutAndGoOn(t)
  PROVE  split' \in Seq(ShareType)
<1>1. CASE Store(t)
  <2>1. Share(op[t].id, op[t].pct) \in ShareType
    BY <1>1 DEF Store, WellFormed, TypeOK, OpType, Share, ShareType
  <2> QED BY <1>1, <2>1, SplitChanges DEF Store, TypeOK
<1>2. CASE Cut(t) \/ CutAndGoOn(t)
  BY <1>2, SplitChanges DEF Cut, CutAndGoOn, TypeOK
<1> QED
  BY <1>1, <1>2

\* The types are preserved.
LEMMA TypeStep == TypeOK /\ MethodsInv /\ [Next]_vars => TypeOK'
<1> SUFFICES ASSUME TypeOK, MethodsInv, [Next]_vars PROVE TypeOK'
  OBVIOUS
<1>0. AllPositive(split) /\ \A t \in Callers : WellFormed(t)
  BY DEF MethodsInv
<1>1. ASSUME NEW t \in Callers, CopySplit(t) PROVE TypeOK'
  <2>1. PICK id \in Contracts, p \in Shares :
           Enter(t, [Op("allocate", id, adjustPercentage(p)) EXCEPT !.seen = split = <<>>], "check")
    BY <1>1 DEF CopySplit
  <2> DEFINE o == [Op("allocate", id, adjustPercentage(p)) EXCEPT !.seen = split = <<>>]
  <2>2. adjustPercentage(p) \in Int
    BY DEF adjustPercentage
  <2>3. Op("allocate", id, adjustPercentage(p)) \in OpType /\ (split = <<>>) \in BOOLEAN
    BY <2>2, OpTypes DEF Kinds
  <2>4. o \in OpType
    BY <2>3, OpTypes
  <2>5. op \in [Callers -> OpType] /\ irregular' \in BOOLEAN
    BY <2>1 DEF TypeOK, Enter
  <2> HIDE DEF o
  <2> QED BY <2>1, <2>4, <2>5, CallerTypes DEF Enter, o, TypeOK
<1>2. ASSUME NEW t \in Callers, NEW o \in OpType, NEW at \in {"find"}, Enter(t, o, at)
      PROVE TypeOK'
  <2>1. op \in [Callers -> OpType] /\ irregular' \in BOOLEAN
    BY <1>2 DEF TypeOK, Enter
  <2> QED BY <1>2, <2>1, CallerTypes DEF Enter, TypeOK
<1>3. ASSUME NEW t \in Callers,
             BeginIncrease(t) \/ BeginSet(t) \/ BeginRemove(t) \/ BeginDeallocate(t)
      PROVE TypeOK'
  <2>1. split \in Seq(ShareType) /\ \A i \in DOMAIN split : split[i] \in ShareType
    BY DEF TypeOK
  <2>2. \A id \in Contracts, p \in Shares \cup {0}, kind \in Kinds : Op(kind, id, p) \in OpType
    BY OpTypes
  <2>3. \A id \in Holders(split) : id \in Contracts
    BY <2>1 DEF Holders, ShareType
  <2>4. CASE BeginIncrease(t)
    BY <1>2, <2>2, <2>3, <2>4 DEF BeginIncrease, Kinds
  <2>5. CASE BeginSet(t)
    BY <1>2, <2>2, <2>3, <2>5 DEF BeginSet, Kinds, Holders
  <2>6. CASE BeginRemove(t)
    BY <1>2, <2>2, <2>6 DEF BeginRemove, Kinds
  <2>7. CASE BeginDeallocate(t)
    <3>1. PICK id \in Contracts :
             Enter(t, [Op("deallocate", id, 0) EXCEPT !.view = split, !.shared = TRUE], "find")
      BY <2>7 DEF BeginDeallocate
    <3>2. [Op("deallocate", id, 0) EXCEPT !.view = split] \in OpType
      BY <2>1, <2>2, OpTypes DEF Kinds
    <3>3. [[Op("deallocate", id, 0) EXCEPT !.view = split] EXCEPT !.shared = TRUE] \in OpType
      BY <3>2, OpTypes
    <3> QED BY <1>2, <3>1, <3>3
  <2> QED BY <1>3, <2>4, <2>5, <2>6, <2>7
<1>4. ASSUME NEW t \in Callers, NEW ops \in [Callers -> OpType], LeaveWith(t, ops),
             UNCHANGED <<schedVars, crashed, irregular>>, split' \in Seq(ShareType)
      PROVE TypeOK'
  BY <1>4, OpTypes, CallerTypes DEF LeaveWith, TypeOK
<1>5. ASSUME NEW t \in Callers, CheckRoom(t) \/ FindNone(t) PROVE TypeOK'
  <2>1. CASE Leave(t)
    BY <1>4, <1>5, <2>1 DEF CheckRoom, FindNone, Leave, TypeOK
  <2>2. CASE pc' = [pc EXCEPT ![t] = "insert"] /\ op' = op
    BY <1>5, <2>2 DEF CheckRoom, FindNone, TypeOK, schedVars
  <2> QED BY <1>5, <2>1, <2>2 DEF CheckRoom, FindNone
<1>6. ASSUME NEW t \in Callers, Insert(t), op[t].id \in Contracts PROVE TypeOK'
  <2>1. op[t].pct \in Int
    BY DEF TypeOK, OpType
  <2>2. split' \in Seq(ShareType)
    BY <1>6, <2>1, SplitChanges DEF Insert, TypeOK
  <2>3. CASE LeaveWith(t, Moved)
    BY <1>4, <1>6, <2>2, <2>3, WrittenTypes DEF Insert
  <2>4. CASE pc' = [pc EXCEPT ![t] = "signal"] /\ op' = Moved
    BY <1>6, <2>2, <2>4, WrittenTypes DEF Insert, TypeOK, schedVars
  <2> QED BY <1>6, <2>3, <2>4 DEF Insert
<1>7. ASSUME NEW t \in Callers, Signal(t) PROVE TypeOK'
  BY <1>7, OpTypes DEF Signal, Leave, LeaveWith, TypeOK
<1>8. ASSUME NEW t \in Callers, Find(t), WellFormed(t) PROVE TypeOK'
  <2>1. PICK i \in Matches(t) :
           op' = [op EXCEPT ![t].idx = i,
                            ![t].pct = IF op[t].kind = "increase"
                                       THEN split[i].pct + op[t].pct ELSE @]
    BY <1>8 DEF Find
  <2>2. op[t] \in OpType /\ op[t].view \in Seq(ShareType) /\ op[t].pct \in Int
    BY DEF TypeOK, OpType
  <2>3. i \in Nat /\ (op[t].kind = "increase" => i \in DOMAIN split)
    BY <2>2, SplitChanges, SMTT(30) DEF Matches, Ranged, TypeOK
  <2>4. op[t].kind = "increase" => split[i].pct + op[t].pct \in Int
    <3>1. op[t].kind = "increase" => split[i] \in ShareType
      BY <2>3 DEF TypeOK
    <3> QED BY <2>2, <3>1 DEF ShareType
  <2>5. op'[t] \in OpType /\ op' = [op EXCEPT ![t] = op'[t]]
    BY <2>1, <2>2, <2>3, <2>4 DEF TypeOK, OpType
  <2> QED BY <1>8, <2>5, CallerTypes DEF Find, TypeOK
<1>9. ASSUME NEW t \in Callers, WellFormed(t), Store(t) \/ Cut(t) PROVE TypeOK'
  <2>1. split' \in Seq(ShareType)
    BY <1>9, WritesTypes
  <2> QED BY <1>4, <1>9, <2>1, WrittenTypes DEF Store, Cut
<1>11. ASSUME NEW t \in Callers, WellFormed(t), CutAndGoOn(t) PROVE TypeOK'
  <2> DEFINE ops == Written(split')
             o == [ops[t] EXCEPT !.idx = @ + 1]
  <2>1. split' \in Seq(ShareType)
    BY <1>11, WritesTypes
  <2>2. ops \in [Callers -> OpType]
    BY <2>1, WrittenTypes
  <2>3. op' = [ops EXCEPT ![t] = o]
    BY <1>11 DEF CutAndGoOn
  <2> HIDE DEF ops
  <2>4. ops[t] \in OpType /\ ops[t].idx + 1 \in Nat
    BY <2>2 DEF OpType
  <2>5. o \in OpType
    BY <2>4, OpTypes
  <2>6. /\ UNCHANGED schedVars /\ crashed' \in BOOLEAN /\ irregular' \in BOOLEAN
        /\ pc' = [pc EXCEPT ![t] = "find"]
    BY <1>11 DEF CutAndGoOn, TypeOK
  <2> HIDE DEF o
  <2> QED BY <2>1, <2>2, <2>3, <2>5, <2>6, CallerTypes
<1>12. ASSUME NEW t \in Callers, Panic(t) PROVE TypeOK'
  BY <1>12 DEF Panic, TypeOK, schedVars
<1>13. CASE ForceDest
  BY <1>13 DEF ForceDest, TypeOK, Dests
<1>14. CASE Plan
  <2>1. getDest \in Seq([id : Contracts \cup {Default}, pct : Int]) /\ 1 \in DOMAIN getDest
    BY <1>0, CycleShape DEF TypeOK
  <2> QED BY <1>14, <2>1 DEF Plan, TypeOK, callerVars
<1>15. ASSUME NEW next \in {"planning", "ended"}, EndCycle(next), dest' \in Dests,
              restart' \in 0..1, UNCHANGED callerVars
       PROVE TypeOK'
  BY <1>15 DEF EndCycle, TypeOK, callerVars
<1>16. CASE Switch
  <2>1. cycle[pos] \in [id : Contracts \cup {Default}, pct : Int]
    <3> DEFINE R == [id : Contracts \cup {Default}, pct : Int]
    <3>1. cycle \in Seq(R) /\ pos \in DOMAIN cycle
      BY <1>16 DEF Switch, TypeOK
    <3> HIDE DEF R
    <3>2. cycle[pos] \in R
      BY <3>1
    <3> QED BY <3>2 DEF R
  <2> QED BY <1>16, <2>1 DEF Switch, TypeOK, Dests, callerVars
<1>17. CASE SwitchFails \/ MinerGone \/ Restart
  BY <1>15, <1>17 DEF SwitchFails, MinerGone, Restart, TypeOK
<1>18. CASE TimeUp
  <2>1. CASE pos < Len(cycle)
    BY <1>18, <2>1 DEF TimeUp, TypeOK, callerVars
  <2>2. CASE ~(pos < Len(cycle))
    BY <1>15, <1>18, <2>2 DEF TimeUp, TypeOK
  <2> QED BY <2>1, <2>2
<1>19. CASE UNCHANGED vars
  BY <1>19 DEF vars, schedVars, TypeOK
<1>20. ASSUME NEW t \in Callers, Insert(t) PROVE op[t].id \in Contracts
  BY <1>0, <1>20 DEF Insert, WellFormed
<1> QED
  BY <1>0, <1>1, <1>3, <1>5, <1>6, <1>7, <1>8, <1>9, <1>11, <1>12, <1>13, <1>14,
     <1>16, <1>17, <1>18, <1>19, <1>20 DEF Next, Begin, Finish, Run
-----------------------------------------------------------------------------
\* Nothing happens to a caller but to the slice it may hold.
Stays(u) == /\ pc'[u] = pc[u] /\ op'[u].kind = op[u].kind
            /\ op'[u].id = op[u].id /\ op'[u].pct = op[u].pct

\* Only caller t moves.
Moves(t) == \A u \in Callers \ {t} : Stays(u)

\* A write to the array changes no more than the slices that are held.
LEMMA WrittenKeeps ==
  ASSUME TypeOK, NEW s, NEW u \in Callers
  PROVE  /\ Written(s)[u].kind = op[u].kind /\ Written(s)[u].id = op[u].id
         /\ Written(s)[u].pct = op[u].pct /\ Written(s)[u].idx = op[u].idx
         /\ Moved[u].kind = op[u].kind /\ Moved[u].id = op[u].id
         /\ Moved[u].pct = op[u].pct
<1>1. op[u] \in OpType
  BY DEF TypeOK
<1> QED
  BY <1>1 DEF Written, Moved, OpType

\* In a step of caller t the others stay where they are.
LEMMA OthersStay ==
  ASSUME TypeOK, NEW t \in Callers, WellFormed(t),
         Begin(t) \/ Finish(t) \/ Signal(t) \/ Panic(t)
  PROVE  Moves(t)
<1>1. ASSUME NEW ops, NEW at, NEW o, pc' = [pc EXCEPT ![t] = at],
             op' = [ops EXCEPT ![t] = o], ops \in [Callers -> OpType],
             \A u \in Callers \ {t} : /\ ops[u].kind = op[u].kind /\ ops[u].id = op[u].id
                                      /\ ops[u].pct = op[u].pct
      PROVE Moves(t)
  BY <1>1 DEF Moves, Stays, TypeOK
<1>2. op \in [Callers -> OpType]
  BY DEF TypeOK
<1>3. ASSUME Leave(t) PROVE Moves(t)
  BY <1>1, <1>2, <1>3 DEF Leave, LeaveWith
<1>4. ASSUME \E o, at : Enter(t, o, at) PROVE Moves(t)
  BY <1>1, <1>2, <1>4 DEF Enter
<1>5. ASSUME op' = op, \E at : pc' = [pc EXCEPT ![t] = at] PROVE Moves(t)
  BY <1>5 DEF Moves, Stays, TypeOK
<1>6. ASSUME Find(t) PROVE Moves(t)
  BY <1>6 DEF Find, Moves, Stays, TypeOK
<1>7. ASSUME NEW s \in Seq(ShareType), LeaveWith(t, Written(s)) PROVE Moves(t)
  BY <1>1, <1>7, WrittenTypes, WrittenKeeps, ZenonT(30) DEF LeaveWith
<1>8. ASSUME Store(t) \/ Cut(t) \/ CutAndGoOn(t) PROVE split' \in Seq(ShareType)
  BY <1>8, WritesTypes
<1>9. ASSUME Store(t) \/ Cut(t) PROVE Moves(t)
  BY <1>7, <1>8, <1>9 DEF Store, Cut
<1>10. ASSUME CutAndGoOn(t) PROVE Moves(t)
  <2> DEFINE ops == Written(split')
  <2>1. /\ op' = [ops EXCEPT ![t] = [ops[t] EXCEPT !.idx = @ + 1]]
        /\ pc' = [pc EXCEPT ![t] = "find"]
    BY <1>10 DEF CutAndGoOn
  <2>2. /\ ops \in [Callers -> OpType]
        /\ \A u \in Callers \ {t} : /\ ops[u].kind = op[u].kind /\ ops[u].id = op[u].id
                                     /\ ops[u].pct = op[u].pct
    BY <1>8, <1>10, WrittenTypes, WrittenKeeps
  <2> HIDE DEF ops
  <2> QED BY <1>1, <2>1, <2>2
<1>11. ASSUME Insert(t) PROVE Moves(t)
  <2>1. CASE LeaveWith(t, Moved)
    BY <1>1, <2>1, WrittenTypes, WrittenKeeps DEF LeaveWith
  <2>2. CASE op' = Moved /\ pc' = [pc EXCEPT ![t] = "signal"]
    BY <2>2, WrittenKeeps DEF Moves, Stays, TypeOK
  <2> QED BY <1>11, <2>1, <2>2 DEF Insert
<1>12. ASSUME Begin(t) PROVE \E o, at : Enter(t, o, at)
  BY <1>12 DEF Begin, CopySplit, BeginIncrease, BeginSet, BeginRemove, BeginDeallocate
<1>13. ASSUME CheckRoom(t) \/ FindNone(t) \/ Signal(t) PROVE Moves(t)
  BY <1>3, <1>5, <1>13 DEF CheckRoom, FindNone, Signal
<1>14. ASSUME Panic(t) PROVE Moves(t)
  BY <1>14 DEF Panic, Moves, Stays
<1> QED
  BY <1>4, <1>6, <1>9, <1>10, <1>11, <1>12, <1>13, <1>14 DEF Finish

\* A well-formed caller that stays is well formed.
LEMMA StaysWellFormed ==
  ASSUME NEW u, WellFormed(u), Stays(u)
  PROVE  WellFormed(u)'
BY DEF WellFormed, Stays

\* A lone method preserves MethodsInv if what it relies on next is true.
LEMMA MoverKeeps ==
  ASSUME MethodsInv, NEW t \in Callers, Moves(t),
         AllPositive(split)', WellFormed(t)',
         ~irregular' => /\ \A u \in Callers \ {t} : ~Busy(u)
                        /\ Learnt(t)'
  PROVE  MethodsInv'
<1>1. ASSUME NEW u \in Callers PROVE WellFormed(u)'
  <2>1. CASE u = t
    BY <2>1
  <2>2. CASE u # t
    BY <2>2, StaysWellFormed DEF MethodsInv, Moves
  <2> QED BY <2>1, <2>2
<1>2. ASSUME ~irregular', NEW u \in Callers \ {t} PROVE ~Busy(u)' /\ Learnt(u)'
  <2>1. ~Busy(u)'
    BY <1>2 DEF Moves, Stays, Busy
  <2> QED BY <2>1 DEF Busy, Learnt
<1>3. ~irregular' => \A u, v \in Callers : Busy(u)' /\ Busy(v)' => u = v
  BY <1>2
<1>4. ~irregular' => \A u \in Callers : Learnt(u)'
  BY <1>2
<1> QED
  BY <1>1, <1>3, <1>4 DEF MethodsInv

\* While the calls are regular, the caller that is busy is the only one.
LEMMA Alone ==
  ASSUME MethodsInv, NEW t \in Callers, Busy(t), ~irregular
  PROVE  \A u \in Callers \ {t} : ~Busy(u)
BY DEF MethodsInv

\* A caller enters a method: Learnt holds of what it has read so far.
LEMMA MethodsBegin ==
  ASSUME TypeOK, MethodsInv, NEW t \in Callers, Begin(t)
  PROVE  MethodsInv'
<1>1. Moves(t)
  BY OthersStay DEF MethodsInv
<1>2. /\ ~irregular' => ~irregular /\ \A u \in Callers \ {t} : ~Busy(u)
      /\ split' = split
  BY DEF Begin, CopySplit, BeginIncrease, BeginSet, BeginRemove, BeginDeallocate, Enter
<1>3. AllPositive(split)'
  BY <1>2 DEF MethodsInv, AllPositive
<1>4. ASSUME NEW o, NEW at, Enter(t, o, at) PROVE pc'[t] = at /\ op'[t] = o
  BY <1>4 DEF Enter, TypeOK
<1>5. CASE CopySplit(t)
  <2>1. PICK id \in Contracts, p \in Shares :
           Enter(t, [Op("allocate", id, adjustPercentage(p)) EXCEPT !.seen = split = <<>>], "check")
    BY <1>5 DEF CopySplit
  <2>5. ~irregular' => id \notin Holders(split)
    BY <2>1 DEF Enter, Op
  <2>2. /\ pc'[t] = "check" /\ op'[t].kind = "allocate" /\ op'[t].id = id
        /\ op'[t].pct = adjustPercentage(p) /\ op'[t].seen = (split = <<>>)
    BY <1>4, <2>1 DEF Op
  <2>3. adjustPercentage(p) > 0
    BY DEF adjustPercentage
  <2>4. WellFormed(t)' /\ (~irregular' => Learnt(t)')
    BY <1>2, <2>2, <2>3, <2>5 DEF WellFormed, Learnt, Holders
  <2> QED BY <1>1, <1>2, <1>3, <2>4, MoverKeeps
<1>6. CASE BeginIncrease(t)
  <2>1. PICK id \in Holders(split), p \in Shares :
           p <= GetUnallocated(split) /\ Enter(t, Op("increase", id, p), "find")
    BY <1>6 DEF BeginIncrease
  <2>2. pc'[t] = "find" /\ op'[t].kind = "increase" /\ op'[t].id = id /\ op'[t].pct = p
    BY <1>4, <2>1 DEF Op
  <2>3. p >= 0
    OBVIOUS
  <2>4. id \in Contracts
    <3>1. \A i \in DOMAIN split : split[i] \in ShareType
      BY DEF TypeOK
    <3> QED BY <3>1 DEF Holders, ShareType
  <2>5. WellFormed(t)' /\ Learnt(t)'
    BY <1>2, <2>1, <2>2, <2>3, <2>4 DEF WellFormed, Learnt
  <2> QED BY <1>1, <1>2, <1>3, <2>5, MoverKeeps
<1>7. CASE BeginSet(t)
  <2>1. PICK i \in DOMAIN split, p \in Shares \ {0} :
           p < split[i].pct /\ Enter(t, Op("set", split[i].id, p), "find")
    BY <1>7 DEF BeginSet
  <2>2. pc'[t] = "find" /\ op'[t].kind = "set" /\ op'[t].id = split[i].id /\ op'[t].pct = p
    BY <1>4, <2>1 DEF Op
  <2>3. p > 0
    OBVIOUS
  <2>4. split[i].id \in Contracts
    <3>1. split[i] \in ShareType
      BY DEF TypeOK
    <3> QED BY <3>1 DEF ShareType
  <2>5. WellFormed(t)' /\ Learnt(t)'
    BY <1>2, <2>1, <2>2, <2>3, <2>4 DEF WellFormed, Learnt
  <2> QED BY <1>1, <1>2, <1>3, <2>5, MoverKeeps
<1>8. CASE BeginRemove(t)
  <2>1. pc'[t] = "find" /\ op'[t].kind = "remove" /\ op'[t].id \in Contracts
    BY <1>4, <1>8 DEF BeginRemove, Op
  <2>2. WellFormed(t)' /\ Learnt(t)'
    BY <2>1 DEF WellFormed, Learnt
  <2> QED BY <1>1, <1>2, <1>3, <2>2, MoverKeeps
<1>9. CASE BeginDeallocate(t)
  <2>1. /\ pc'[t] = "find" /\ op'[t].kind = "deallocate" /\ op'[t].id \in Contracts
        /\ op'[t].view = split /\ op'[t].shared
    <3>1. PICK id \in Contracts :
             Enter(t, [Op("deallocate", id, 0) EXCEPT !.view = split, !.shared = TRUE], "find")
      BY <1>9 DEF BeginDeallocate
    <3>2. /\ pc'[t] = "find"
          /\ op'[t] = [Op("deallocate", id, 0) EXCEPT !.view = split, !.shared = TRUE]
      BY <1>4, <3>1
    <3> QED BY <3>2 DEF Op
  <2>2. WellFormed(t)' /\ Learnt(t)'
    BY <1>2, <2>1 DEF WellFormed, Learnt
  <2> QED BY <1>1, <1>2, <1>3, <2>2, MoverKeeps
<1> QED
  BY <1>5, <1>6, <1>7, <1>8, <1>9 DEF Begin

\* Nothing is asked of a caller that has done its last write.
LEMMA DoneKeeps ==
  ASSUME TypeOK, MethodsInv, NEW t \in Callers, Finish(t),
         pc'[t] \in {"idle", "signal"}, AllPositive(split)'
  PROVE  MethodsInv'
<1>1. WellFormed(t)' /\ Learnt(t)'
  BY DEF WellFormed, Learnt
<1>2. Busy(t) /\ irregular' = irregular
  BY DEF Finish, CheckRoom, Insert, Find, FindNone, Store, Cut, CutAndGoOn, Busy
<1> QED
  BY <1>1, <1>2, OthersStay, Alone, MoverKeeps DEF MethodsInv

\* What the changes to the split leave positive.
LEMMA PositiveChanges ==
  ASSUME NEW s \in Seq(ShareType), AllPositive(s)
  PROVE  /\ \A id \in Contracts, p \in Int : p > 0 => AllPositive(insert(s, id, p))
         /\ \A j \in DOMAIN s, x \in ShareType :
               x.pct > 0 => AllPositive([s EXCEPT ![j] = x])
         /\ \A j \in DOMAIN s : AllPositive(RemoveAt(s, j))
<1>1. ASSUME NEW id \in Contracts, NEW p \in Int, p > 0 PROVE AllPositive(insert(s, id, p))
  BY <1>1 DEF AllPositive, insert, Share
<1>2. ASSUME NEW j \in DOMAIN s, NEW x \in ShareType, x.pct > 0
      PROVE AllPositive([s EXCEPT ![j] = x])
  BY <1>2 DEF AllPositive
<1>3. ASSUME NEW j \in DOMAIN s PROVE AllPositive(RemoveAt(s, j))
  <2> DEFINE r == RemoveAt(s, j)
  <2>1. /\ r \in Seq(ShareType) /\ Len(r) = Len(s) - 1 /\ DOMAIN s = 1..Len(s)
        /\ Len(s) \in Nat
        /\ \A i \in 1..(Len(s) - 1) : r[i] = IF i < j THEN s[i] ELSE s[i + 1]
    BY SplitChanges
  <2> HIDE DEF r
  <2>2. DOMAIN r = 1..(Len(s) - 1)
    BY <2>1
  <2>3. ASSUME NEW i \in DOMAIN r PROVE r[i].pct > 0
    <3>1. i \in DOMAIN s /\ i + 1 \in DOMAIN s
      BY <2>1, <2>2
    <3> QED BY <2>1, <2>2, <3>1 DEF AllPositive
  <2> QED BY <2>3 DEF AllPositive, r
<1> QED
  BY <1>1, <1>2, <1>3

\* A caller goes on: each step leaves true what the next one relies on.
LEMMA MethodsFinish ==
  ASSUME TypeOK, MethodsInv, SerialSplitSound, NEW t \in Callers, Finish(t)
  PROVE  MethodsInv'
<1>1. Moves(t) /\ Busy(t) /\ irregular' = irregular
  BY OthersStay
     DEF MethodsInv, Finish, CheckRoom, Insert, Find, FindNone, Store, Cut, CutAndGoOn, Busy
<1>2. /\ AllPositive(split) /\ WellFormed(t) /\ (~irregular => Learnt(t))
      /\ split \in Seq(ShareType) /\ op[t] \in OpType
      /\ op[t].pct \in Int /\ op[t].view \in Seq(ShareType)
      /\ op[t].idx \in Nat
  BY DEF MethodsInv, TypeOK, OpType
<1>3. ASSUME NEW ops, LeaveWith(t, ops) PROVE pc'[t] = "idle"
  BY <1>3 DEF LeaveWith, TypeOK
<1>4. ASSUME NEW at, pc' = [pc EXCEPT ![t] = at] PROVE pc'[t] = at
  BY <1>4 DEF TypeOK
<1>5. CASE CheckRoom(t)
  <2>1. split' = split
    BY <1>5 DEF CheckRoom
  <2>2. CASE Leave(t)
    BY <1>2, <1>3, <2>1, <2>2, DoneKeeps DEF AllPositive, Leave
  <2>3. CASE ~Refused(op[t].pct, GetUnallocated(split)) /\ op' = op
             /\ pc' = [pc EXCEPT ![t] = "insert"]
    <3>1. pc'[t] = "insert" /\ pc[t] = "check"
      BY <1>4, <1>5, <2>3 DEF CheckRoom
    <3>2. GetUnallocated(split) \in Int
      BY <1>2, SplitChanges DEF GetUnallocated
    <3>3. op[t].pct <= GetUnallocated(split)
      BY <1>2, <2>3, <3>2 DEF Refused
    <3>4. WellFormed(t)'
      BY <1>2, <2>3, <3>1 DEF WellFormed
    <3>5. ~irregular' => Learnt(t)'
      BY <1>1, <1>2, <2>1, <2>3, <3>1, <3>3 DEF Learnt
    <3>6. AllPositive(split)'
      BY <1>2, <2>1
    <3> QED BY <1>1, <3>4, <3>5, <3>6, Alone, MoverKeeps
  <2> QED BY <1>5, <2>2, <2>3 DEF CheckRoom
<1>6. CASE Insert(t)
  <2>1. op[t].id \in Contracts /\ op[t].pct > 0
    BY <1>2, <1>6 DEF Insert, WellFormed
  <2>2. AllPositive(split)'
    BY <1>2, <1>6, <2>1, PositiveChanges DEF Insert
  <2>3. pc'[t] \in {"idle", "signal"}
    BY <1>3, <1>4, <1>6 DEF Insert
  <2> QED BY <2>2, <2>3, DoneKeeps
<1>7. CASE FindNone(t)
  BY <1>2, <1>3, <1>7, DoneKeeps DEF FindNone, AllPositive, Leave
<1>8. CASE Store(t)
  <2>1. Share(op[t].id, op[t].pct) \in ShareType /\ op[t].pct > 0
    BY <1>2, <1>8 DEF Store, WellFormed, Share, ShareType
  <2>2. AllPositive(split)'
    BY <1>2, <1>8, <2>1, PositiveChanges DEF Store, Share
  <2> QED BY <1>3, <1>8, <2>2, DoneKeeps DEF Store
<1>9. CASE Cut(t)
  <2>1. AllPositive(split)'
    BY <1>2, <1>9, PositiveChanges DEF Cut
  <2> QED BY <1>3, <1>9, <2>1, DoneKeeps DEF Cut
<1>10. CASE Find(t)
  <2>1. PICK i \in Matches(t) :
           op' = [op EXCEPT ![t].idx = i,
                            ![t].pct = IF op[t].kind = "increase"
                                       THEN split[i].pct + op[t].pct ELSE @]
    BY <1>10 DEF Find
  <2>2. /\ pc[t] = "find" /\ pc'[t] = "write" /\ split' = split
        /\ op'[t].kind = op[t].kind /\ op'[t].id = op[t].id /\ op'[t].idx = i
        /\ op'[t].view = op[t].view /\ op'[t].shared = op[t].shared
        /\ op[t].kind = "increase" => op'[t].pct = split[i].pct + op[t].pct
        /\ op[t].kind # "increase" => op'[t].pct = op[t].pct
    BY <1>2, <1>4, <1>10, <2>1 DEF Find, TypeOK, OpType
  <2>3. /\ op[t].kind = "deallocate" => i \in DOMAIN op[t].view /\ op[t].view[i].id = op[t].id
        /\ op[t].kind # "deallocate" => i \in DOMAIN split /\ split[i].id = op[t].id
    BY DEF Matches, Ranged
  <2>4. \A j \in DOMAIN split : split[j].pct \in Int /\ split[j].pct > 0
    <3>1. \A j \in DOMAIN split : split[j] \in ShareType
      BY <1>2
    <3> QED BY <1>2, <3>1 DEF AllPositive, ShareType
  <2>5. WellFormed(t)'
    BY <1>2, <2>2, <2>3, <2>4 DEF WellFormed
  <2>6. ASSUME ~irregular' PROVE Learnt(t)'
    <3>1. Learnt(t) /\ NoDuplicates(split)
      BY <1>1, <1>2, <2>6 DEF SerialSplitSound
    <3>2. CASE op[t].kind = "deallocate"
      <4>1. op[t].view = split /\ op[t].shared
        BY <2>2, <3>1, <3>2 DEF Learnt
      <4> QED BY <2>2, <2>3, <3>2, <4>1 DEF Learnt
    <3>3. CASE op[t].kind = "set"
      <4>1. PICK j \in DOMAIN split : split[j].id = op[t].id /\ op[t].pct < split[j].pct
        BY <2>2, <3>1, <3>3 DEF Learnt
      <4>2. i = j
        BY <2>3, <3>1, <3>3, <4>1 DEF NoDuplicates
      <4> QED BY <2>2, <2>3, <3>3, <4>1, <4>2 DEF Learnt
    <3>4. CASE op[t].kind = "increase"
      <4>1. op[t].pct <= GetUnallocated(split)
        BY <2>2, <3>1, <3>4 DEF Learnt
      <4>2. op'[t].pct - split[i].pct = op[t].pct
        BY <1>2, <2>2, <2>3, <2>4, <3>4
      <4> QED BY <2>2, <2>3, <3>4, <4>1, <4>2 DEF Learnt
    <3>5. CASE op[t].kind = "remove"
      BY <2>2, <2>3, <3>5 DEF Learnt
    <3> QED BY <1>2, <2>2, <3>2, <3>3, <3>4, <3>5 DEF WellFormed
  <2>7. AllPositive(split)'
    BY <1>2, <2>2 DEF AllPositive
  <2> QED BY <1>1, <2>5, <2>6, <2>7, Alone, MoverKeeps
<1>11. CASE CutAndGoOn(t)
  <2> DEFINE j == op[t].idx
             r == RemoveAt(split, j)
             n == Len(split)
             w == r \o SubSeq(split, Len(r) + 1, n)
  <2>1. /\ pc[t] = "write" /\ pc'[t] = "find" /\ split' = r
        /\ op[t].kind = "deallocate" /\ j \in DOMAIN split
        /\ op' = [Written(r) EXCEPT ![t].idx = @ + 1]
    BY <1>4, <1>11 DEF CutAndGoOn
  <2>2. AllPositive(split)'
    BY <1>2, <2>1, PositiveChanges
  <2>3. Written(r) \in [Callers -> OpType]
    BY <1>2, <2>1, SplitChanges, WrittenTypes
  <2>4. /\ op'[t].kind = "deallocate" /\ op'[t].id = op[t].id /\ op'[t].idx = j + 1
        /\ op'[t].view = Written(r)[t].view
    <3>1. Written(r)[t] \in OpType /\ op'[t] = [Written(r)[t] EXCEPT !.idx = @ + 1]
      BY <2>1, <2>3
    <3> HIDE DEF r
    <3> QED BY <2>1, <3>1, WrittenKeeps DEF OpType
  <2>5. WellFormed(t)'
    BY <1>2, <2>1, <2>4 DEF WellFormed
  <2>6. ASSUME ~irregular' PROVE Matches(t)' = {}
    <3>1. /\ op[t].view = split /\ op[t].shared /\ NoDuplicates(split)
          /\ split[j].id = op[t].id
      BY <1>1, <1>2, <2>1, <2>6 DEF Learnt, SerialSplitSound
    <3>2. Written(r)[t].view = w
      BY <1>2, <3>1 DEF Written, OpType
    <3>3. /\ n \in Nat /\ DOMAIN split = 1..n /\ j \in 1..n
          /\ r \in Seq(ShareType) /\ Len(r) = n - 1
          /\ \A i \in 1..(n - 1) : r[i] = IF i < j THEN split[i] ELSE split[i + 1]
      BY <1>2, <2>1, SplitChanges
    <3> HIDE DEF r, n
    <3>4. /\ DOMAIN w = 1..n /\ w[n] = split[n]
          /\ \A i \in 1..(n - 1) : w[i] = r[i]
      <4> DEFINE z == SubSeq(split, Len(r) + 1, n)
      <4>1. n \in 1..Len(split) /\ Len(r) + 1 = n
        BY <3>3 DEF n
      <4>2. Len(z) = 1 /\ z[1] = split[n] /\ z \in Seq(ShareType)
        BY <1>2, <4>1
      <4> HIDE DEF z
      <4> QED BY <3>3, <4>2
    <3> HIDE DEF w
    <3>5. ASSUME NEW i \in 1..n, i >= j + 1 PROVE w[i].id # op[t].id
      <4>1. CASE i = n
        BY <3>1, <3>3, <3>4, <3>5, <4>1 DEF NoDuplicates
      <4>2. CASE i # n
        <5>1. i \in 1..(n - 1) /\ i + 1 \in 1..n /\ i + 1 # j /\ ~(i < j)
          BY <3>3, <3>5, <4>2
        <5>2. w[i] = split[i + 1]
          BY <3>3, <3>4, <5>1
        <5> QED BY <3>1, <3>3, <5>1, <5>2 DEF NoDuplicates
      <4> QED BY <4>1, <4>2
    <3>6. Matches(t)' = {i \in 1..n : i >= j + 1 /\ w[i].id = op[t].id}
      BY <2>4, <3>2, <3>4 DEF Matches, Ranged
    <3> QED BY <3>5, <3>6
  <2>7. ~irregular' => Learnt(t)'
    BY <2>1, <2>4, <2>6 DEF Learnt
  <2> QED BY <1>1, <2>2, <2>5, <2>7, Alone, MoverKeeps
<1> QED
  BY <1>5, <1>6, <1>7, <1>8, <1>9, <1>10, <1>11 DEF Finish

\* MethodsInv depends on split, pc, op and irregular alone.
LEMMA MethodsFrame ==
  ASSUME MethodsInv, UNCHANGED <<split, pc, op, irregular>>
  PROVE  MethodsInv'
BY DEF MethodsInv, AllPositive, WellFormed, Learnt, Holders, GetUnallocated, Matches,
       Ranged, Busy

\* Percentages stay positive and lone methods act on what they have learnt.
LEMMA MethodsStep == TypeOK /\ MethodsInv /\ SerialSplitSound /\ [Next]_vars => MethodsInv'
<1> SUFFICES ASSUME TypeOK, MethodsInv, SerialSplitSound, [Next]_vars PROVE MethodsInv'
  OBVIOUS
<1>1. ASSUME NEW t \in Callers, Signal(t) PROVE MethodsInv'
  <2>1. /\ pc'[t] = "idle" /\ pc[t] = "signal"
        /\ split' = split /\ irregular' = irregular
        /\ \A u \in Callers \ {t} : pc'[u] = pc[u] /\ op'[u] = op[u]
    BY <1>1 DEF Signal, Leave, LeaveWith, TypeOK
  <2>2. ASSUME NEW u \in Callers PROVE WellFormed(u)' /\ (~irregular' => Learnt(u)')
    <3>1. CASE u = t
      BY <2>1, <3>1 DEF WellFormed, Learnt
    <3>2. CASE u # t
      BY <2>1, <3>2 DEF MethodsInv, WellFormed, Learnt, Holders, GetUnallocated,
                        Matches, Ranged
    <3> QED BY <3>1, <3>2
  <2>3. \A u \in Callers : Busy(u)' => Busy(u)
    BY <2>1 DEF Busy
  <2> QED BY <2>1, <2>2, <2>3 DEF MethodsInv, AllPositive
<1>2. ASSUME NEW t \in Callers, Panic(t) PROVE MethodsInv'
  BY <1>2, MethodsFrame DEF Panic
<1>3. CASE ForceDest \/ Run \/ UNCHANGED vars
  BY <1>3, MethodsFrame DEF ForceDest, Run, Plan, Switch, SwitchFails, TimeUp, Restart,
                            MinerGone, callerVars, vars
<1> QED
  BY <1>1, <1>2, <1>3, MethodsBegin, MethodsFinish DEF Next

\* What the changes to the split do to the holders.
LEMMA HolderChanges ==
  ASSUME NEW s \in Seq(ShareType), NoDuplicates(s)
  PROVE  /\ \A id \in Contracts \ Holders(s), p \in Int : NoDuplicates(insert(s, id, p))
         /\ \A j \in DOMAIN s, x \in ShareType :
               x.id = s[j].id => NoDuplicates([s EXCEPT ![j] = x])
         /\ \A j \in DOMAIN s : NoDuplicates(RemoveAt(s, j))
<1>1. ASSUME NEW id \in Contracts \ Holders(s), NEW p \in Int
      PROVE NoDuplicates(insert(s, id, p))
  <2> DEFINE r == insert(s, id, p)
  <2>1. /\ DOMAIN r = 1..(Len(s) + 1) /\ DOMAIN s = 1..Len(s) /\ Len(s) \in Nat
        /\ r[1].id = id /\ \A i \in 1..Len(s) : r[i + 1] = s[i]
    BY DEF insert, Share
  <2> HIDE DEF r
  <2>2. ASSUME NEW i \in 2..(Len(s) + 1) PROVE i - 1 \in DOMAIN s /\ r[i] = s[i - 1]
    BY <2>1
  <2>3. ASSUME NEW i \in 2..(Len(s) + 1) PROVE r[i].id # id
    BY <2>2 DEF Holders
  <2>4. ASSUME NEW i \in DOMAIN r, NEW k \in DOMAIN r, r[i].id = r[k].id PROVE i = k
    <3>1. CASE i = 1 \/ k = 1
      BY <2>1, <2>3, <2>4, <3>1
    <3>2. CASE i # 1 /\ k # 1
      <4>1. i \in 2..(Len(s) + 1) /\ k \in 2..(Len(s) + 1)
        BY <2>1, <3>2
      <4>2. i - 1 = k - 1
        BY <2>2, <2>4, <4>1 DEF NoDuplicates
      <4> QED BY <4>1, <4>2
    <3> QED BY <3>1, <3>2
  <2> QED BY <2>4 DEF NoDuplicates, r
<1>2. ASSUME NEW j \in DOMAIN s, NEW x \in ShareType, x.id = s[j].id
      PROVE NoDuplicates([s EXCEPT ![j] = x])
  BY <1>2 DEF NoDuplicates
<1>3. ASSUME NEW j \in DOMAIN s PROVE NoDuplicates(RemoveAt(s, j))
  <2> DEFINE r == RemoveAt(s, j)
             at(i) == IF i < j THEN i ELSE i + 1
  <2>1. /\ r \in Seq(ShareType) /\ Len(r) = Len(s) - 1 /\ DOMAIN s = 1..Len(s)
        /\ Len(s) \in Nat
        /\ \A i \in 1..(Len(s) - 1) : r[i] = IF i < j THEN s[i] ELSE s[i + 1]
    BY SplitChanges
  <2> HIDE DEF r
  <2>2. DOMAIN r = 1..(Len(s) - 1)
    BY <2>1
  <2>3. ASSUME NEW i \in DOMAIN r PROVE at(i) \in DOMAIN s /\ r[i] = s[at(i)]
    BY <2>1, <2>2
  <2>4. ASSUME NEW i \in DOMAIN r, NEW k \in DOMAIN r, r[i].id = r[k].id PROVE i = k
    <3>1. at(i) = at(k)
      <4> HIDE DEF at
      <4> QED BY <2>3, <2>4 DEF NoDuplicates
    <3> QED BY <2>1, <2>2, <3>1
  <2> QED BY <2>4 DEF NoDuplicates, r
<1> QED
  BY <1>1, <1>2, <1>3

\* A caller's step is one that leaves Run's state alone, or puts a token.
LEMMA CallerFrame ==
  ASSUME NEW t \in Callers, Begin(t) \/ Finish(t) \/ Signal(t) \/ Panic(t)
  PROVE  /\ irregular => irregular'
         /\ Signal(t) \/ UNCHANGED schedVars
<1>1. CASE \E o, at : Enter(t, o, at)
  BY <1>1 DEF Enter
<1>2. CASE UNCHANGED irregular /\ (Signal(t) \/ UNCHANGED schedVars)
  BY <1>2
<1>3. Begin(t) => \E o, at : Enter(t, o, at)
  BY DEF Begin, CopySplit, BeginIncrease, BeginSet, BeginRemove, BeginDeallocate
<1>4. ~Begin(t) => UNCHANGED irregular /\ (Signal(t) \/ UNCHANGED schedVars)
  BY DEF Finish, CheckRoom, Insert, Find, FindNone, Store, Cut, CutAndGoOn, Signal, Panic
<1> QED
  BY <1>1, <1>2, <1>3, <1>4

\* While the calls are regular, the shares stay within the miner.
LEMMA SoundStep ==
  TypeOK /\ MethodsInv /\ SerialSplitSound /\ [Next]_vars => SerialSplitSound'
<1> SUFFICES ASSUME TypeOK, MethodsInv, SerialSplitSound, [Next]_vars, ~irregular'
             PROVE  GetAllocated(split') <= Whole /\ NoDuplicates(split') /\ ~crashed'
  BY DEF SerialSplitSound
<1>1. ~irregular
  BY CallerFrame DEF Next, ForceDest, Run, Plan, Switch, SwitchFails, TimeUp, Restart,
                     MinerGone, callerVars, vars
<1>2. GetAllocated(split) <= Whole /\ NoDuplicates(split) /\ ~crashed
  BY <1>1 DEF SerialSplitSound
<1>3. /\ split \in Seq(ShareType) /\ GetAllocated(split) \in Int
      /\ \A i \in DOMAIN split : split[i].pct \in Int /\ split[i].pct > 0
  <2>1. \A i \in DOMAIN split : split[i] \in ShareType
    BY DEF TypeOK
  <2> QED BY <2>1, SplitChanges DEF TypeOK, MethodsInv, AllPositive, ShareType
<1>4. ASSUME NEW t \in Callers
      PROVE  /\ Learnt(t) /\ WellFormed(t) /\ op[t] \in OpType
             /\ op[t].pct \in Int /\ op[t].idx \in Nat
  BY <1>1 DEF MethodsInv, TypeOK, OpType
<1>5. CASE split' = split /\ crashed' = crashed
  BY <1>2, <1>5
<1>6. ASSUME NEW t \in Callers, Insert(t)
      PROVE  GetAllocated(split') <= Whole /\ NoDuplicates(split') /\ ~crashed'
  <2>1. /\ op[t].id \in Contracts \ Holders(split)
        /\ op[t].pct <= Whole - GetAllocated(split)
    BY <1>4, <1>6 DEF Insert, Learnt, WellFormed, GetUnallocated
  <2>2. GetAllocated(split') = GetAllocated(split) + op[t].pct
    BY <1>3, <1>4, <1>6, <2>1, SplitChanges DEF Insert
  <2>3. NoDuplicates(split')
    BY <1>2, <1>3, <1>4, <1>6, <2>1, HolderChanges DEF Insert
  <2>4. GetAllocated(split') <= Whole
    BY <1>3, <1>4, <2>1, <2>2
  <2> QED BY <1>2, <1>6, <2>3, <2>4 DEF Insert
<1>7. ASSUME NEW t \in Callers, Store(t)
      PROVE  GetAllocated(split') <= Whole /\ NoDuplicates(split') /\ ~crashed'
  <2> DEFINE i == op[t].idx
             x == Share(op[t].id, op[t].pct)
  <2>1. /\ i \in DOMAIN split /\ split[i].id = op[t].id
        /\ op[t].kind = "increase" => op[t].pct - split[i].pct <= Whole - GetAllocated(split)
        /\ op[t].kind = "set" => op[t].pct < split[i].pct
        /\ op[t].kind \in {"increase", "set"} /\ split' = [split EXCEPT ![i] = x]
        /\ crashed' = crashed
    BY <1>4, <1>7 DEF Store, Learnt, GetUnallocated
  <2>2. x \in ShareType /\ x.pct = op[t].pct /\ x.id = op[t].id
    BY <1>4, <1>7 DEF Store, WellFormed, Share, ShareType
  <2>3. GetAllocated(split') = GetAllocated(split) - split[i].pct + op[t].pct
    <3>1. split \in Seq(ShareType) /\ i \in DOMAIN split /\ x \in ShareType
      BY <1>3, <2>1, <2>2
    <3> HIDE DEF i, x
    <3>2. GetAllocated([split EXCEPT ![i] = x]) = GetAllocated(split) - split[i].pct + x.pct
      BY <3>1, SplitChanges
    <3> QED BY <2>1, <2>2, <3>2
  <2>4. NoDuplicates(split')
    BY <1>2, <1>3, <2>1, <2>2, HolderChanges
  <2>5. split[i].pct \in Int
    BY <1>3, <2>1
  <2> HIDE DEF i, x
  <2>6. GetAllocated(split') <= Whole
    BY <1>2, <1>3, <1>4, <2>1, <2>3, <2>5
  <2> QED BY <1>2, <2>1, <2>4, <2>6
<1>8. ASSUME NEW t \in Callers, Cut(t) \/ CutAndGoOn(t)
      PROVE  GetAllocated(split') <= Whole /\ NoDuplicates(split') /\ ~crashed'
  <2> DEFINE i == op[t].idx
  <2>1. i \in DOMAIN split /\ split' = RemoveAt(split, i) /\ crashed' = crashed
    BY <1>8 DEF Cut, CutAndGoOn
  <2>2. GetAllocated(split') = GetAllocated(split) - split[i].pct
    BY <1>3, <2>1, SplitChanges
  <2>3. NoDuplicates(split')
    BY <1>2, <1>3, <2>1, HolderChanges
  <2>4. split[i].pct \in Int /\ split[i].pct > 0
    BY <1>3, <2>1
  <2> HIDE DEF i
  <2> QED BY <1>2, <1>3, <2>1, <2>2, <2>3, <2>4
<1>9. ASSUME NEW t \in Callers, Panic(t) PROVE FALSE
  BY <1>4, <1>9 DEF Panic, Learnt
<1> QED
  BY <1>5, <1>6, <1>7, <1>8, <1>9
     DEF Next, Begin, CopySplit, BeginIncrease, BeginSet, BeginRemove, BeginDeallocate,
         Enter, Finish, CheckRoom, Find, FindNone, Signal, ForceDest, Run, Plan, Switch,
         SwitchFails, TimeUp, Restart, MinerGone, callerVars, vars

\* Every cycle divides the whole miner.
LEMMA CycleStep ==
  TypeOK /\ MethodsInv /\ SerialSplitSound /\ CycleCoversMiner /\ [Next]_vars
     => CycleCoversMiner'
<1> SUFFICES ASSUME TypeOK, MethodsInv, SerialSplitSound, CycleCoversMiner, [Next]_vars
             PROVE  CycleCoversMiner'
  OBVIOUS
<1>1. CASE Plan
  <2>1. cycle' = getDest /\ irregular' = irregular
    BY <1>1 DEF Plan, callerVars
  <2>2. GetAllocated(getDest) = Whole /\ (~irregular => AllPositive(getDest))
    BY CycleShape DEF TypeOK, MethodsInv, SerialSplitSound
  <2> QED BY <2>1, <2>2 DEF CycleCoversMiner
<1>2. CASE cycle' = cycle /\ (irregular => irregular') /\ sched \in {"switching", "waiting"}
  BY <1>2 DEF CycleCoversMiner
<1>3. CASE sched' \notin {"switching", "waiting"}
  BY <1>3 DEF CycleCoversMiner
<1>4. CASE UNCHANGED schedVars /\ (irregular => irregular')
  BY <1>2, <1>3, <1>4 DEF schedVars
<1>5. CASE Switch \/ SwitchFails \/ TimeUp \/ Restart \/ MinerGone
  BY <1>2, <1>3, <1>5 DEF Switch, SwitchFails, TimeUp, Restart, MinerGone, EndCycle, callerVars
<1>6. CASE ForceDest
  BY <1>2, <1>3, <1>6 DEF ForceDest
<1>7. ASSUME NEW t \in Callers, Signal(t) PROVE CycleCoversMiner'
  BY <1>2, <1>3, <1>7 DEF Signal
<1>8. CASE UNCHANGED vars
  BY <1>4, <1>8 DEF vars, schedVars
<1> QED
  BY <1>1, <1>4, <1>5, <1>6, <1>7, <1>8, CallerFrame DEF Next, Run

\* The first share of a miner that waits on the default pool is announced.
LEMMA RestartStep ==
  TypeOK /\ MethodsInv /\ RestartNotLost /\ [Next]_vars => RestartNotLost'
<1> SUFFICES ASSUME TypeOK, MethodsInv, RestartNotLost, [Next]_vars,
                    ~irregular', sched' \in {"switching", "waiting"}, OnlyDefault',
                    split' # <<>>
             PROVE  restart' = 1 \/ \E u \in Callers : pc'[u] = "signal"
  BY DEF RestartNotLost
<1> DEFINE Told == restart = 1 \/ \E u \in Callers : pc[u] = "signal"
<1>1. CASE Plan
  <2>1. getDest = <<Share(Default, Whole)>> /\ split # <<>>
    BY <1>1 DEF Plan, OnlyDefault, callerVars
  <2> QED BY <2>1, CycleShape DEF TypeOK, MethodsInv
<1>2. CASE SwitchFails \/ Restart \/ MinerGone
  BY <1>2 DEF SwitchFails, Restart, MinerGone, EndCycle
<1>3. CASE Switch \/ TimeUp \/ ForceDest \/ UNCHANGED vars
  BY <1>3 DEF Switch, TimeUp, ForceDest, EndCycle, callerVars, vars, schedVars,
              RestartNotLost, OnlyDefault
<1>4. ASSUME NEW t \in Callers, Signal(t) PROVE restart' = 1
  BY <1>4 DEF Signal
<1>5. ASSUME NEW t \in Callers, Begin(t) \/ Finish(t) \/ Panic(t)
      PROVE  restart' = 1 \/ \E u \in Callers : pc'[u] = "signal"
  <2> SUFFICES ASSUME ~Signal(t)
               PROVE  restart' = 1 \/ \E u \in Callers : pc'[u] = "signal"
    BY <1>4
  <2>1. /\ restart' = restart /\ sched' = sched /\ cycle' = cycle /\ ~irregular
        /\ Moves(t)
    BY <1>5, OthersStay, CallerFrame DEF schedVars, MethodsInv
  <2>2. CASE split # <<>>
    <3>1. Told
      BY <2>1, <2>2 DEF RestartNotLost, OnlyDefault
    <3>2. pc[t] # "signal"
      BY <1>5 DEF Begin, CopySplit, BeginIncrease, BeginSet, BeginRemove, BeginDeallocate,
                  Enter, Finish, CheckRoom, Insert, Find, FindNone, Store, Cut,
                  CutAndGoOn, Panic
    <3> QED BY <2>1, <3>1, <3>2 DEF Moves, Stays
  <2>3. CASE split = <<>>
    <3>1. Insert(t)
      <4>1. DOMAIN split = {}
        BY <2>3
      <4>2. ~Store(t) /\ ~Cut(t) /\ ~CutAndGoOn(t)
        BY <4>1 DEF Store, Cut, CutAndGoOn
      <4>3. Begin(t) => split' = split
        BY DEF Begin, CopySplit, BeginIncrease, BeginSet, BeginRemove, BeginDeallocate, Enter
      <4> QED BY <1>5, <2>3, <4>2, <4>3 DEF Finish, CheckRoom, Find, FindNone, Panic
    <3>2. op[t].seen
      BY <2>1, <2>3, <3>1 DEF Insert, MethodsInv, Learnt
    <3>3. pc'[t] = "signal"
      BY <3>1, <3>2 DEF Insert, TypeOK
    <3> QED BY <3>3
  <2> QED BY <2>2, <2>3
<1> QED
  BY <1>1, <1>2, <1>3, <1>4, <1>5 DEF Next, Run
-----------------------------------------------------------------------------
\* The inductive invariant.
Inv == TypeOK /\ MethodsInv /\ SerialSplitSound /\ CycleCoversMiner /\ RestartNotLost

LEMMA InvInit == Init => Inv
<1> SUFFICES ASSUME Init PROVE Inv
  OBVIOUS
<1>1. MethodsInv
  BY DEF Init, MethodsInv, AllPositive, WellFormed, Learnt, Busy
<1>2. SerialSplitSound
  BY TotalEmpty DEF Init, SerialSplitSound, NoDuplicates
<1>3. CycleCoversMiner /\ RestartNotLost
  BY DEF Init, CycleCoversMiner, RestartNotLost
<1> QED
  BY <1>1, <1>2, <1>3, TypeInit DEF Inv

LEMMA InvStep == Inv /\ [Next]_vars => Inv'
BY TypeStep, MethodsStep, SoundStep, CycleStep, RestartStep DEF Inv

LEMMA Invariance == Spec => []Inv
<1> QED BY InvInit, InvStep, PTL DEF Spec

\* The state of the scheduler, of its callers and of the split keeps its types
\* (miner/on_demand_miner_scheduler.go, miner/dest_split.go).
THEOREM TypeCorrect == Spec => []TypeOK
<1>1. Inv => TypeOK
  BY DEF Inv
<1> QED BY <1>1, Invariance, PTL

\* Percentages stay positive, and as long as the calls are regular a method
\* writes to the share it found (dest_split.go:33-45, :60-80, :102-124).
THEOREM MethodsSound == Spec => []MethodsInv
<1>1. Inv => MethodsInv
  BY DEF Inv
<1> QED BY <1>1, Invariance, PTL

\* As long as the calls are regular, a miner is never divided into more than
\* the whole, no contract holds two shares, and no index is out of range
\* (dest_split.go:20, :65, :76).
THEOREM SerialSound == Spec => []SerialSplitSound
<1>1. Inv => SerialSplitSound
  BY DEF Inv
<1> QED BY <1>1, Invariance, PTL

\* Every cycle of Run adds up to the whole miner, whatever the callers did to
\* the split before or since (on_demand_miner_scheduler.go:48, :148-152).
THEOREM CycleWhole == Spec => []CycleCoversMiner
<1>1. Inv => CycleCoversMiner
  BY DEF Inv
<1> QED BY <1>1, Invariance, PTL

\* A miner that idles on the default pool is told of its first share
\* (on_demand_miner_scheduler.go:103-114).
THEOREM FirstShareAnnounced == Spec => []RestartNotLost
<1>1. Inv => RestartNotLost
  BY DEF Inv
<1> QED BY <1>1, Invariance, PTL
-----------------------------------------------------------------------------
(* The shares of one contract, in their order.                              *)

KeptUpTo(id, s) == LET kept[i \in 0..Len(s)] ==
                           IF i = 0 THEN <<>>
                           ELSE IF s[i].id = id THEN Append(kept[i - 1], s[i]) ELSE kept[i - 1]
                   IN kept
Keeps(K, id, s) ==
    /\ K[0] = <<>>
    /\ \A i \in 1..Len(s) : K[i] = IF s[i].id = id THEN Append(K[i - 1], s[i]) ELSE K[i - 1]

LEMMA KeptDef ==
  ASSUME NEW s \in Seq(ShareType), NEW id
  PROVE  SharesOf(id, s) = KeptUpTo(id, s)[Len(s)] /\ Keeps(KeptUpTo(id, s), id, s)
<1> DEFINE m == Len(s)
           V == Seq(ShareType)
           step == [x \in V \X (1..m) |-> IF s[x[2]].id = id THEN Append(x[1], s[x[2]]) ELSE x[1]]
           next(t) == [i \in 0..m |-> IF i = 0 THEN <<>>
                                      ELSE IF s[i].id = id THEN Append(t[i - 1], s[i]) ELSE t[i - 1]]
           K == KeptUpTo(id, s)
<1>1. m \in Nat /\ <<>> \in V /\ \A k \in 1..m : s[k] \in ShareType
  OBVIOUS
<1>2. ClosedOver(step, V, m)
  <2>1. \A v \in V, k \in 1..m : step[<<v, k>>] = IF s[k].id = id THEN Append(v, s[k]) ELSE v
    OBVIOUS
  <2>2. \A v \in V, k \in 1..m : Append(v, s[k]) \in V
    BY <1>1
  <2> HIDE DEF step, m, V
  <2> QED BY <2>1, <2>2 DEF ClosedOver
<1>3. \A v \in V, k \in 1..m : step[<<v, k>>] = IF s[k].id = id THEN Append(v, s[k]) ELSE v
  OBVIOUS
<1>4. PICK t : IsTrace(t, step, <<>>, V, m)
  <2> HIDE DEF step, m, V
  <2>1. PICK none : none = <<>>
    OBVIOUS
  <2> QED BY <1>1, <1>2, <2>1, TraceExists
<1>5. t \in [0..m -> V] /\ t[0] = <<>> /\ \A k \in 1..m : t[k] = step[<<t[k - 1], k>>]
  BY <1>4 DEF IsTrace
<1>6. t = next(t)
  <2>1. \A k \in 1..m : k \in 0..m /\ k - 1 \in 0..m /\ k # 0
    BY <1>1
  <2>2. \A k \in 1..m : t[k] = IF s[k].id = id THEN Append(t[k - 1], s[k]) ELSE t[k - 1]
    BY <1>3, <1>5, <2>1
  <2>3. \A k \in 0..m : k = 0 \/ k \in 1..m
    BY <1>1
  <2> HIDE DEF step, m, V
  <2> QED BY <1>5, <2>2, <2>3
<1>7. K = next(K)
  BY <1>6 DEF KeptUpTo
<1>8. SharesOf(id, s) = K[m]
  BY DEF SharesOf, KeptUpTo
<1> HIDE DEF K
<1>9. \A i \in 0..m : K[i] = IF i = 0 THEN <<>>
                             ELSE IF s[i].id = id THEN Append(K[i - 1], s[i]) ELSE K[i - 1]
  <2>1. \A i \in 0..m : next(K)[i] = IF i = 0 THEN <<>>
                                     ELSE IF s[i].id = id THEN Append(K[i - 1], s[i]) ELSE K[i - 1]
    OBVIOUS
  <2> HIDE DEF next, m
  <2> QED BY <1>7, <2>1
<1>10. 0 \in 0..m /\ \A i \in 1..m : i \in 0..m /\ i # 0
  BY <1>1
<1>11. K[0] = <<>>
  <2> HIDE DEF m
  <2> QED BY <1>9, <1>10
<1>12. \A i \in 1..m : K[i] = IF s[i].id = id THEN Append(K[i - 1], s[i]) ELSE K[i - 1]
  <2> HIDE DEF m
  <2> QED BY <1>9, <1>10
<1> QED
  BY <1>8, <1>11, <1>12 DEF Keeps, K

\* A share of another contract makes no difference: inserted in front, ...
LEMMA KeptInsert ==
  ASSUME NEW s \in Seq(ShareType), NEW x \in Contracts, NEW p \in Int, NEW id, x # id
  PROVE  SharesOf(id, insert(s, x, p)) = SharesOf(id, s)
<1> DEFINE r == insert(s, x, p)
           m == Len(s)
           K == KeptUpTo(id, s)
           U == KeptUpTo(id, r)
           H == {n \in 0..m : U[n + 1] = K[n]}
<1>1. /\ m \in Nat /\ Len(r) = m + 1 /\ r \in Seq(ShareType)
      /\ r[1].id = x /\ \A i \in 1..m : r[i + 1] = s[i]
  BY DEF insert, Share, ShareType
<1> HIDE DEF r
<1>2. /\ SharesOf(id, s) = K[m] /\ SharesOf(id, r) = U[m + 1] /\ K[0] = <<>> /\ U[0] = <<>>
      /\ \A i \in 1..m : K[i] = IF s[i].id = id THEN Append(K[i - 1], s[i]) ELSE K[i - 1]
      /\ \A i \in 1..(m + 1) : U[i] = IF r[i].id = id THEN Append(U[i - 1], r[i]) ELSE U[i - 1]
  BY <1>1, KeptDef DEF Keeps
<1> HIDE DEF K, U, m
<1>3. 0 \in H
  <2>1. 1 \in 1..(m + 1) /\ 1 - 1 = 0 /\ 0 + 1 = 1 /\ 0 \in 0..m
    BY <1>1
  <2> QED BY <1>1, <1>2, <2>1
<1>4. ASSUME NEW n \in 0..m, n \in H, n < m PROVE n + 1 \in H
  <2>1. /\ n + 1 \in 1..m /\ n + 1 \in 0..m /\ (n + 1) + 1 \in 1..(m + 1)
        /\ ((n + 1) + 1) - 1 = n + 1 /\ (n + 1) - 1 = n
    BY <1>1, <1>4
  <2>2. /\ K[n + 1] = IF s[n + 1].id = id THEN Append(K[n], s[n + 1]) ELSE K[n]
        /\ U[(n + 1) + 1] = IF r[(n + 1) + 1].id = id THEN Append(U[n + 1], r[(n + 1) + 1]) ELSE U[n + 1]
    BY <1>2, <2>1
  <2>3. r[(n + 1) + 1] = s[n + 1] /\ U[n + 1] = K[n]
    BY <1>1, <1>4, <2>1
  <2> QED BY <2>1, <2>2, <2>3
<1>5. m \in H
  <2>1. \A n \in 0..m : n \in H /\ n < m => n + 1 \in H
    BY <1>4
  <2> HIDE DEF H
  <2> QED BY <1>1, <1>3, <2>1, Induction
<1> QED
  BY <1>2, <1>5 DEF r

\* ... written over, ...
LEMMA KeptReplace ==
  ASSUME NEW s \in Seq(ShareType), NEW j \in DOMAIN s, NEW x \in ShareType, NEW id,
         s[j].id # id, x.id # id
  PROVE  SharesOf(id, [s EXCEPT ![j] = x]) = SharesOf(id, s)
<1> DEFINE r == [s EXCEPT ![j] = x]
           m == Len(s)
           K == KeptUpTo(id, s)
           U == KeptUpTo(id, r)
           H == {n \in 0..m : U[n] = K[n]}
<1>1. /\ m \in Nat /\ Len(r) = m /\ r \in Seq(ShareType)
      /\ r[j] = x /\ \A i \in 1..m : i # j => r[i] = s[i]
  OBVIOUS
<1> HIDE DEF r
<1>2. /\ SharesOf(id, s) = K[m] /\ SharesOf(id, r) = U[m] /\ K[0] = <<>> /\ U[0] = <<>>
      /\ \A i \in 1..m : K[i] = IF s[i].id = id THEN Append(K[i - 1], s[i]) ELSE K[i - 1]
      /\ \A i \in 1..m : U[i] = IF r[i].id = id THEN Append(U[i - 1], r[i]) ELSE U[i - 1]
  BY <1>1, KeptDef DEF Keeps
<1> HIDE DEF K, U, m
<1>3. 0 \in H
  BY <1>1, <1>2
<1>4. ASSUME NEW n \in 0..m, n \in H, n < m PROVE n + 1 \in H
  <2>1. n + 1 \in 1..m /\ n + 1 \in 0..m /\ (n + 1) - 1 = n
    BY <1>1, <1>4
  <2>2. /\ K[n + 1] = IF s[n + 1].id = id THEN Append(K[n], s[n + 1]) ELSE K[n]
        /\ U[n + 1] = IF r[n + 1].id = id THEN Append(U[n], r[n + 1]) ELSE U[n]
    BY <1>2, <2>1
  <2>3. r[n + 1] = s[n + 1] \/ (r[n + 1].id # id /\ s[n + 1].id # id)
    BY <1>1, <2>1
  <2> QED BY <1>4, <2>1, <2>2, <2>3
<1>5. m \in H
  <2>1. \A n \in 0..m : n \in H /\ n < m => n + 1 \in H
    BY <1>4
  <2> HIDE DEF H
  <2> QED BY <1>1, <1>3, <2>1, Induction
<1> QED
  BY <1>2, <1>5 DEF r

\* ... or cut out.
LEMMA KeptRemove ==
  ASSUME NEW s \in Seq(ShareType), NEW j \in DOMAIN s, NEW id, s[j].id # id
  PROVE  SharesOf(id, RemoveAt(s, j)) = SharesOf(id, s)
<1> DEFINE r == RemoveAt(s, j)
           k == Len(s) - 1
           K == KeptUpTo(id, s)
           U == KeptUpTo(id, r)
           H == {n \in 0..k : U[n] = IF n < j THEN K[n] ELSE K[n + 1]}
<1>1. /\ k \in Nat /\ j \in 1..(k + 1) /\ Len(s) = k + 1 /\ Len(r) = k /\ r \in Seq(ShareType)
      /\ \A i \in 1..k : r[i] = IF i < j THEN s[i] ELSE s[i + 1]
  BY SplitChanges
<1> HIDE DEF r
<1>2. /\ SharesOf(id, s) = K[k + 1] /\ SharesOf(id, r) = U[k] /\ K[0] = <<>> /\ U[0] = <<>>
      /\ \A i \in 1..(k + 1) : K[i] = IF s[i].id = id THEN Append(K[i - 1], s[i]) ELSE K[i - 1]
      /\ \A i \in 1..k : U[i] = IF r[i].id = id THEN Append(U[i - 1], r[i]) ELSE U[i - 1]
  BY <1>1, KeptDef DEF Keeps
<1> HIDE DEF K, U, k
<1>3. 0 \in H
  BY <1>1, <1>2
<1>4. ASSUME NEW n \in 0..k, n \in H, n < k PROVE n + 1 \in H
  <2>1. /\ n + 1 \in 1..k /\ n + 1 \in 0..k /\ (n + 1) - 1 = n
        /\ n + 1 \in 1..(k + 1) /\ (n + 1) + 1 \in 1..(k + 1) /\ ((n + 1) + 1) - 1 = n + 1
    BY <1>1, <1>4
  <2>2. /\ K[n + 1] = IF s[n + 1].id = id THEN Append(K[n], s[n + 1]) ELSE K[n]
        /\ K[(n + 1) + 1] = IF s[(n + 1) + 1].id = id THEN Append(K[n + 1], s[(n + 1) + 1]) ELSE K[n + 1]
        /\ U[n + 1] = IF r[n + 1].id = id THEN Append(U[n], r[n + 1]) ELSE U[n]
    BY <1>2, <2>1
  <2>3. CASE n + 1 < j
    <3>1. r[n + 1] = s[n + 1] /\ U[n] = K[n]
      BY <1>1, <1>4, <2>1, <2>3
    <3> QED BY <2>1, <2>2, <2>3, <3>1
  <2>4. CASE n + 1 = j
    <3>1. r[n + 1] = s[(n + 1) + 1] /\ U[n] = K[n] /\ K[n + 1] = K[n]
      BY <1>1, <1>4, <2>1, <2>2, <2>4
    <3> QED BY <2>1, <2>2, <2>4, <3>1
  <2>5. CASE n + 1 > j
    <3>1. r[n + 1] = s[(n + 1) + 1] /\ U[n] = K[n + 1]
      BY <1>1, <1>4, <2>1, <2>5
    <3>2. ~(n + 1 < j)
      BY <1>1, <2>1, <2>5
    <3> QED BY <2>1, <2>2, <3>1, <3>2
  <2> QED BY <1>1, <2>3, <2>4, <2>5
<1>5. k \in H
  <2>1. \A n \in 0..k : n \in H /\ n < k => n + 1 \in H
    BY <1>4
  <2> HIDE DEF H
  <2> QED BY <1>1, <1>3, <2>1, Induction
<1>6. CASE k < j
  <2>1. j = k + 1 /\ k + 1 \in 1..(k + 1) /\ (k + 1) - 1 = k /\ U[k] = K[k]
    BY <1>1, <1>5, <1>6
  <2> QED BY <1>2, <2>1 DEF r
<1>7. CASE ~(k < j)
  BY <1>2, <1>5, <1>7 DEF r
<1> QED
  BY <1>6, <1>7

\* A regular step leaves the shares of a contract alone that no method is busy with.
LEMMA OthersKept ==
  ASSUME Inv, [Next]_vars, ~irregular', NEW id \in Contracts,
         \A t \in Callers : Busy(t) => op[t].id # id
  PROVE  SharesOf(id, split') = SharesOf(id, split)
<1>0. ~irregular
  <2>1. CASE \E t \in Callers : Begin(t) \/ Finish(t)
    <3>1. PICK t \in Callers : Begin(t) \/ Finish(t)
      BY <2>1
    <3>2. CASE Begin(t)
      BY <3>2 DEF Begin, CopySplit, BeginIncrease, BeginSet, BeginRemove, BeginDeallocate, Enter
    <3>3. CASE Finish(t)
      BY <3>3 DEF Finish, CheckRoom, Insert, Find, FindNone, Store, Cut, CutAndGoOn
    <3> QED BY <3>1, <3>2, <3>3
  <2>2. CASE ~\E t \in Callers : Begin(t) \/ Finish(t)
    BY <2>2 DEF Next, Run, Panic, ForceDest, Plan, Switch, SwitchFails, TimeUp, Restart, MinerGone,
                Signal, callerVars, vars
  <2> QED BY <2>1, <2>2
<1>1. CASE UNCHANGED split
  BY <1>1
<1>2. ASSUME NEW t \in Callers, Insert(t) \/ Store(t) \/ Cut(t) \/ CutAndGoOn(t)
      PROVE  SharesOf(id, split') = SharesOf(id, split)
  <2>1. Busy(t) /\ op[t].id # id
    BY <1>2 DEF Insert, Store, Cut, CutAndGoOn, Busy
  <2>2. WellFormed(t) /\ Learnt(t) /\ split \in Seq(ShareType) /\ op[t] \in OpType
    BY <1>0 DEF Inv, MethodsInv, TypeOK
  <2>3. pc[t] \in {"insert", "write"} => op[t].id \in Contracts /\ op[t].pct \in Int
    BY <2>2 DEF WellFormed, OpType
  <2>4. CASE Insert(t)
    <3>1. op[t].id \in Contracts /\ op[t].pct \in Int /\ split' = insert(split, op[t].id, op[t].pct)
      BY <2>3, <2>4 DEF Insert
    <3> QED BY <2>1, <2>2, <3>1, KeptInsert
  <2>5. CASE Store(t)
    <3>1. PICK j \in DOMAIN split : /\ j = op[t].idx /\ split[j].id = op[t].id
                                    /\ split' = [split EXCEPT ![j] = Share(op[t].id, op[t].pct)]
      BY <2>2, <2>5 DEF Store, Learnt
    <3>2. PICK x \in ShareType : x = Share(op[t].id, op[t].pct) /\ x.id = op[t].id
      BY <2>3, <2>5 DEF Store, Share, ShareType
    <3>3. split' = [split EXCEPT ![j] = x] /\ x.id # id /\ split[j].id # id
      BY <2>1, <3>1, <3>2
    <3>4. PICK s \in Seq(ShareType) : s = split
      BY <2>2
    <3>5. j \in DOMAIN s /\ s[j].id # id
      BY <3>3, <3>4
    <3>6. SharesOf(id, [s EXCEPT ![j] = x]) = SharesOf(id, s)
      BY <3>3, <3>5, KeptReplace
    <3> QED BY <3>3, <3>4, <3>6
  <2>6. CASE Cut(t) \/ CutAndGoOn(t)
    <3>1. /\ op[t].idx \in DOMAIN split /\ split[op[t].idx].id = op[t].id
          /\ split' = RemoveAt(split, op[t].idx)
      BY <2>2, <2>6 DEF Cut, CutAndGoOn, Learnt
    <3> QED BY <2>1, <2>2, <3>1, KeptRemove
  <2> QED BY <1>2, <2>4, <2>5, <2>6
<1>3. UNCHANGED split \/ \E t \in Callers : Insert(t) \/ Store(t) \/ Cut(t) \/ CutAndGoOn(t)
  BY DEF Next, Run, Begin, CopySplit, BeginIncrease, BeginSet, BeginRemove, BeginDeallocate,
         Enter, Finish, CheckRoom, Find, FindNone, Signal, Panic,
         ForceDest, Plan, Switch, SwitchFails, TimeUp, Restart, MinerGone, callerVars, vars
<1> QED
  BY <1>1, <1>2, <1>3

\* As long as the calls are regular, a method called for one contract leaves the shares
\* of every other contract as they were, and in their order (dest_split.go:33-45, :102-124).
THEOREM OthersIsolated == Spec => SerialIsolation
<1>1. Inv /\ [Next]_vars =>
        [irregular' \/ \A id \in Contracts :
            \/ SharesOf(id, split') = SharesOf(id, split)
            \/ \E t \in Callers : Busy(t) /\ op[t].id = id]_vars
  BY OthersKept
<1> QED
  BY <1>1, Invariance, PTL DEF Spec, SerialIsolation
-----------------------------------------------------------------------------
(* The scheduler implements AtomicSplit.                                    *)

\* Where the methods that look for a share have come to, while calls are regular: at the
\* first position, or, in Deallocate, behind the one share there was.
AtFirst(t) ==
    pc[t] = "find" =>
        \/ op[t].idx = 1 /\ (op[t].kind = "deallocate" => op[t].view = split)
        \/ op[t].idx > 1 /\ op[t].kind = "deallocate" /\ Matches(t) = {}
Searches == ~irregular => \A t \in Callers : AtFirst(t)

\* In a regular step of caller t no other is busy, before or after.
LEMMA OnlyMover ==
  ASSUME Inv, NEW t \in Callers, Finish(t), ~irregular
  PROVE  /\ Busy(t) /\ Moves(t) /\ ~irregular'
         /\ \A u \in Callers \ {t} : ~Busy(u) /\ ~Busy(u)'
<1>1. Busy(t) /\ irregular' = irregular
  BY DEF Finish, CheckRoom, Insert, Find, FindNone, Store, Cut, CutAndGoOn, Busy
<1>2. Moves(t)
  BY OthersStay DEF Inv, MethodsInv
<1>3. \A u \in Callers \ {t} : ~Busy(u)
  BY <1>1, Alone DEF Inv
<1>4. \A u \in Callers \ {t} : ~Busy(u)'
  BY <1>2, <1>3 DEF Moves, Stays, Busy
<1> QED
  BY <1>1, <1>2, <1>3, <1>4

\* A contract with one share has none once that is cut out.
LEMMA CutOut ==
  ASSUME NEW s \in Seq(ShareType), NoDuplicates(s), NEW j \in DOMAIN s
  PROVE  s[j].id \notin Holders(RemoveAt(s, j))
<1> DEFINE r == RemoveAt(s, j)
<1>1. /\ r \in Seq(ShareType) /\ Len(r) = Len(s) - 1 /\ DOMAIN s = 1..Len(s) /\ Len(s) \in Nat
      /\ \A i \in 1..(Len(s) - 1) : r[i] = IF i < j THEN s[i] ELSE s[i + 1]
  BY SplitChanges
<1> HIDE DEF r
<1>2. ASSUME NEW i \in DOMAIN r PROVE r[i].id # s[j].id
  <2>1. i \in 1..(Len(s) - 1) /\ i \in DOMAIN s /\ i + 1 \in DOMAIN s
    BY <1>1
  <2>2. CASE i < j
    BY <1>1, <2>1, <2>2 DEF NoDuplicates
  <2>3. CASE ~(i < j)
    <3>1. i + 1 # j
      BY <1>1, <2>1, <2>3
    <3> QED BY <1>1, <2>1, <2>3, <3>1 DEF NoDuplicates
  <2> QED BY <2>2, <2>3
<1> QED
  BY <1>2 DEF Holders, r

LEMMA SearchesStep == Inv /\ Inv' /\ Searches /\ [Next]_vars => Searches'
<1> SUFFICES ASSUME Inv, Inv', Searches, [Next]_vars, ~irregular', NEW u \in Callers
             PROVE  AtFirst(u)'
  BY DEF Searches
<1>1. ~irregular
  BY CallerFrame DEF Next, Run, ForceDest, Plan, Switch, SwitchFails, TimeUp, Restart, MinerGone,
                     callerVars, vars
<1>2. AtFirst(u)
  BY <1>1 DEF Searches
<1>3. CASE UNCHANGED <<split, pc, op>>
  BY <1>2, <1>3 DEF AtFirst, Matches, Ranged
<1>4. ASSUME NEW t \in Callers, NEW o, NEW at, Enter(t, o, at),
             o.idx = 1, o.kind = "deallocate" => o.view = split
      PROVE  AtFirst(u)'
  <2>1. CASE u = t
    <3>1. op'[t] = o /\ split' = split
      BY <1>4 DEF Enter, Inv, TypeOK
    <3> QED BY <1>4, <2>1, <3>1 DEF AtFirst
  <2>2. CASE u # t
    <3>1. pc'[u] = pc[u] /\ op'[u] = op[u] /\ split' = split
      BY <1>4, <2>2 DEF Enter, Inv, TypeOK
    <3> QED BY <1>2, <3>1 DEF AtFirst, Matches, Ranged
  <2> QED BY <2>1, <2>2
<1>5. ASSUME NEW t \in Callers, Begin(t) PROVE AtFirst(u)'
  <2>1. CASE CopySplit(t)
    <3>1. PICK id \in Contracts, p \in Shares :
             Enter(t, [Op("allocate", id, adjustPercentage(p)) EXCEPT !.seen = split = <<>>], "check")
      BY <2>1 DEF CopySplit
    <3> DEFINE o == [Op("allocate", id, adjustPercentage(p)) EXCEPT !.seen = split = <<>>]
    <3>2. o.idx = 1 /\ o.kind = "allocate"
      BY DEF Op
    <3>3. Enter(t, o, "check")
      BY <3>1
    <3> HIDE DEF o
    <3> QED BY <1>4, <3>2, <3>3
  <2>2. CASE BeginIncrease(t) \/ BeginSet(t) \/ BeginRemove(t)
    <3>1. PICK kind \in {"increase", "set", "remove"} : \E id, p : Enter(t, Op(kind, id, p), "find")
      BY <2>2 DEF BeginIncrease, BeginSet, BeginRemove
    <3>2. PICK id, p : Enter(t, Op(kind, id, p), "find")
      BY <3>1
    <3>3. Op(kind, id, p).idx = 1 /\ Op(kind, id, p).kind = kind
      BY DEF Op
    <3> QED BY <1>4, <3>2, <3>3
  <2>3. CASE BeginDeallocate(t)
    <3>1. PICK id \in Contracts :
             Enter(t, [Op("deallocate", id, 0) EXCEPT !.view = split, !.shared = TRUE], "find")
      BY <2>3 DEF BeginDeallocate
    <3> DEFINE o == [Op("deallocate", id, 0) EXCEPT !.view = split, !.shared = TRUE]
    <3>2. o.idx = 1 /\ o.view = split
      BY DEF Op
    <3>3. Enter(t, o, "find")
      BY <3>1
    <3> HIDE DEF o
    <3> QED BY <1>4, <3>2, <3>3
  <2> QED BY <1>5, <2>1, <2>2, <2>3 DEF Begin
<1>6. ASSUME NEW t \in Callers, Finish(t) PROVE AtFirst(u)'
  <2>1. Busy(t) /\ \A v \in Callers \ {t} : ~Busy(v)'
    BY <1>1, <1>6, OnlyMover
  <2>2. CASE u # t
    <3>1. pc'[u] # "find"
      BY <2>1, <2>2 DEF Busy
    <3> QED BY <3>1 DEF AtFirst
  <2>3. CASE u = t /\ ~CutAndGoOn(t)
    <3>1. pc'[t] # "find"
      BY <1>6, <2>3 DEF Finish, CheckRoom, Insert, Find, FindNone, Store, Cut, Leave, LeaveWith,
                        Inv, TypeOK
    <3> QED BY <2>3, <3>1 DEF AtFirst
  <2>4. CASE u = t /\ CutAndGoOn(t)
    <3> DEFINE j == op[t].idx
    <3>1. /\ split' = RemoveAt(split, j) /\ j \in DOMAIN split /\ op[t].kind = "deallocate"
          /\ op' = [Written(split') EXCEPT ![t].idx = @ + 1] /\ pc[t] = "write"
          /\ pc' = [pc EXCEPT ![t] = "find"]
      BY <2>4 DEF CutAndGoOn
    <3>2. split \in Seq(ShareType) /\ split' \in Seq(ShareType) /\ op[t] \in OpType
      BY DEF Inv, TypeOK
    <3>3. /\ op'[t].kind = "deallocate" /\ op'[t].id = op[t].id /\ op'[t].idx = j + 1
      <4>1. Written(split') \in [Callers -> OpType]
        BY <3>2, WrittenTypes DEF Inv
      <4>2. op'[t] = [Written(split')[t] EXCEPT !.idx = @ + 1] /\ Written(split')[t] \in OpType
        BY <3>1, <4>1
      <4>3. /\ op'[t].kind = Written(split')[t].kind /\ op'[t].id = Written(split')[t].id
            /\ op'[t].idx = Written(split')[t].idx + 1
        BY <4>2 DEF OpType
      <4> QED BY <3>1, <4>3, WrittenKeeps DEF Inv
    <3>4. j \in Nat /\ j >= 1 /\ pc'[t] = "find"
      BY <3>1, <3>2 DEF Inv, TypeOK
    <3>5. Matches(t)' = {}
      <4>1. CASE op'[t].view = split'
        <5>1. split[j].id = op[t].id /\ NoDuplicates(split)
          BY <1>1, <3>1 DEF Inv, MethodsInv, Learnt, SerialSplitSound
        <5>2. op[t].id \notin Holders(split')
          BY <3>1, <3>2, <5>1, CutOut
        <5> QED BY <3>3, <4>1, <5>2 DEF Matches, Ranged, Holders
      <4>2. CASE op'[t].view # split'
        <5>1. Learnt(t)'
          BY DEF Inv, MethodsInv
        <5> QED BY <3>3, <3>4, <4>2, <5>1 DEF Learnt
      <4> QED BY <4>1, <4>2
    <3> QED BY <2>4, <3>3, <3>4, <3>5 DEF AtFirst
  <2> QED BY <2>2, <2>3, <2>4
<1>7. ASSUME NEW t \in Callers, Signal(t) PROVE AtFirst(u)'
  <2>1. u # t => pc'[u] = pc[u] /\ op'[u] = op[u] /\ split' = split
    BY <1>7 DEF Signal, Leave, LeaveWith, Inv, TypeOK
  <2>2. pc'[t] = "idle"
    BY <1>7 DEF Signal, Leave, LeaveWith, Inv, TypeOK
  <2> QED BY <1>2, <2>1, <2>2 DEF AtFirst, Matches, Ranged
<1> QED
  BY <1>3, <1>5, <1>6, <1>7
     DEF Next, Panic, Run, ForceDest, Plan, Switch, SwitchFails, TimeUp, Restart, MinerGone,
         callerVars, vars

\* The operations of AtomicSplit are those of DestSplit.
LEMMA SameOperations ==
  ASSUME NEW s, NEW id, NEW p
  PROVE  /\ Atomic!GetUnallocated(s) = GetUnallocated(s)
         /\ Atomic!Holders(s) = Holders(s)
         /\ Atomic!adjustPercentage(p) = adjustPercentage(p)
         /\ Atomic!insert(s, id, p) = insert(s, id, p)
         /\ Atomic!IndexFrom(s, id, 1) = IndexFrom(s, id, 1)
         /\ \A i : Atomic!RemoveAt(s, i) = RemoveAt(s, i)
         /\ \A room : Atomic!Refused(p, room) <=> Refused(p, room)
<1>1. Atomic!GetUnallocated(s) = GetUnallocated(s)
  BY DEF Atomic!GetUnallocated, Atomic!GetAllocated, GetUnallocated, GetAllocated
<1>2. Atomic!Holders(s) = Holders(s)
  BY DEF Atomic!Holders, Holders
<1>3. Atomic!adjustPercentage(p) = adjustPercentage(p)
  BY DEF Atomic!adjustPercentage, adjustPercentage
<1>4. Atomic!insert(s, id, p) = insert(s, id, p)
  BY DEF Atomic!insert, Atomic!Share, insert, Share
<1>5. Atomic!IndexFrom(s, id, 1) = IndexFrom(s, id, 1)
  BY DEF Atomic!IndexFrom, Atomic!SelectInSubSeq, Atomic!Min, IndexFrom, SelectInSubSeq, Min
<1>6. \A i : Atomic!RemoveAt(s, i) = RemoveAt(s, i)
  BY DEF Atomic!RemoveAt, RemoveAt
<1>7. \A room : Atomic!Refused(p, room) <=> Refused(p, room)
  BY DEF Atomic!Refused, Refused
<1> QED
  BY <1>1, <1>2, <1>3, <1>4, <1>5, <1>6, <1>7

\* What they make of a split in which a contract has one share, or none.
LEMMA EffectOnShare ==
  ASSUME NEW s \in Seq(ShareType), NoDuplicates(s), NEW id \in Contracts, NEW p \in Int
  PROVE  /\ \A j \in DOMAIN s : s[j].id = id =>
               /\ Atomic!IncreaseAllocation(s, id, p) = [s EXCEPT ![j] = Share(id, s[j].pct + p)]
               /\ Atomic!SetFractionByID(s, id, p) = [s EXCEPT ![j] = Share(id, p)]
               /\ Atomic!RemoveByID(s, id) = RemoveAt(s, j)
         /\ id \notin Holders(s) => Atomic!RemoveByID(s, id) = s
         /\ id \notin Holders(s) => Atomic!IncreaseAllocation(s, id, p) = s
         /\ id \notin Holders(s) => Atomic!SetFractionByID(s, id, p) = s
<1> DEFINE i == IndexFrom(s, id, 1)
<1>1. /\ id \notin Holders(s) => i = 0
      /\ id \in Holders(s) => i \in DOMAIN s /\ s[i].id = id /\ i # 0
  <2>1. s \in Splits(Contracts)
    BY WithDefault
  <2> QED BY <2>1, FirstShare
<1>2. Atomic!IndexFrom(s, id, 1) = i /\ \A k : Atomic!RemoveAt(s, k) = RemoveAt(s, k)
  BY SameOperations
<1> HIDE DEF i
<1>3. ASSUME id \notin Holders(s)
      PROVE  /\ Atomic!RemoveByID(s, id) = s
             /\ Atomic!IncreaseAllocation(s, id, p) = s
             /\ Atomic!SetFractionByID(s, id, p) = s
  BY <1>1, <1>2, <1>3
     DEF Atomic!RemoveByID, Atomic!IncreaseAllocation, Atomic!SetFractionByID
<1>4. ASSUME NEW j \in DOMAIN s, s[j].id = id
      PROVE  /\ Atomic!IncreaseAllocation(s, id, p) = [s EXCEPT ![j] = Share(id, s[j].pct + p)]
             /\ Atomic!SetFractionByID(s, id, p) = [s EXCEPT ![j] = Share(id, p)]
             /\ Atomic!RemoveByID(s, id) = RemoveAt(s, j)
  <2>1. i = j /\ i # 0
    BY <1>1, <1>4 DEF Holders, NoDuplicates
  <2>2. /\ Atomic!IncreaseAllocation(s, id, p) = [s EXCEPT ![j].pct = @ + p]
        /\ Atomic!SetFractionByID(s, id, p) = [s EXCEPT ![j].pct = p]
        /\ Atomic!RemoveByID(s, id) = RemoveAt(s, j)
    BY <1>2, <2>1 DEF Atomic!RemoveByID, Atomic!IncreaseAllocation, Atomic!SetFractionByID
  <2>3. s[j] \in ShareType
    OBVIOUS
  <2>4. \A q : [s[j] EXCEPT !.pct = q] = Share(id, q)
    BY <1>4, <2>3 DEF ShareType, Share
  <2>5. \A q : [s EXCEPT ![j].pct = q] = [s EXCEPT ![j] = Share(id, q)]
    BY <2>4
  <2>6. [s EXCEPT ![j].pct = @ + p] = [s EXCEPT ![j] = Share(id, s[j].pct + p)]
    BY <2>4
  <2> QED BY <2>2, <2>5, <2>6
<1> QED
  BY <1>3, <1>4

None == [st |-> "none"]

\* Who is busy is seen in the calls.
LEMMA CallSeen ==
  ASSUME NEW t
  PROVE  /\ CallOf(t) = None <=> ~Busy(t)
         /\ CallOf(t) = [st |-> "done"] =>
               pc[t] = "find" /\ op[t].kind = "deallocate" /\ op[t].idx > 1
<1>1. \A a, b, c : [st |-> "waiting", kind |-> a, id |-> b, pct |-> c].st = "waiting"
  OBVIOUS
<1>2. [st |-> "done"].st = "done" /\ None.st = "none"
  BY DEF None
<1> QED
  BY <1>1, <1>2 DEF CallOf, None

\* The call of the one that moves is the only one.
LEMMA CallsOfMover ==
  ASSUME Inv, NEW t \in Callers, Finish(t), ~irregular
  PROVE  /\ Calls[t] = CallOf(t) /\ Calls' = [Calls EXCEPT ![t] = CallOf(t)']
<1>1. Busy(t) /\ ~irregular' /\ \A u \in Callers \ {t} : ~Busy(u) /\ ~Busy(u)'
  BY OnlyMover
<1>2. \A u \in Callers \ {t} : CallOf(u) = None /\ CallOf(u)' = None
  BY <1>1 DEF CallOf, None
<1>3. Calls = [u \in Callers |-> CallOf(u)] /\ Calls' = [u \in Callers |-> CallOf(u)']
  BY <1>1 DEF Calls
<1> QED
  BY <1>2, <1>3

\* A caller enters a method: its call begins.
LEMMA CallBegins ==
  ASSUME Inv, NEW t \in Callers, NEW o, NEW at \in {"check", "find"}, Enter(t, o, at), o.idx = 1,
         NEW q \in Atomic!Requests,
         q = [st |-> "waiting", kind |-> o.kind, id |-> o.id, pct |-> o.pct], ~irregular
  PROVE  Atomic!Ask(t)
<1>1. /\ pc[t] = "idle" /\ pc' = [pc EXCEPT ![t] = at] /\ op' = [op EXCEPT ![t] = o]
      /\ split' = split /\ pc'[t] = at /\ op'[t] = o
      /\ \A u \in Callers \ {t} : pc'[u] = pc[u] /\ op'[u] = op[u]
      /\ irregular' = ((\E u \in Callers \ {t} : Busy(u))
                       \/ (o.kind = "allocate" /\ o.id \in Holders(split)))
  BY DEF Enter, Inv, TypeOK
<1>2. Calls = [u \in Callers |-> CallOf(u)]
  BY DEF Calls
<1>3. Calls[t] = None
  BY <1>1, <1>2 DEF CallOf, Busy, None
<1>4. (\A u \in Callers : Calls[u] = None) <=> \A u \in Callers \ {t} : ~Busy(u)
  BY <1>2, <1>3, CallSeen
<1>5. /\ q.kind = o.kind /\ q.id = o.id
  OBVIOUS
<1>6. ~irregular' <=> /\ \A u \in Callers : Calls[u] = None
                      /\ ~(q.kind = "allocate" /\ q.id \in Holders(split))
  BY <1>1, <1>4, <1>5
<1>7. ASSUME ~irregular' PROVE Calls' = [Calls EXCEPT ![t] = q]
  <2>1. \A u \in Callers \ {t} : ~Busy(u)
    BY <1>4, <1>6, <1>7
  <2>2. \A u \in Callers \ {t} : CallOf(u) = None /\ CallOf(u)' = None
    BY <1>1, <2>1 DEF CallOf, Busy, None
  <2>3. CallOf(t)' = q
    BY <1>1 DEF CallOf, Busy
  <2>4. Calls' = [u \in Callers |-> CallOf(u)']
    BY <1>7 DEF Calls
  <2> QED BY <1>2, <2>2, <2>3, <2>4
<1>8. Atomic!Holders(split) = Holders(split) /\ Atomic!NoCall = None
  BY SameOperations DEF Atomic!NoCall, None
<1> QED
  BY <1>1, <1>3, <1>6, <1>7, <1>8 DEF Atomic!Ask

LEMMA BeginsAtomic ==
  ASSUME Inv, NEW t \in Callers, Begin(t), ~irregular
  PROVE  Atomic!Ask(t)
<1>1. CASE CopySplit(t)
  <2>1. PICK id \in Contracts, p \in Shares :
           Enter(t, [Op("allocate", id, adjustPercentage(p)) EXCEPT !.seen = split = <<>>], "check")
    BY <1>1 DEF CopySplit
  <2> DEFINE o == [Op("allocate", id, adjustPercentage(p)) EXCEPT !.seen = split = <<>>]
             q == Atomic!Waiting("allocate", id, adjustPercentage(p))
  <2>2. o.idx = 1 /\ o.kind = "allocate" /\ o.id = id /\ o.pct = adjustPercentage(p)
    BY DEF Op
  <2>3. q \in Atomic!Requests
    <3>1. q = Atomic!Waiting("allocate", id, Atomic!adjustPercentage(p))
      BY SameOperations
    <3> HIDE DEF q
    <3> QED BY <3>1 DEF Atomic!Requests
  <2>4. q = [st |-> "waiting", kind |-> o.kind, id |-> o.id, pct |-> o.pct]
    BY <2>2 DEF Atomic!Waiting
  <2>5. Enter(t, o, "check")
    BY <2>1
  <2> HIDE DEF o, q
  <2> QED BY <2>2, <2>3, <2>4, <2>5, CallBegins
<1>2. ASSUME NEW kind \in {"increase", "set"}, NEW id \in Contracts, NEW p \in Shares,
             Enter(t, Op(kind, id, p), "find")
      PROVE  Atomic!Ask(t)
  <2> DEFINE o == Op(kind, id, p)
             q == Atomic!Waiting(kind, id, p)
  <2>1. o.idx = 1 /\ o.kind = kind /\ o.id = id /\ o.pct = p
    BY DEF Op
  <2>2. q \in Atomic!Requests
    BY DEF Atomic!Requests
  <2>3. q = [st |-> "waiting", kind |-> o.kind, id |-> o.id, pct |-> o.pct]
    BY <2>1 DEF Atomic!Waiting
  <2>4. Enter(t, o, "find")
    BY <1>2
  <2> HIDE DEF o, q
  <2> QED BY <2>1, <2>2, <2>3, <2>4, CallBegins
<1>3. \A i \in DOMAIN split : split[i].id \in Contracts
  <2>1. \A i \in DOMAIN split : split[i] \in ShareType
    BY DEF Inv, TypeOK
  <2> QED BY <2>1 DEF ShareType
<1>4. CASE BeginIncrease(t)
  <2>1. PICK id \in Holders(split), p \in Shares : Enter(t, Op("increase", id, p), "find")
    BY <1>4 DEF BeginIncrease
  <2>2. id \in Contracts
    BY <1>3 DEF Holders
  <2> QED BY <1>2, <2>1, <2>2
<1>5. CASE BeginSet(t)
  <2>1. PICK i \in DOMAIN split, p \in Shares : Enter(t, Op("set", split[i].id, p), "find")
    BY <1>5 DEF BeginSet
  <2> QED BY <1>2, <1>3, <2>1
<1>6. ASSUME NEW id \in Contracts, NEW o, o.idx = 1, o.kind \in {"remove", "deallocate"},
             o.id = id, o.pct = 0, Enter(t, o, "find")
      PROVE  Atomic!Ask(t)
  <2> DEFINE q == Atomic!Waiting(o.kind, id, 0)
  <2>1. q \in Atomic!Requests
    BY <1>6 DEF Atomic!Requests
  <2>2. q = [st |-> "waiting", kind |-> o.kind, id |-> o.id, pct |-> o.pct]
    BY <1>6 DEF Atomic!Waiting
  <2> HIDE DEF q
  <2> QED BY <1>6, <2>1, <2>2, CallBegins
<1>7. CASE BeginRemove(t)
  <2>1. PICK id \in Contracts : Enter(t, Op("remove", id, 0), "find")
    BY <1>7 DEF BeginRemove
  <2> DEFINE o == Op("remove", id, 0)
  <2>2. o.idx = 1 /\ o.kind = "remove" /\ o.id = id /\ o.pct = 0
    BY DEF Op
  <2> HIDE DEF o
  <2> QED BY <1>6, <2>1, <2>2 DEF o
<1>8. CASE BeginDeallocate(t)
  <2>1. PICK id \in Contracts :
           Enter(t, [Op("deallocate", id, 0) EXCEPT !.view = split, !.shared = TRUE], "find")
    BY <1>8 DEF BeginDeallocate
  <2> DEFINE o == [Op("deallocate", id, 0) EXCEPT !.view = split, !.shared = TRUE]
  <2>2. o.idx = 1 /\ o.kind = "deallocate" /\ o.id = id /\ o.pct = 0
    BY DEF Op
  <2>3. Enter(t, o, "find")
    BY <2>1
  <2> HIDE DEF o
  <2> QED BY <1>6, <2>2, <2>3
<1> QED
  BY <1>1, <1>4, <1>5, <1>7, <1>8 DEF Begin

\* A caller goes on: its call waits, takes effect or returns.
LEMMA FinishesAtomic ==
  ASSUME Inv, Searches, NEW t \in Callers, Finish(t), ~irregular
  PROVE  Atomic!Take(t) \/ Atomic!Return(t) \/ UNCHANGED Atomic!splitVars
<1>1. /\ Busy(t) /\ ~irregular' /\ WellFormed(t) /\ Learnt(t) /\ AtFirst(t)
      /\ split \in Seq(ShareType) /\ op[t] \in OpType /\ NoDuplicates(split)
      /\ Calls[t] = CallOf(t) /\ Calls' = [Calls EXCEPT ![t] = CallOf(t)']
  BY OnlyMover, CallsOfMover DEF Inv, MethodsInv, TypeOK, Searches, SerialSplitSound
<1>2. op[t].pct \in Int /\ op[t].idx \in Nat
  BY <1>1 DEF OpType
<1> DEFINE o == [st |-> "waiting", kind |-> op[t].kind, id |-> op[t].id,
                 pct |-> IF pc[t] = "write" /\ op[t].kind = "increase"
                         THEN op[t].pct - split[op[t].idx].pct ELSE op[t].pct]
<1>3. /\ o.st = "waiting" /\ o.kind = op[t].kind /\ o.id = op[t].id
      /\ ~(pc[t] = "write" /\ op[t].kind = "increase") => o.pct = op[t].pct
      /\ pc[t] = "write" /\ op[t].kind = "increase" => o.pct = op[t].pct - split[op[t].idx].pct
  OBVIOUS
<1>4. ~(pc[t] = "find" /\ op[t].kind = "deallocate" /\ op[t].idx > 1) => CallOf(t) = o
  BY <1>1 DEF CallOf
<1> HIDE DEF o
<1>5. ASSUME CallOf(t) = o, split' = Atomic!Effect(o, split),
             CallOf(t)' \in {None, [st |-> "done"]}
      PROVE  Atomic!Take(t)
  BY <1>1, <1>3, <1>5 DEF Atomic!Take, Atomic!Done, Atomic!NoCall, None
<1>6. CallOf(t)' = CallOf(t) /\ split' = split => UNCHANGED Atomic!splitVars
  <2>1. Calls \in [Callers -> {CallOf(u) : u \in Callers}]
    BY <1>1 DEF Inv, MethodsInv, Calls
  <2> QED BY <1>1, <2>1 DEF Atomic!splitVars
<1>7. ASSUME NEW ops, LeaveWith(t, ops) \/ pc' = [pc EXCEPT ![t] = "signal"]
      PROVE  CallOf(t)' = None
  <2>1. pc'[t] \in {"idle", "signal"}
    BY <1>7 DEF LeaveWith, Inv, TypeOK
  <2> QED BY <2>1 DEF CallOf, Busy, None
<1>8. GetUnallocated(split) \in Int /\ GetUnallocated(split) <= Whole
  <2>1. split \in Splits(Contracts) /\ AllPositive(split)
    BY <1>1, WithDefault DEF Inv, MethodsInv
  <2>2. GetAllocated(split) \in Int /\ GetAllocated(split) >= 0
    BY <2>1, TotalInt, TotalNonNegative
  <2> QED BY <2>2 DEF GetUnallocated
<1>9. ASSUME o.kind = "allocate", CallOf(t) = o
      PROVE  Atomic!Effect(o, split) = IF Refused(o.pct, GetUnallocated(split)) THEN split
                                       ELSE insert(split, o.id, o.pct)
  BY <1>9, SameOperations DEF Atomic!Effect
<1>10. CASE CheckRoom(t)
  <2>1. /\ pc[t] = "check" /\ op[t].kind = "allocate" /\ split' = split
        /\ o.pct = op[t].pct /\ CallOf(t) = o
    BY <1>1, <1>3, <1>4, <1>10 DEF CheckRoom, WellFormed
  <2>2. CASE Refused(op[t].pct, GetUnallocated(split)) /\ Leave(t)
    BY <1>3, <1>5, <1>7, <1>9, <2>1, <2>2 DEF Leave
  <2>3. CASE pc' = [pc EXCEPT ![t] = "insert"] /\ op' = op
    <3>1. pc'[t] = "insert"
      BY <2>3 DEF Inv, TypeOK
    <3>2. CallOf(t)' = CallOf(t)
      BY <2>1, <2>3, <3>1 DEF CallOf, Busy
    <3> QED BY <1>6, <2>1, <3>2
  <2> QED BY <1>10, <2>2, <2>3 DEF CheckRoom
<1>11. CASE Insert(t)
  <2>1. /\ pc[t] = "insert" /\ op[t].kind = "allocate" /\ op[t].pct > 0
        /\ op[t].pct <= GetUnallocated(split) /\ split' = insert(split, op[t].id, op[t].pct)
        /\ o.pct = op[t].pct /\ CallOf(t) = o
    BY <1>1, <1>3, <1>4, <1>11 DEF Insert, WellFormed, Learnt
  <2>2. ~Refused(op[t].pct, GetUnallocated(split))
    BY <1>2, <1>8, <2>1 DEF Refused
  <2>3. CallOf(t)' = None
    BY <1>7, <1>11 DEF Insert
  <2> QED BY <1>3, <1>5, <1>9, <2>1, <2>2, <2>3
<1>12. CASE Find(t)
  <2>1. PICK i \in Matches(t) :
           op' = [op EXCEPT ![t].idx = i,
                            ![t].pct = IF op[t].kind = "increase"
                                       THEN split[i].pct + op[t].pct ELSE @]
    BY <1>12 DEF Find
  <2>2. pc[t] = "find" /\ pc'[t] = "write" /\ split' = split
    BY <1>12 DEF Find, Inv, TypeOK
  <2>3. /\ op'[t].kind = op[t].kind /\ op'[t].id = op[t].id /\ op'[t].idx = i
        /\ op[t].kind = "increase" => op'[t].pct = split[i].pct + op[t].pct
        /\ op[t].kind # "increase" => op'[t].pct = op[t].pct
    BY <1>1, <2>1 DEF Inv, TypeOK, OpType
  <2>4. op[t].idx = 1 /\ CallOf(t) = o /\ o.pct = op[t].pct
    BY <1>1, <1>3, <1>4, <2>2 DEF AtFirst
  <2>5. op[t].kind = "increase" => op'[t].pct - split[i].pct = op[t].pct
    <3>1. op[t].kind = "increase" => split[i] \in ShareType
      BY <1>1 DEF Matches, Ranged
    <3> QED BY <1>2, <2>3, <3>1 DEF ShareType
  <2>6. CallOf(t)' = [st |-> "waiting", kind |-> op[t].kind, id |-> op[t].id, pct |-> op[t].pct]
    BY <2>2, <2>3, <2>5 DEF CallOf, Busy
  <2>7. CallOf(t) = [st |-> "waiting", kind |-> op[t].kind, id |-> op[t].id, pct |-> op[t].pct]
    BY <1>1, <2>2, <2>4 DEF CallOf
  <2> QED BY <1>6, <2>2, <2>6, <2>7
<1>13. CASE FindNone(t)
  <2>1. /\ pc[t] = "find" /\ split' = split /\ CallOf(t)' = None /\ Matches(t) = {}
        /\ op[t].kind \in {"increase", "set", "remove", "deallocate"} /\ op[t].id \in Contracts
    BY <1>1, <1>7, <1>13 DEF FindNone, Leave, WellFormed
  <2>2. CASE op[t].idx = 1
    <3>1. Ranged(t) = split
      BY <1>1, <2>1, <2>2 DEF AtFirst, Ranged
    <3>2. \A i \in DOMAIN split : i >= 1
      BY <1>1
    <3>3. op[t].id \notin Holders(split)
      BY <2>1, <2>2, <3>1, <3>2 DEF Matches, Holders
    <3>4. CallOf(t) = o /\ o.pct = op[t].pct
      BY <1>3, <1>4, <2>1, <2>2
    <3>5. Atomic!Effect(o, split) = split
      BY <1>1, <1>2, <1>3, <2>1, <3>3, <3>4, EffectOnShare DEF Atomic!Effect
    <3> QED BY <1>5, <2>1, <3>4, <3>5
  <2>3. CASE op[t].idx # 1
    <3>1. CallOf(t) = [st |-> "done"]
      BY <1>1, <2>1, <2>3 DEF CallOf, AtFirst
    <3> QED BY <1>1, <2>1, <3>1 DEF Atomic!Return, Atomic!Done, Atomic!NoCall, None
  <2> QED BY <2>2, <2>3
<1>14. ASSUME pc[t] = "write" PROVE op[t].idx \in DOMAIN split /\ split[op[t].idx].id = op[t].id
                                    /\ op[t].id \in Contracts /\ CallOf(t) = o
  BY <1>1, <1>4, <1>14 DEF Learnt, WellFormed
<1>15. CASE Store(t)
  <2>1. /\ pc[t] = "write" /\ op[t].kind \in {"increase", "set"} /\ CallOf(t)' = None
        /\ split' = [split EXCEPT ![op[t].idx] = Share(op[t].id, op[t].pct)]
    BY <1>7, <1>15 DEF Store
  <2>2. split[op[t].idx].pct \in Int
    <3>1. split[op[t].idx] \in ShareType
      BY <1>1, <1>14, <2>1
    <3> QED BY <3>1 DEF ShareType
  <2>3. o.pct \in Int /\ (op[t].kind = "increase" => split[op[t].idx].pct + o.pct = op[t].pct)
    BY <1>2, <1>3, <2>1, <2>2
  <2>4. /\ Atomic!IncreaseAllocation(split, op[t].id, o.pct)
             = [split EXCEPT ![op[t].idx] = Share(op[t].id, split[op[t].idx].pct + o.pct)]
        /\ Atomic!SetFractionByID(split, op[t].id, o.pct)
             = [split EXCEPT ![op[t].idx] = Share(op[t].id, o.pct)]
    <3> DEFINE j == op[t].idx
               id == op[t].id
    <3>1. j \in DOMAIN split /\ split[j].id = id /\ id \in Contracts
      BY <1>14, <2>1
    <3> HIDE DEF j, id
    <3>3. /\ \A p \in Int : Atomic!IncreaseAllocation(split, id, p)
                            = [split EXCEPT ![j] = Share(id, split[j].pct + p)]
          /\ \A p \in Int : Atomic!SetFractionByID(split, id, p) = [split EXCEPT ![j] = Share(id, p)]
      <4>1. split \in Seq(ShareType) /\ NoDuplicates(split)
        BY <1>1
      <4> QED BY <3>1, <4>1, EffectOnShare
    <3>2. /\ Atomic!IncreaseAllocation(split, id, o.pct)
               = [split EXCEPT ![j] = Share(id, split[j].pct + o.pct)]
          /\ Atomic!SetFractionByID(split, id, o.pct) = [split EXCEPT ![j] = Share(id, o.pct)]
      BY <2>3, <3>3
    <3> QED BY <3>2 DEF j, id
  <2>5. op[t].kind = "set" => o.pct = op[t].pct
    BY <1>3, <2>1
  <2>6. CASE op[t].kind = "increase"
    <3>1. Atomic!Effect(o, split) = Atomic!IncreaseAllocation(split, op[t].id, o.pct)
      BY <1>3, <2>6 DEF Atomic!Effect
    <3> QED BY <1>5, <1>14, <2>1, <2>3, <2>4, <2>6, <3>1
  <2>7. CASE op[t].kind = "set"
    <3>1. Atomic!Effect(o, split) = Atomic!SetFractionByID(split, op[t].id, o.pct)
      BY <1>3, <2>7 DEF Atomic!Effect
    <3> QED BY <1>5, <1>14, <2>1, <2>4, <2>5, <2>7, <3>1
  <2> QED BY <2>1, <2>6, <2>7
<1>16. CASE Cut(t) \/ CutAndGoOn(t)
  <2>1. /\ pc[t] = "write" /\ op[t].kind \in {"remove", "deallocate"}
        /\ split' = RemoveAt(split, op[t].idx)
    BY <1>16 DEF Cut, CutAndGoOn
  <2>2. split' = Atomic!Effect(o, split)
    BY <1>1, <1>3, <1>14, <2>1, EffectOnShare DEF Atomic!Effect
  <2>3. CASE Cut(t)
    <3>1. CallOf(t)' = None
      BY <1>7, <2>3 DEF Cut
    <3> QED BY <1>5, <1>14, <2>1, <2>2, <3>1
  <2>4. CASE CutAndGoOn(t)
    <3>1. /\ op[t].kind = "deallocate" /\ pc'[t] = "find"
          /\ op' = [Written(split') EXCEPT ![t].idx = @ + 1]
      BY <2>4 DEF CutAndGoOn, Inv, TypeOK
    <3>2. Written(split')[t] \in OpType /\ Written(split') \in [Callers -> OpType]
      BY <1>1, <1>14, <2>1, SplitChanges, WrittenTypes DEF Inv
    <3>3. op'[t].kind = Written(split')[t].kind /\ op'[t].idx = Written(split')[t].idx + 1
      BY <3>1, <3>2 DEF OpType
    <3>4. op'[t].kind = "deallocate" /\ op'[t].idx = op[t].idx + 1
      BY <3>1, <3>3, WrittenKeeps DEF Inv
    <3>5. op[t].idx >= 1
      BY <1>1, <1>14, <2>1
    <3>6. CallOf(t)' = [st |-> "done"]
      BY <1>2, <3>1, <3>4, <3>5 DEF CallOf, Busy
    <3> QED BY <1>5, <1>14, <2>1, <2>2, <3>6
  <2> QED BY <1>16, <2>3, <2>4
<1> QED
  BY <1>10, <1>11, <1>12, <1>13, <1>15, <1>16 DEF Finish

\* Each step is a step of AtomicSplit or leaves its state alone.
LEMMA StepsAtomic == Inv /\ Searches /\ [Next]_vars => [Atomic!SplitNext]_(Atomic!splitVars)
<1> SUFFICES ASSUME Inv, Searches, [Next]_vars
             PROVE  [Atomic!SplitNext]_(Atomic!splitVars)
  OBVIOUS
<1>1. irregular => irregular'
  BY CallerFrame DEF Next, Run, ForceDest, Plan, Switch, SwitchFails, TimeUp, Restart, MinerGone,
                     callerVars, vars
<1>2. CASE irregular
  BY <1>1, <1>2 DEF Atomic!SplitNext, Atomic!Unpromised
<1>3. CASE ~irregular
  <2>1. CASE UNCHANGED <<split, pc, op, irregular>>
    BY <2>1 DEF Atomic!splitVars, Calls, CallOf, Busy
  <2>2. ASSUME NEW t \in Callers, Signal(t) PROVE UNCHANGED Atomic!splitVars
    <3>1. /\ split' = split /\ irregular' = irregular /\ ~Busy(t) /\ ~Busy(t)'
          /\ \A u \in Callers \ {t} : pc'[u] = pc[u] /\ op'[u] = op[u]
      BY <2>2 DEF Signal, Leave, LeaveWith, Busy, Inv, TypeOK
    <3>2. \A u \in Callers : CallOf(u)' = CallOf(u)
      BY <3>1 DEF CallOf, Busy
    <3> QED BY <3>1, <3>2 DEF Atomic!splitVars, Calls
  <2>3. ASSUME NEW t \in Callers, Begin(t) \/ Finish(t) PROVE [Atomic!SplitNext]_(Atomic!splitVars)
    BY <1>3, <2>3, BeginsAtomic, FinishesAtomic DEF Atomic!SplitNext
  <2> QED
    BY <2>1, <2>2, <2>3
       DEF Next, Panic, Run, ForceDest, Plan, Switch, SwitchFails, TimeUp, Restart, MinerGone,
           callerVars, vars
<1> QED
  BY <1>2, <1>3

\* As long as two methods are not under way at once, each is one operation on the split as
\* it is at one moment of the call, although it searches, computes and writes in steps of
\* its own and half of it holds no lock (dest_split.go:33-45, :60-80, :102-124).
THEOREM MethodsAreAtomic == Spec => ImplementsAtomicSplit
<1>1. Init => Searches /\ Atomic!SplitInit
  BY DEF Init, Searches, AtFirst, Atomic!SplitInit, Calls, CallOf, Busy, Atomic!NoCall
<1>2. Searches /\ UNCHANGED vars => Searches'
  BY DEF Searches, AtFirst, Matches, Ranged, vars
<1>3. Spec => []Searches
  BY <1>1, <1>2, Invariance, SearchesStep, PTL DEF Spec
<1> QED
  BY <1>1, <1>3, Invariance, StepsAtomic, PTL DEF Spec, ImplementsAtomicSplit, Atomic!SplitSpec
=============================================================================
