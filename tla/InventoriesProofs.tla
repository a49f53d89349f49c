------------------------- MODULE InventoriesProofs -------------------------
(***************************************************************************)
(* Proofs about Inventories, for any number of slots, items and actions:   *)
(* no stack is larger than its kind stacks, the client's copy of the       *)
(* player's inventory ends up as the server's, no item is made or lost,    *)
(* the limits of a chest hold, and the rollback log gives a chest back.    *)
(***************************************************************************)
EXTENDS Inventories, Loops, FiniteSetTheorems, SequenceTheorems, TLAPS

Slot == Stack \cup {Empty}

\* What the server and the client have, and what is between them.
Typed ==
    /\ inv \in [Slots -> Slot]
    /\ local \in [Mine -> Slot]
    /\ from_server \in [Mine -> Slot]
    /\ not_sent \in BOOLEAN
    /\ actions \in Seq(Action)
    /\ inventories \in Seq([Mine -> Slot])

-----------------------------------------------------------------------------
(* Facts about the operators. *)

\* The lists have names of their own.
LEMMA SlotFacts ==
    /\ Mine \subseteq Slots
    /\ Chest \subseteq Slots
    /\ Kept \subseteq Slots
    /\ Mine \cap Chest = {}
    /\ Slots = Mine \cup Chest
    /\ Craft \in Mine /\ CraftResult \in Mine /\ CraftPreview \in Mine
    /\ Craft # CraftPreview
    /\ CraftPreview \notin Kept
    /\ \A j \in Chest : \A k : <<j[1], k>> \notin Mine
    /\ \A j \in Mine : \A k : <<j[1], k>> \notin Chest
  BY DEF Mine, Slots, Chest, Kept, Main, Craft, CraftResult, CraftPreview

LEMMA StackFacts ==
    /\ stack_max \in Nat \ {0}
    /\ Empty \in Slot
    /\ \A st \in Slot :
           /\ st.count \in 0 .. stack_max
           /\ st.name \in Items \cup {NoName}
           /\ st.count # 0 \/ st = Empty
           /\ st \in Stack \/ st = Empty
  <1>1. stack_max \in Nat \ {0} /\ Empty \in Slot
    BY InventoriesConstants DEF Slot
  <1>2. ASSUME NEW st \in Stack
        PROVE  st.count \in 1 .. stack_max /\ st.name \in Items
    BY DEF Stack
  <1>3. Empty.count = 0 /\ Empty.name = NoName
    BY DEF Empty
  <1>4. ASSUME NEW st \in Slot
        PROVE  /\ st.count \in 0 .. stack_max
               /\ st.name \in Items \cup {NoName}
               /\ st.count # 0 \/ st = Empty
               /\ st \in Stack \/ st = Empty
    <2>1. CASE st = Empty
      BY <1>1, <1>3, <2>1
    <2>2. CASE st \in Stack
      BY <1>1, <1>2, <2>2
    <2> QED BY <2>1, <2>2 DEF Slot
  <1> QED BY <1>1, <1>4

\* Some of a stack, n of them.
LEMMA OfIsSlot ==
    ASSUME NEW st \in Slot, NEW n \in 0 .. st.count
    PROVE  Of(st, n) \in Slot /\ Of(st, n).count = n
  <1>1. CASE n = 0
    BY <1>1 DEF Of, Slot, Empty
  <1>2. CASE n # 0
    <2>1. st.count # 0
      BY <1>2, StackFacts
    <2>2. st \in Stack /\ n \in 1 .. stack_max
      BY <1>2, <2>1, StackFacts DEF Empty
    <2>3. [st EXCEPT !.count = n] \in Stack
          /\ [st EXCEPT !.count = n].count = n
      BY <2>2 DEF Stack
    <2> QED BY <1>2, <2>3 DEF Of, Slot
  <1> QED BY <1>1, <1>2

LEMMA LeftIsSlot ==
    ASSUME NEW st \in Slot, NEW n \in Nat
    PROVE  Left(st, n) \in Slot /\ Taken(st, n) \in Slot
  <1>1. AtMost(n, st.count) \in 0 .. st.count
    BY StackFacts DEF AtMost
  <1>2. st.count - AtMost(n, st.count) \in 0 .. st.count
    BY <1>1, StackFacts
  <1> QED BY <1>1, <1>2, OfIsSlot DEF Left, Taken

\* addItem never makes a stack too large.
LEMMA AddedIsSlot ==
    ASSUME NEW st \in Slot, NEW new \in Slot
    PROVE  Added(st, new) \in Slot /\ Rest(st, new) \in Slot
  <1>1. Room(st, new) \in 0 .. new.count
    BY StackFacts DEF Room, AtMost
  <1>2. new.count - Room(st, new) \in 0 .. new.count
    BY <1>1, StackFacts
  <1>3. Rest(st, new) \in Slot
    BY <1>2, OfIsSlot DEF Rest
  <1>4. CASE st = Empty
    BY <1>3, <1>4 DEF Added
  <1>5. CASE st # Empty
    <2>1. st \in Stack
      BY <1>5, StackFacts
    <2>2. st.count + Room(st, new) \in 1 .. stack_max
      BY <1>5, <2>1, StackFacts DEF Room, AtMost, Stack
    <2> QED BY <1>5, <2>1, <2>2, <1>3 DEF Added, Of, Slot, Stack
  <1> QED BY <1>3, <1>4, <1>5

\* A move changes two slots, within their limits.
LEMMA MoveItemType ==
    ASSUME NEW S, NEW f \in [S -> Slot], NEW i \in S, NEW j \in S, NEW n \in Nat
    PROVE  /\ MoveItem(f, i, j, n) \in [S -> Slot]
           /\ \A s \in S \ {i, j} : MoveItem(f, i, j, n)[s] = f[s]
  <1> DEFINE item == IF n = 0 THEN f[i] ELSE Taken(f[i], n)
             left == IF n = 0 THEN Empty ELSE Left(f[i], n)
             rest == Rest(f[j], item)
  <1>1. item \in Slot /\ left \in Slot
    BY LeftIsSlot DEF Slot
  <1>2. rest \in Slot /\ Added(f[j], item) \in Slot
    BY <1>1, AddedIsSlot
  <1>3. Added(left, rest) \in Slot
    BY <1>1, <1>2, AddedIsSlot
  <1> HIDE DEF item, left, rest
  <1>4. MoveItem(f, i, j, n) =
           IF i = j \/ item = Empty THEN f
           ELSE IF rest = item THEN [f EXCEPT ![i] = f[j], ![j] = f[i]]
           ELSE [f EXCEPT ![j] = Added(f[j], item),
                          ![i] = IF rest = Empty THEN left
                                                 ELSE Added(left, rest)]
    BY DEF MoveItem, item, left, rest
  <1> QED BY <1>1, <1>2, <1>3, <1>4

\* Resetting an infinite source changes it and one more slot of the other list.
LEMMA ResetSourceType ==
    ASSUME inv \in [Slots -> Slot], NEW f \in [Slots -> Slot],
           NEW i \in Slots, NEW j \in Slots
    PROVE  /\ ResetSource(f, i, j) \in [Slots -> Slot]
           /\ {i, j} \subseteq Chest =>
                  \A s \in Mine : ResetSource(f, i, j)[s] = f[s]
  <1> DEFINE free == {k \in 1 .. MainSize + ChestSize + OtherSize :
                          <<j[1], k>> \in Slots /\ f[<<j[1], k>>] = Empty}
             k == <<j[1], Min(free)>>
             g == IF inv[i].name = inv[j].name \/ free = {} THEN f
                  ELSE [f EXCEPT ![k] = inv[j]]
  <1>1. g \in [Slots -> Slot]
    OBVIOUS
  <1>2. {i, j} \subseteq Chest => k \notin Mine /\ i \notin Mine
    BY SlotFacts
  <1>3. ResetSource(f, i, j) = [g EXCEPT ![i] = inv[i]]
    BY DEF ResetSource
  <1> HIDE DEF k, free
  <1> QED BY <1>1, <1>2, <1>3, SlotFacts

\* A move leaves the player's slots alone unless it is to or from one.
LEMMA ApplyMoveType ==
    ASSUME inv \in [Slots -> Slot], NEW i \in Slots, NEW j \in Slots,
           NEW n \in Nat, NEW take, NEW put
    PROVE  /\ ApplyMove(i, j, n, take, put) \in [Slots -> Slot]
           /\ {i, j} \subseteq Chest =>
                  \A s \in Mine : ApplyMove(i, j, n, take, put)[s] = inv[s]
  <1> DEFINE moved == MoveItem(inv, i, j, n)
             f == IF take = Infinite THEN ResetSource(moved, i, j) ELSE moved
  <1>1. /\ moved \in [Slots -> Slot]
        /\ \A s \in Slots \ {i, j} : moved[s] = inv[s]
    BY MoveItemType
  <1> HIDE DEF moved
  <1>2. /\ f \in [Slots -> Slot]
        /\ {i, j} \subseteq Chest => \A s \in Mine : f[s] = inv[s]
    <2>1. {i, j} \subseteq Chest => \A s \in Mine : moved[s] = inv[s]
      BY <1>1, SlotFacts
    <2>2. /\ ResetSource(moved, i, j) \in [Slots -> Slot]
          /\ {i, j} \subseteq Chest =>
                 \A s \in Mine : ResetSource(moved, i, j)[s] = moved[s]
      BY <1>1, ResetSourceType
    <2> QED BY <1>1, <2>1, <2>2
  <1> HIDE DEF f
  <1>3. /\ ResetDestination(f, i, j, n) \in [Slots -> Slot]
        /\ {i, j} \subseteq Chest =>
               \A s \in Mine : ResetDestination(f, i, j, n)[s] = inv[s]
    BY <1>2, LeftIsSlot, SlotFacts DEF ResetDestination
  <1>4. ApplyMove(i, j, n, take, put) =
           IF put = Infinite THEN ResetDestination(f, i, j, n) ELSE f
    BY DEF ApplyMove, f, moved
  <1> QED BY <1>2, <1>3, <1>4

\* What is crafted is one item, or nothing.
LEMMA CraftingResultIsSlot == \A st : CraftingResult(st) \in Slot
  BY InventoriesConstants, StackFacts DEF CraftingResult, Slot, Stack

LEMMA SeqFacts ==
    ASSUME NEW S
    PROVE  /\ <<>> \in Seq(S)
           /\ \A q \in Seq(S), x \in S :
                  /\ Append(q, x) \in Seq(S) /\ Append(q, x) # <<>>
                  /\ Append(q, x)[Len(Append(q, x))] = x
           /\ \A q \in Seq(S) : q # <<>> =>
                  /\ Head(q) \in S /\ Tail(q) \in Seq(S)
                  /\ Tail(q) = <<>> => Head(q) = q[Len(q)]
                  /\ Tail(q) # <<>> => Tail(q)[Len(Tail(q))] = q[Len(q)]
  <1>1. <<>> \in Seq(S)
    OBVIOUS
  <1>2. ASSUME NEW q \in Seq(S), NEW x \in S
        PROVE  /\ Append(q, x) \in Seq(S) /\ Append(q, x) # <<>>
               /\ Append(q, x)[Len(Append(q, x))] = x
    OBVIOUS
  <1>3. ASSUME NEW q \in Seq(S), q # <<>>
        PROVE  /\ Head(q) \in S /\ Tail(q) \in Seq(S)
               /\ Tail(q) = <<>> => Head(q) = q[Len(q)]
               /\ Tail(q) # <<>> => Tail(q)[Len(Tail(q))] = q[Len(q)]
    <2>1. /\ Head(q) = q[1] /\ Len(q) \in Nat \ {0}
          /\ Tail(q) \in Seq(S) /\ Len(Tail(q)) = Len(q) - 1
          /\ \A k \in 1 .. Len(q) - 1 : Tail(q)[k] = q[k + 1]
      BY <1>3
    <2>2. Head(q) \in S /\ Tail(q) \in Seq(S)
      BY <1>3
    <2>3. Tail(q) = <<>> <=> Len(q) = 1
      BY <1>3, <2>1
    <2>4. Len(q) # 1 => Tail(q)[Len(q) - 1] = q[Len(q)]
      <3>1. Len(q) # 1 => Len(q) - 1 \in 1 .. Len(q) - 1
        BY <2>1
      <3>2. Len(q) - 1 + 1 = Len(q)
        BY <2>1
      <3> QED BY <2>1, <3>1, <3>2
    <2> QED BY <2>1, <2>2, <2>3, <2>4
  <1> QED BY <1>1, <1>2, <1>3

\* An action names slots, and the first one is an action.
LEMMA FirstAction ==
    ASSUME actions \in Seq(Action), actions # <<>>
    PROVE  /\ Head(actions) \in Action
           /\ Tail(actions) \in Seq(Action)
           /\ Len(Tail(actions)) = Len(actions) - 1
           /\ \A k \in 1 .. Len(Tail(actions)) :
                  /\ k + 1 \in 1 .. Len(actions)
                  /\ Tail(actions)[k] = actions[k + 1]
           /\ 1 \in 1 .. Len(actions) /\ actions[1] = Head(actions)
  OBVIOUS

-----------------------------------------------------------------------------
(* The server's steps. *)

(***************************************************************************)
(* What a step that takes an action of the player does to what the proofs  *)
(* look at: it changes the player's slots only if it marks the inventory   *)
(* as not sent.                                                            *)
(***************************************************************************)
TakesAction ==
    /\ inv' \in [Slots -> Slot]
    /\ not_sent' \in BOOLEAN
    /\ actions # <<>>
    /\ actions' = Tail(actions)
    /\ not_sent => not_sent'
    /\ SlotsOf(Head(actions)) \cap Mine # {} => not_sent'
    /\ ~not_sent' => \A s \in Mine : inv'[s] = inv[s]
    /\ UNCHANGED <<inventories, clientVars>>

LEMMA ReceiveTakes ==
    ASSUME Typed, NEW type, NEW interact, Receive(type, interact),
           inv' \in [Slots -> Slot],
           SlotsOf(Head(actions)) \cap Mine = {} =>
               \A s \in Mine : inv'[s] = inv[s]
    PROVE  TakesAction
  BY DEF Typed, Receive, Mark, TakesAction

LEMMA RefuseTakes ==
    ASSUME Typed, NEW interact \in BOOLEAN, Refuse(interact) PROVE TakesAction
  <1>1. PICK type : Receive(type, interact)
    BY DEF Refuse
  <1> QED BY <1>1, ReceiveTakes DEF Refuse, Typed

LEMMA MoveTakes ==
    ASSUME Typed, NEW interact \in BOOLEAN, NEW emptied \in BOOLEAN,
           NEW take \in Answers, NEW put \in Answers,
           ReceiveMove(interact, take, put, emptied)
    PROVE  TakesAction
  <1> DEFINE a == Head(actions)
             i == a.from
             j == a.to
             asked == IF a.count = 0 THEN inv[i].count ELSE a.count
             n == Allowed(asked, take, put, IF emptied THEN 0 ELSE inv[i].count)
  <1>1. Receive("move", interact) /\ a.type = "move" /\ a \in Action
    BY FirstAction DEF ReceiveMove, Receive, Typed
  <1>2. i \in Kept /\ j \in Kept /\ a.count \in Nat
    BY <1>1 DEF Action, Counts
  <1>3. i \in Slots /\ j \in Slots /\ inv[i] \in Slot
    BY <1>2, SlotFacts DEF Typed
  <1>4. n \in Nat
    BY <1>2, <1>3, StackFacts DEF Allowed, AtMost, Answers, Infinite, NoLimit
  <1>5. SlotsOf(a) = {i, j}
    BY <1>1 DEF SlotsOf
  <1>6. \/ inv' = inv
        \/ inv' = [inv EXCEPT ![i] = Empty]
        \/ inv' = ApplyMove(i, j, n, take, put)
    BY DEF ReceiveMove
  <1> HIDE DEF n, i, j
  <1>7. /\ inv' \in [Slots -> Slot]
        /\ {i, j} \subseteq Chest => \A s \in Mine : inv'[s] = inv[s]
    <2>1. CASE inv' = inv
      BY <2>1 DEF Typed
    <2>2. CASE inv' = [inv EXCEPT ![i] = Empty]
      BY <1>3, <2>2, StackFacts, SlotFacts DEF Typed
    <2>3. CASE inv' = ApplyMove(i, j, n, take, put)
      BY <1>3, <1>4, <2>3, ApplyMoveType DEF Typed
    <2> QED BY <1>6, <2>1, <2>2, <2>3
  <1>8. {i, j} \cap Mine = {} => {i, j} \subseteq Chest
    BY <1>3, SlotFacts
  <1> QED BY <1>1, <1>5, <1>7, <1>8, ReceiveTakes

LEMMA DropTakes ==
    ASSUME Typed, NEW interact \in BOOLEAN, NEW take \in Answers,
           NEW dropped \in 0 .. stack_max, ReceiveDrop(interact, take, dropped)
    PROVE  TakesAction
  <1> DEFINE a == Head(actions)
  <1>1. Receive("drop", interact) /\ a.type = "drop" /\ a \in Action
    BY FirstAction DEF ReceiveDrop, Receive, Typed
  <1>2. a.from \in Kept
    BY <1>1 DEF Action
  <1>3. a.from \in Slots /\ inv[a.from] \in Slot /\ dropped \in Nat
    BY <1>2, SlotFacts, InventoriesConstants DEF Typed
  <1>4. inv' = inv \/ inv' = [inv EXCEPT ![a.from] = Left(inv[a.from], dropped)]
    BY <1>3 DEF ReceiveDrop, Typed
  <1>5. inv' \in [Slots -> Slot]
    <2>1. inv \in [Slots -> Slot]
      BY DEF Typed
    <2>2. Left(inv[a.from], dropped) \in Slot
      BY <1>3, LeftIsSlot
    <2> DEFINE left == Left(inv[a.from], dropped)
    <2> HIDE DEF a
    <2>3. left \in Slot => [inv EXCEPT ![a.from] = left] \in [Slots -> Slot]
      <3> HIDE DEF left
      <3> QED BY <2>1
    <2> QED BY <1>4, <2>1, <2>2, <2>3
  <1>6. SlotsOf(a) = {a.from}
    BY <1>1 DEF SlotsOf
  <1>7. a.from \notin Mine => \A s \in Mine : inv'[s] = inv[s]
    BY <1>3, <1>4, SlotFacts DEF Typed
  <1> QED BY <1>1, <1>5, <1>6, <1>7, ReceiveTakes

LEMMA CraftTakes ==
    ASSUME Typed, NEW interact \in BOOLEAN, ReceiveCraft(interact)
    PROVE  TakesAction
  <1> DEFINE n == Head(actions).count
             ingredients == IF inv[Craft].name = Ingredient
                            THEN inv[Craft].count ELSE 0
             able == Room(inv[CraftResult],
                          [name |-> Product, count |-> ingredients])
             times == IF n = 0 THEN able ELSE AtMost(n, able)
             crafted == [name |-> Product, count |-> times]
  <1>1. Receive("craft", interact) /\ Head(actions).type = "craft"
        /\ Head(actions) \in Action
    BY FirstAction DEF ReceiveCraft, Receive, Typed
  <1>2. n \in Nat
    BY <1>1 DEF Action, Counts
  <1>3. inv[Craft] \in Slot /\ inv[CraftResult] \in Slot
    BY SlotFacts DEF Typed
  <1>4. ingredients \in 0 .. stack_max
    BY <1>3, StackFacts
  <1>5. able \in 0 .. stack_max
    BY <1>3, <1>4, StackFacts DEF Room, AtMost
  <1> HIDE DEF able, n
  <1>6. times \in 0 .. stack_max
    BY <1>2, <1>5, StackFacts DEF AtMost
  <1>7. inv' = IF times = 0 THEN inv
               ELSE [inv EXCEPT ![Craft] = Left(@, times),
                                ![CraftResult] = Added(@, crafted)]
    BY DEF ReceiveCraft, able, n
  <1>8. times # 0 => crafted \in Slot
    BY <1>6, InventoriesConstants DEF Slot, Stack
  <1> HIDE DEF times, crafted
  <1>9. times # 0 => Left(inv[Craft], times) \in Slot
                     /\ Added(inv[CraftResult], crafted) \in Slot
    <2>1. times \in Nat
      BY <1>6, StackFacts
    <2>2. Left(inv[Craft], times) \in Slot
      BY <1>3, <2>1, LeftIsSlot
    <2>3. crafted \in Slot => Added(inv[CraftResult], crafted) \in Slot
      BY <1>3, AddedIsSlot
    <2> QED BY <1>8, <2>2, <2>3
  <1>10. inv' \in [Slots -> Slot]
    BY <1>7, <1>9 DEF Typed
  <1>11. SlotsOf(Head(actions)) = Mine
    BY <1>1 DEF SlotsOf
  <1> QED BY <1>1, <1>10, <1>11, SlotFacts, ReceiveTakes

-----------------------------------------------------------------------------
(* The invariant. *)

\* What the client will have when it has received all that was sent.
ServerSent ==
    ~not_sent =>
        /\ inv[CraftPreview] = CraftingResult(inv[Craft])
        /\ PlayersOf(inv) = IF inventories = <<>> THEN from_server
                            ELSE inventories[Len(inventories)]

\* A prediction is of an action under way, or the inventory will be sent.
PredictionsAreAnswered ==
    \/ \E k \in 1 .. Len(actions) : SlotsOf(actions[k]) \cap Mine # {}
    \/ not_sent
    \/ inventories # <<>>
    \/ local = from_server

CopyInv == Typed /\ ServerSent /\ PredictionsAreAnswered

LEMMA PlayersOfType ==
    ASSUME NEW f \in [Slots -> Slot] PROVE PlayersOf(f) \in [Mine -> Slot]
  BY SlotFacts DEF PlayersOf

LEMMA CopyInvInit == Init => CopyInv
  <1> SUFFICES ASSUME Init PROVE CopyInv
    OBVIOUS
  <1>1. stack_max # 0 => [name |-> Ingredient, count |-> stack_max] \in Slot
    BY InventoriesConstants DEF Slot, Stack
  <1>2. inv \in [Slots -> Slot]
    BY <1>1, StackFacts DEF Init
  <1>3. Typed
    <2>1. local \in [Mine -> Slot] /\ from_server \in [Mine -> Slot]
      BY <1>2, PlayersOfType DEF Init
    <2>2. inventories \in Seq([Mine -> Slot]) /\ actions \in Seq(Action)
      BY SeqFacts DEF Init
    <2> QED BY <1>2, <2>1, <2>2 DEF Init, Typed
  <1>4. inv[Craft] = Empty /\ inv[CraftPreview] = Empty
    BY SlotFacts DEF Init, Full, Main, Chest, Craft, CraftPreview
  <1>5. CraftingResult(Empty) = Empty
    BY InventoriesConstants DEF CraftingResult, Empty, NoName
  <1>6. ServerSent /\ PredictionsAreAnswered
    BY <1>4, <1>5 DEF Init, ServerSent, PredictionsAreAnswered
  <1> QED BY <1>3, <1>6 DEF CopyInv

LEMMA TakesActionKeeps ==
    ASSUME CopyInv, TakesAction PROVE CopyInv'
  <1>1. Typed'
    BY FirstAction DEF CopyInv, Typed, TakesAction, clientVars
  <1>2. ServerSent'
    <2> SUFFICES ASSUME ~not_sent' PROVE
             /\ inv'[CraftPreview] = CraftingResult(inv'[Craft])
             /\ PlayersOf(inv)' = IF inventories = <<>> THEN from_server
                                  ELSE inventories[Len(inventories)]
      BY DEF ServerSent, TakesAction, clientVars
    <2>1. \A s \in Mine : inv'[s] = inv[s]
      BY DEF TakesAction
    <2>2. PlayersOf(inv)' = PlayersOf(inv)
      BY <2>1 DEF PlayersOf
    <2>3. ~not_sent
      BY DEF TakesAction
    <2> QED BY <2>1, <2>2, <2>3, SlotFacts DEF CopyInv, ServerSent
  <1>3. PredictionsAreAnswered'
    <2>1. CASE not_sent'
      BY <2>1 DEF PredictionsAreAnswered
    <2>2. CASE ~not_sent'
      <3>1. /\ ~not_sent
            /\ SlotsOf(Head(actions)) \cap Mine = {}
            /\ actions' = Tail(actions) /\ actions # <<>>
            /\ UNCHANGED <<inventories, local, from_server>>
        BY <2>2 DEF TakesAction, clientVars
      <3>2. ASSUME NEW k \in 1 .. Len(actions),
                   SlotsOf(actions[k]) \cap Mine # {}
            PROVE  \E l \in 1 .. Len(actions') :
                       SlotsOf(actions'[l]) \cap Mine # {}
        <4>1. k # 1
          BY <3>1, <3>2, FirstAction DEF CopyInv, Typed
        <4>2. k - 1 \in 1 .. Len(Tail(actions))
              /\ Tail(actions)[k - 1] = actions[k]
          BY <3>1, <4>1, FirstAction DEF CopyInv, Typed
        <4> QED BY <3>1, <3>2, <4>2
      <3> QED BY <3>1, <3>2 DEF CopyInv, PredictionsAreAnswered
    <2> QED BY <2>1, <2>2 DEF CopyInv, Typed, TakesAction
  <1> QED BY <1>1, <1>2, <1>3 DEF CopyInv

\* An action sent, whatever is predicted, if it changes the player's slots only.
LEMMA ActKeeps ==
    ASSUME CopyInv, NEW a \in Action, NEW predicted \in [Mine -> Slot],
           Act(a, predicted),
           SlotsOf(a) \cap Mine = {} => predicted = local
    PROVE  CopyInv'
  <1>1. /\ actions' = Append(actions, a)
        /\ local' = predicted
        /\ UNCHANGED <<inv, not_sent, inventories, from_server>>
    BY DEF Act
  <1>2. Typed'
    BY <1>1 DEF CopyInv, Typed
  <1>3. ServerSent'
    BY <1>1 DEF CopyInv, ServerSent, PlayersOf
  <1>4. /\ Len(actions') = Len(actions) + 1
        /\ actions'[Len(actions) + 1] = a
        /\ \A k \in 1 .. Len(actions) : actions'[k] = actions[k]
        /\ Len(actions) \in Nat
    BY <1>1 DEF CopyInv, Typed
  <1>5. PredictionsAreAnswered'
    <2>1. CASE SlotsOf(a) \cap Mine # {}
      BY <1>4, <2>1 DEF PredictionsAreAnswered
    <2>2. CASE SlotsOf(a) \cap Mine = {}
      BY <1>1, <1>4, <2>2 DEF CopyInv, PredictionsAreAnswered
    <2> QED BY <2>1, <2>2
  <1> QED BY <1>2, <1>3, <1>5 DEF CopyInv

LEMMA ClientActs ==
    ASSUME CopyInv,
           \/ \E i, j \in Kept, n \in Counts : Move(i, j, n)
           \/ \E i \in Kept, n \in Counts : Drop(i, n)
           \/ \E n \in Counts : CraftItems(n)
    PROVE  CopyInv'
  <1> USE DEF CopyInv, Typed
  <1>1. ASSUME NEW i \in Kept, NEW j \in Kept, NEW n \in Counts, Move(i, j, n)
        PROVE  CopyInv'
    <2> DEFINE a == [type |-> "move", from |-> i, to |-> j, count |-> n]
               p == IF {i, j} \subseteq Mine THEN MoveItem(local, i, j, n)
                                             ELSE local
    <2>1. a \in Action /\ SlotsOf(a) = {i, j}
      BY DEF Action, SlotsOf
    <2>2. p \in [Mine -> Slot]
      BY MoveItemType DEF Counts
    <2>3. Act(a, p) /\ (SlotsOf(a) \cap Mine = {} => p = local)
      BY <1>1, <2>1 DEF Move
    <2> HIDE DEF a, p
    <2> QED BY <2>1, <2>2, <2>3, ActKeeps
  <1>2. ASSUME NEW i \in Kept, NEW n \in Counts, Drop(i, n) PROVE CopyInv'
    <2> DEFINE a == [type |-> "drop", from |-> i, count |-> n]
               p == IF i \notin Mine THEN local
                    ELSE [local EXCEPT ![i] = IF n = 0 THEN Empty
                                                       ELSE Left(@, n)]
    <2>1. a \in Action /\ SlotsOf(a) = {i}
      BY DEF Action, SlotsOf
    <2>2. p \in [Mine -> Slot]
      <3>1. i \in Mine => Left(local[i], n) \in Slot
        BY LeftIsSlot DEF Counts
      <3> QED BY <3>1, StackFacts
    <2>3. Act(a, p) /\ (SlotsOf(a) \cap Mine = {} => p = local)
      BY <1>2, <2>1 DEF Drop
    <2> HIDE DEF a, p
    <2> QED BY <2>1, <2>2, <2>3, ActKeeps
  <1>3. ASSUME NEW n \in Counts, CraftItems(n) PROVE CopyInv'
    <2> DEFINE a == [type |-> "craft", count |-> n]
    <2>1. a \in Action /\ a.type = "craft"
      BY DEF Action
    <2>2. Act(a, local)
      BY <1>3 DEF CraftItems
    <2> HIDE DEF a
    <2>3. SlotsOf(a) \cap Mine # {}
      BY <2>1, SlotFacts DEF SlotsOf
    <2> QED BY <2>1, <2>2, <2>3, ActKeeps
  <1> QED BY <1>1, <1>2, <1>3

LEMMA ServerSends == ASSUME CopyInv, SendInventory PROVE CopyInv'
  <1>1. /\ inv' = [inv EXCEPT ![CraftPreview] = CraftingResult(inv[Craft])]
        /\ not_sent' = FALSE
        /\ inventories' = Append(inventories, PlayersOf(inv'))
        /\ UNCHANGED <<actions, local, from_server>>
    BY DEF SendInventory, clientVars
  <1>2. inv' \in [Slots -> Slot] /\ PlayersOf(inv') \in [Mine -> Slot]
    BY <1>1, CraftingResultIsSlot, PlayersOfType, SlotFacts DEF CopyInv, Typed
  <1>3. /\ inventories' \in Seq([Mine -> Slot]) /\ inventories' # <<>>
        /\ inventories'[Len(inventories')] = PlayersOf(inv')
    <2> DEFINE Inventory == [Mine -> Slot]
    <2>1. inventories \in Seq(Inventory) /\ PlayersOf(inv') \in Inventory
      BY <1>2 DEF CopyInv, Typed
    <2> HIDE DEF Inventory
    <2>2. /\ inventories' \in Seq(Inventory) /\ inventories' # <<>>
          /\ inventories'[Len(inventories')] = PlayersOf(inv')
      BY <1>1, <2>1, SeqFacts
    <2> QED BY <2>2 DEF Inventory
  <1>4. Typed'
    BY <1>1, <1>2, <1>3 DEF CopyInv, Typed
  <1>5. inv'[CraftPreview] = CraftingResult(inv'[Craft])
    BY <1>1, SlotFacts DEF CopyInv, Typed
  <1> QED BY <1>3, <1>4, <1>5 DEF CopyInv, ServerSent, PredictionsAreAnswered

LEMMA ClientReceives == ASSUME CopyInv, ReceiveInventory PROVE CopyInv'
  <1>1. /\ inventories # <<>> /\ inventories' = Tail(inventories)
        /\ local' = Head(inventories) /\ from_server' = Head(inventories)
        /\ UNCHANGED <<inv, not_sent, actions>>
    BY DEF ReceiveInventory
  <1>2. /\ Head(inventories) \in [Mine -> Slot]
        /\ inventories' \in Seq([Mine -> Slot])
        /\ inventories' = <<>> =>
               Head(inventories) = inventories[Len(inventories)]
        /\ inventories' # <<>> =>
               inventories'[Len(inventories')] = inventories[Len(inventories)]
    BY <1>1, SeqFacts DEF CopyInv, Typed
  <1>3. Typed'
    BY <1>1, <1>2 DEF CopyInv, Typed
  <1>4. ServerSent'
    BY <1>1, <1>2 DEF CopyInv, ServerSent, PlayersOf
  <1> QED BY <1>1, <1>3, <1>4 DEF CopyInv, PredictionsAreAnswered

LEMMA OthersChange ==
    ASSUME CopyInv, NEW s \in Kept, NEW st \in Ones \cup {Empty}, Change(s, st)
    PROVE  CopyInv'
  <1>1. /\ inv' = [inv EXCEPT ![s] = st]
        /\ not_sent' = (not_sent \/ s \in Mine)
        /\ UNCHANGED <<actions, inventories, local, from_server>>
    BY DEF Change, clientVars
  <1>2. st \in Slot
    BY StackFacts DEF Ones, Slot
  <1>3. Typed'
    BY <1>1, <1>2 DEF CopyInv, Typed
  <1>4. s \notin Mine => \A m \in Mine : inv'[m] = inv[m]
    BY <1>1, SlotFacts DEF CopyInv, Typed
  <1>5. s \notin Mine => PlayersOf(inv') = PlayersOf(inv)
    BY <1>4 DEF PlayersOf
  <1>6. ServerSent'
    BY <1>1, <1>4, <1>5, SlotFacts DEF CopyInv, ServerSent
  <1>7. PredictionsAreAnswered'
    BY <1>1 DEF CopyInv, PredictionsAreAnswered
  <1> QED BY <1>3, <1>6, <1>7 DEF CopyInv

LEMMA CopyInvNext == CopyInv /\ [Next]_vars => CopyInv'
  <1> SUFFICES ASSUME CopyInv, [Next]_vars PROVE CopyInv'
    OBVIOUS
  <1>1. ASSUME NEW i \in Kept, NEW j \in Kept, NEW n \in Counts, Move(i, j, n)
        PROVE  CopyInv'
    BY <1>1, ClientActs
  <1>2. ASSUME NEW i \in Kept, NEW n \in Counts, Drop(i, n) PROVE CopyInv'
    BY <1>2, ClientActs
  <1>3. ASSUME NEW n \in Counts, CraftItems(n) PROVE CopyInv'
    BY <1>3, ClientActs
  <1>4. CASE ReceiveInventory
    BY <1>4, ClientReceives
  <1>5. CASE RevertPrediction
    <2>1. /\ local' = from_server
          /\ UNCHANGED <<inv, not_sent, actions, inventories, from_server>>
      BY <1>5 DEF RevertPrediction
    <2> QED BY <2>1 DEF CopyInv, Typed, ServerSent, PlayersOf,
                        PredictionsAreAnswered
  <1>6. ASSUME NEW interact \in BOOLEAN, Refuse(interact) PROVE CopyInv'
    BY <1>6, RefuseTakes, TakesActionKeeps DEF CopyInv
  <1>7. ASSUME NEW interact \in BOOLEAN, NEW emptied \in BOOLEAN,
               NEW take \in Answers, NEW put \in Answers,
               ReceiveMove(interact, take, put, emptied)
        PROVE  CopyInv'
    BY <1>7, MoveTakes, TakesActionKeeps DEF CopyInv
  <1>8. ASSUME NEW interact \in BOOLEAN, NEW take \in Answers,
               NEW dropped \in 0 .. stack_max,
               ReceiveDrop(interact, take, dropped)
        PROVE  CopyInv'
    BY <1>8, DropTakes, TakesActionKeeps DEF CopyInv
  <1>9. ASSUME NEW interact \in BOOLEAN, ReceiveCraft(interact) PROVE CopyInv'
    BY <1>9, CraftTakes, TakesActionKeeps DEF CopyInv
  <1>10. CASE SendInventory
    BY <1>10, ServerSends
  <1>11. ASSUME NEW s \in Kept, NEW st \in Ones \cup {Empty}, Change(s, st)
         PROVE  CopyInv'
    BY <1>11, OthersChange
  <1>12. CASE UNCHANGED vars
    BY <1>12 DEF vars, clientVars, CopyInv, Typed, ServerSent, PlayersOf,
                 PredictionsAreAnswered
  <1> QED BY <1>1, <1>2, <1>3, <1>4, <1>5, <1>6, <1>7, <1>8, <1>9, <1>10,
             <1>11, <1>12 DEF Next

LEMMA CopyInvAlways == Spec => []CopyInv
  BY CopyInvInit, CopyInvNext, PTL DEF Spec

(***************************************************************************)
(* When nothing is under way, the client has the server's inventory: for   *)
(* any number of actions sent ahead, changes by scripts and other players, *)
(* answers of scripts and refusals. An action that touches the player's    *)
(* inventory makes the server send it whether it is done, done in part or  *)
(* refused; that is all the prediction needs (PredictionsAreAnswered).     *)
(***************************************************************************)
THEOREM ClientCatchesUp == Spec => []CopyIsCurrent
  <1>1. CopyInv => CopyIsCurrent
    <2> SUFFICES ASSUME CopyInv, actions = <<>>, ~not_sent, inventories = <<>>
                 PROVE  /\ local = PlayersOf(inv)
                        /\ inv[CraftPreview] = CraftingResult(inv[Craft])
      BY DEF CopyIsCurrent
    <2>1. local = from_server
      BY DEF CopyInv, PredictionsAreAnswered
    <2> QED BY <2>1 DEF CopyInv, ServerSent
  <1> QED BY <1>1, CopyInvAlways, PTL

(***************************************************************************)
(* No stack, on the server, at the client or in a message, is ever larger  *)
(* than its kind stacks or empty with a name, whatever the limits answered *)
(* and however a move ends: whole, in part, put back or exchanged.         *)
(***************************************************************************)
THEOREM StacksFit == Spec => []Typed
  <1>1. CopyInv => Typed
    BY DEF CopyInv
  <1> QED BY <1>1, CopyInvAlways, PTL

-----------------------------------------------------------------------------
(* Counting items: Count is a sum, taken in the order of CHOOSE. *)

\* How many items x a stack has.
Has(st, x) == IF st.name = x THEN st.count ELSE 0

\* The sums over the subsets of S.
IsSum(run, f, S, x) ==
    run = [s \in SUBSET S |->
              IF s = {} THEN 0
              ELSE Has(f[CHOOSE y \in s : TRUE], x)
                       + run[s \ {CHOOSE y \in s : TRUE}]]

\* The sums exist, and the count is the last of them.
LEMMA CountIsSum ==
    ASSUME NEW S, IsFiniteSet(S), NEW f, NEW x,
           \A s \in S : Has(f[s], x) \in Int
    PROVE  \E run : /\ IsSum(run, f, S, x)
                    /\ run[S] = Count(f, S, x)
                    /\ \A s \in SUBSET S : run[s] \in Int
  <1> DEFINE choice == [s \in SUBSET S |-> CHOOSE y \in s : TRUE]
             body == [p \in Int \X S |-> Has(f[p[2]], x) + p[1]]
             P == [s \in SUBSET S |-> Int]
             Step(r, s) == IF s = {} THEN 0
                           ELSE Has(f[CHOOSE y \in s : TRUE], x)
                                    + r[s \ {CHOOSE y \in s : TRUE}]
             Is(r) == r = [s \in SUBSET S |-> Step(r, s)]
             run == CHOOSE r : Is(r)
  <1>1. \A s \in SUBSET S : s # {} => choice[s] \in s
    OBVIOUS
  <1>2. PICK g : IsRunBy(g, 0, body, choice, S)
    <2> HIDE DEF choice, body
    <2> QED BY <1>1, RunExistsBy
  <1>3. ASSUME NEW s \in SUBSET S, s # {}, g[s \ {choice[s]}] \in Int
        PROVE  /\ g[s] \in Int
               /\ g[s] = Has(f[CHOOSE y \in s : TRUE], x)
                             + g[s \ {CHOOSE y \in s : TRUE}]
    <2> DEFINE c == CHOOSE y \in s : TRUE
    <2>1. choice[s] = c /\ c \in S
      BY <1>1, <1>3
    <2>2. g[s] = body[<<g[s \ {c}], c>>]
      <3> HIDE DEF body
      <3>1. g[s] = body[<<g[s \ {choice[s]}], choice[s]>>]
        <4> HIDE DEF choice
        <4> QED BY <1>2, <1>3 DEF IsRunBy
      <3> HIDE DEF choice, c
      <3> QED BY <2>1, <3>1
    <2>3. g[s \ {c}] \in Int
      <3> HIDE DEF choice, c
      <3> QED BY <1>3, <2>1
    <2> HIDE DEF choice, c
    <2>4. g[s] = Has(f[c], x) + g[s \ {c}]
      BY <2>1, <2>2, <2>3
    <2>5. g[s] \in Int
      BY <2>1, <2>3, <2>4
    <2> QED BY <2>4, <2>5 DEF c
  <1>4. g[{}] = 0
    BY <1>2 DEF IsRunBy
  <1>5. \A s \in SUBSET S : g[s] \in Int
    <2>1. \A s \in SUBSET S : g[s] \in P[s]
      <3>1. g[{}] \in P[{}]
        BY <1>4
      <3>2. \A s \in SUBSET S :
                s # {} => /\ choice[s] \in s
                          /\ g[s \ {choice[s]}] \in P[s \ {choice[s]}]
                                 => g[s] \in P[s]
        <4> HIDE DEF choice
        <4> QED BY <1>1, <1>3
      <3> HIDE DEF choice, P
      <3> QED BY <3>1, <3>2, RunKeepsBy
    <2> QED BY <2>1
  <1>6. Is(g)
    <2>1. ASSUME NEW s \in SUBSET S PROVE g[s] = Step(g, s)
      <3>1. CASE s = {}
        BY <1>4, <3>1
      <3>2. CASE s # {}
        <4>1. g[s \ {choice[s]}] \in Int
          <5> HIDE DEF choice
          <5> QED BY <1>5
        <4> HIDE DEF choice
        <4> QED BY <1>3, <3>2, <4>1
      <3> QED BY <3>1, <3>2
    <2>2. g = [s \in SUBSET S |-> g[s]]
      <3> HIDE DEF choice, body
      <3> QED BY <1>2 DEF IsRunBy
    <2> HIDE DEF Step
    <2> QED BY <2>1, <2>2
  <1>7. Is(run)
    <2> HIDE DEF Is
    <2> QED BY <1>6
  <1>8. ASSUME NEW r, Is(r) PROVE \A s \in SUBSET S : r[s] \in Int
    <2>1. r[{}] \in P[{}]
      BY <1>8
    <2>2. \A s \in SUBSET S :
              s # {} => /\ choice[s] \in s
                        /\ r[s \ {choice[s]}] \in P[s \ {choice[s]}]
                               => r[s] \in P[s]
      <3> SUFFICES ASSUME NEW s \in SUBSET S, s # {},
                          r[s \ {choice[s]}] \in P[s \ {choice[s]}]
                   PROVE  r[s] \in P[s]
        BY <1>1
      <3> DEFINE c == CHOOSE y \in s : TRUE
      <3>1. r[s] = Has(f[c], x) + r[s \ {c}]
        BY <1>8
      <3>2. c \in S /\ s \ {c} \in SUBSET S /\ choice[s] = c
        OBVIOUS
      <3> HIDE DEF c, choice
      <3> QED BY <3>1, <3>2
    <2> HIDE DEF P, choice, Is
    <2>3. \A s \in SUBSET S : r[s] \in P[s]
      BY <2>1, <2>2, RunKeepsBy
    <2> QED BY <2>3 DEF P
  <1>9. Count(f, S, x) = run[S]
    BY Zenon DEF Count, MapThenSumSet, MapThenFoldSet, Has
  <1>10. IsSum(run, f, S, x)
    <2> HIDE DEF run
    <2> QED BY <1>7 DEF IsSum
  <1> HIDE DEF run
  <1>11. \A s \in SUBSET S : run[s] \in Int
    <2> HIDE DEF Is
    <2> QED BY <1>7, <1>8
  <1> QED BY <1>9, <1>10, <1>11

\* What a change of slot i does to the count of the slots S.
More(S, f, g, i, x) == IF i \in S THEN Has(g[i], x) - Has(f[i], x) ELSE 0

\* The order of the sum does not matter: it is the same for both.
LEMMA OneSlotChanges ==
    ASSUME NEW S, IsFiniteSet(S), NEW f, NEW g, NEW x, NEW i,
           \A s \in S : Has(f[s], x) \in Int /\ Has(g[s], x) \in Int,
           \A s \in S \ {i} : Has(g[s], x) = Has(f[s], x)
    PROVE  /\ Count(f, S, x) \in Int /\ Count(g, S, x) \in Int
           /\ Count(g, S, x) = Count(f, S, x) + More(S, f, g, i, x)
  <1>1. PICK r : /\ IsSum(r, f, S, x)
                 /\ r[S] = Count(f, S, x)
                 /\ \A s \in SUBSET S : r[s] \in Int
    BY CountIsSum
  <1>2. PICK q : /\ IsSum(q, g, S, x)
                 /\ q[S] = Count(g, S, x)
                 /\ \A s \in SUBSET S : q[s] \in Int
    BY CountIsSum
  <1> DEFINE choice == [s \in SUBSET S |-> CHOOSE y \in s : TRUE]
             P == [s \in SUBSET S |->
                      {t \in Int : t = r[s] + More(s, f, g, i, x)}]
  <1>3. \A s \in SUBSET S :
            s # {} => /\ choice[s] \in s
                      /\ q[s \ {choice[s]}] \in P[s \ {choice[s]}]
                             => q[s] \in P[s]
    <2> SUFFICES ASSUME NEW s \in SUBSET S, s # {},
                        q[s \ {choice[s]}] \in P[s \ {choice[s]}]
                 PROVE  q[s] \in P[s]
      OBVIOUS
    <2> DEFINE c == CHOOSE y \in s : TRUE
    <2>1. /\ r[s] = Has(f[c], x) + r[s \ {c}]
          /\ q[s] = Has(g[c], x) + q[s \ {c}]
      BY <1>1, <1>2 DEF IsSum
    <2>2. c \in s /\ s \ {c} \in SUBSET S /\ choice[s] = c
      OBVIOUS
    <2> HIDE DEF c, choice
    <2>3. q[s \ {c}] = r[s \ {c}] + More(s \ {c}, f, g, i, x)
      BY <2>2
    <2>4. /\ r[s] \in Int /\ r[s \ {c}] \in Int /\ q[s] \in Int
          /\ q[s \ {c}] \in Int
          /\ Has(f[c], x) \in Int /\ Has(g[c], x) \in Int
      BY <1>1, <1>2, <2>2
    <2>5. q[s] = r[s] + More(s, f, g, i, x)
      <3>1. CASE c = i
        <4>1. More(s \ {c}, f, g, i, x) = 0
              /\ More(s, f, g, i, x) = Has(g[c], x) - Has(f[c], x)
          BY <2>2, <3>1 DEF More
        <4> QED BY <2>1, <2>3, <2>4, <4>1
      <3>2. CASE c # i
        <4>1. More(s \ {c}, f, g, i, x) = More(s, f, g, i, x)
          BY <3>2 DEF More
        <4>2. Has(g[c], x) = Has(f[c], x)
          BY <2>2, <3>2
        <4>3. More(s, f, g, i, x) \in Int
          <5>1. CASE i \in s
            <6>1. i \in S
              BY <5>1
            <6>2. Has(g[i], x) \in Int /\ Has(f[i], x) \in Int
              BY <6>1
            <6> QED BY <6>2 DEF More
          <5>2. CASE i \notin s
            BY <5>2 DEF More
          <5> QED BY <5>1, <5>2
        <4> DEFINE m == More(s, f, g, i, x)
        <4>4. m \in Int /\ q[s \ {c}] = r[s \ {c}] + m
          BY <2>3, <4>1, <4>3
        <4> HIDE DEF m
        <4>5. q[s] = r[s] + m
          BY <2>1, <2>4, <4>2, <4>4
        <4> QED BY <4>5 DEF m
      <3> QED BY <3>1, <3>2
    <2> QED BY <2>4, <2>5
  <1>4. q[{}] \in P[{}]
    <2>1. q[{}] = 0 /\ r[{}] = 0
      BY <1>1, <1>2 DEF IsSum
    <2> QED BY <2>1 DEF More
  <1> HIDE DEF choice, P
  <1>5. \A s \in SUBSET S : q[s] \in P[s]
    BY <1>3, <1>4, RunKeepsBy
  <1>6. q[S] \in P[S]
    BY <1>5
  <1>7. q[S] = r[S] + More(S, f, g, i, x)
    BY <1>6 DEF P
  <1> QED BY <1>1, <1>2, <1>7

\* How many there are of an item in a stack is a number.
LEMMA HasIsInt ==
    ASSUME NEW st \in Slot, NEW x
    PROVE  Has(st, x) \in Int /\ Has(st, x) >= 0
  BY StackFacts DEF Has

\* Two slots of the server's inventory change.
LEMMA TwoSlotsChange ==
    ASSUME NEW S \in SUBSET Slots, IsFiniteSet(S), NEW x,
           NEW f \in [Slots -> Slot], NEW g \in [Slots -> Slot],
           NEW i \in Slots, NEW j \in Slots, i # j,
           \A s \in Slots \ {i, j} : g[s] = f[s]
    PROVE  /\ Count(f, S, x) \in Int /\ Count(g, S, x) \in Int
           /\ More(S, f, g, i, x) \in Int /\ More(S, f, g, j, x) \in Int
           /\ Count(g, S, x) = Count(f, S, x) + More(S, f, g, i, x)
                                   + More(S, f, g, j, x)
  <1>1. PICK h \in [Slots -> Slot] : /\ h[i] = g[i]
                                     /\ \A s \in Slots \ {i} : h[s] = f[s]
    <2>1. [f EXCEPT ![i] = g[i]] \in [Slots -> Slot]
      OBVIOUS
    <2> QED BY <2>1
  <1>2. \A s \in S : /\ Has(f[s], x) \in Int /\ Has(g[s], x) \in Int
                     /\ Has(h[s], x) \in Int
    BY HasIsInt
  <1>3. /\ Count(f, S, x) \in Int /\ Count(h, S, x) \in Int
        /\ Count(h, S, x) = Count(f, S, x) + More(S, f, h, i, x)
    <2>1. \A s \in S \ {i} : Has(h[s], x) = Has(f[s], x)
      BY <1>1
    <2> QED BY <1>2, <2>1, OneSlotChanges
  <1>4. /\ Count(g, S, x) \in Int
        /\ Count(g, S, x) = Count(h, S, x) + More(S, h, g, j, x)
    <2>1. \A s \in S \ {j} : Has(g[s], x) = Has(h[s], x)
      BY <1>1
    <2> QED BY <1>2, <2>1, OneSlotChanges
  <1>5. /\ More(S, f, h, i, x) = More(S, f, g, i, x)
        /\ More(S, h, g, j, x) = More(S, f, g, j, x)
    BY <1>1 DEF More
  <1>6. /\ Has(f[i], x) \in Int /\ Has(g[i], x) \in Int
        /\ Has(f[j], x) \in Int /\ Has(g[j], x) \in Int
    BY HasIsInt
  <1>7. More(S, f, g, i, x) \in Int /\ More(S, f, g, j, x) \in Int
    BY <1>6 DEF More
  <1> QED BY <1>3, <1>4, <1>5, <1>7

\* The slots that are full at first are in the lists.
LEMMA FullFacts == Full \subseteq Kept /\ Full \subseteq Slots
  <1>1. 1 .. FullMain \subseteq 1 .. MainSize
        /\ 1 .. FullChest \subseteq 1 .. ChestSize
    BY InventoriesConstants
  <1>2. /\ {"main"} \X (1 .. FullMain) \subseteq Main
        /\ {"chest"} \X (1 .. FullChest) \subseteq Chest
    BY <1>1 DEF Main, Chest
  <1>3. CraftPreview \notin Main /\ CraftPreview \notin Chest
    BY DEF Main, Chest, CraftPreview
  <1> QED BY <1>2, <1>3 DEF Full, Kept, Slots, Mine

\* There are finitely many slots.
LEMMA SlotsAreFinite ==
    IsFiniteSet(Kept) /\ IsFiniteSet(Chest) /\ IsFiniteSet(Full)
  <1>1. /\ IsFiniteSet(1 .. MainSize) /\ IsFiniteSet(1 .. ChestSize)
        /\ IsFiniteSet(1 .. OtherSize)
    BY InventoriesConstants, FS_Interval
  <1>2. IsFiniteSet({"main"}) /\ IsFiniteSet({"chest"})
        /\ IsFiniteSet({"other"})
        /\ IsFiniteSet({Craft, CraftResult, CraftPreview})
    <2>1. IsFiniteSet({Craft}) /\ IsFiniteSet({CraftResult})
          /\ IsFiniteSet({CraftPreview})
      BY FS_Singleton
    <2>2. {Craft, CraftResult, CraftPreview}
              = {Craft} \cup ({CraftResult} \cup {CraftPreview})
      OBVIOUS
    <2>3. IsFiniteSet({Craft} \cup ({CraftResult} \cup {CraftPreview}))
      BY <2>1, FS_Union
    <2> QED BY <2>2, <2>3, FS_Singleton
  <1>3. IsFiniteSet(Main) /\ IsFiniteSet(Chest)
    <2>1. /\ IsFiniteSet({"main"} \X (1 .. MainSize))
          /\ IsFiniteSet({"chest"} \X (1 .. ChestSize))
          /\ IsFiniteSet({"other"} \X (1 .. OtherSize))
      BY <1>1, <1>2, FS_Product
    <2> QED BY <2>1, FS_Union DEF Main, Chest
  <1>4. IsFiniteSet(Main \cup {Craft, CraftResult, CraftPreview})
    BY <1>2, <1>3, FS_Union
  <1>5. IsFiniteSet(Slots)
    BY <1>3, <1>4, FS_Union DEF Slots, Mine
  <1>6. Kept \subseteq Slots /\ Full \subseteq Slots
    BY FullFacts DEF Kept
  <1> QED BY <1>3, <1>5, <1>6, FS_Subset

\* Every count is a number.
LEMMA CountIsInt ==
    ASSUME NEW S \in SUBSET Slots, IsFiniteSet(S), NEW f \in [Slots -> Slot],
           NEW x
    PROVE  Count(f, S, x) \in Int
  <1>1. \A s \in S : Has(f[s], x) \in Int
    BY HasIsInt
  <1> QED BY <1>1, CountIsSum

-----------------------------------------------------------------------------
(* What is in the stacks. *)

\* Some of a stack has as many of the same.
LEMMA HasOf ==
    ASSUME NEW st \in Slot, NEW n \in 0 .. st.count
    PROVE  /\ Of(st, n).count = n
           /\ n # 0 => Of(st, n).name = st.name
           /\ n = st.count => Of(st, n) = st
           /\ \A x : Has(Of(st, n), x) = IF st.name = x THEN n ELSE 0
  <1>1. CASE n = 0
    <2>1. Of(st, n) = Empty
      BY <1>1 DEF Of
    <2>2. n = st.count => st = Empty
      BY <1>1, StackFacts
    <2> QED BY <1>1, <2>1, <2>2 DEF Has, Empty
  <1>2. CASE n # 0
    <2>1. st \in Stack
      BY <1>2, StackFacts DEF Empty
    <2>2. Of(st, n) = [st EXCEPT !.count = n]
      BY <1>2 DEF Of
    <2> QED BY <1>2, <2>1, <2>2 DEF Stack, Has
  <1> QED BY <1>1, <1>2

\* Two stacks are the same if they have as many of the same.
LEMMA SameStack ==
    ASSUME NEW st \in Slot, NEW tt \in Slot, st.count = tt.count,
           st.count # 0 => st.name = tt.name
    PROVE  st = tt
  <1>1. CASE st.count = 0
    BY <1>1, StackFacts
  <1>2. CASE st.count # 0
    <2>1. st \in Stack /\ tt \in Stack
      BY <1>2, StackFacts DEF Empty
    <2> QED BY <1>2, <2>1 DEF Stack
  <1> QED BY <1>1, <1>2

\* takeItem.
LEMMA TakenOf ==
    ASSUME NEW st \in Slot, NEW n \in Nat
    PROVE  LET m == AtMost(n, st.count) IN
           /\ m \in 0 .. st.count
           /\ st.count - m \in 0 .. st.count
           /\ Taken(st, n) = Of(st, m)
           /\ Left(st, n) = Of(st, st.count - m)
  BY StackFacts DEF AtMost, Taken, Left

\* addItem: what a stack gets, the other stack has no more.
LEMMA AddedOf ==
    ASSUME NEW st \in Slot, NEW new \in Slot
    PROVE  LET r == Room(st, new) IN
           /\ r \in 0 .. new.count
           /\ new.count - r \in 0 .. new.count
           /\ Rest(st, new) = Of(new, new.count - r)
           /\ Added(st, new).count = st.count + r
           /\ r = 0 => Rest(st, new) = new
           /\ r = new.count => Rest(st, new) = Empty
           /\ \A x : Has(Added(st, new), x)
                         = Has(st, x) + IF new.name = x THEN r ELSE 0
           /\ r # 0 => Added(st, new).name = new.name
           /\ st.name = new.name \/ st = Empty \/ r = 0
  <1> DEFINE r == Room(st, new)
  <1>1. /\ st.count \in 0 .. stack_max /\ new.count \in 0 .. stack_max
        /\ stack_max \in Nat /\ NoName \notin Items
    BY StackFacts, InventoriesConstants DEF NoName
  <1>2. r \in 0 .. new.count /\ new.count - r \in 0 .. new.count
    BY <1>1 DEF Room, AtMost
  <1>3. /\ r = 0 => Rest(st, new) = new
        /\ r = new.count => Rest(st, new) = Empty
    <2>1. r = 0 => new.count - r = new.count
      BY <1>1
    <2>2. r = new.count => new.count - r = 0
      BY <1>1
    <2> HIDE DEF r
    <2>3. Rest(st, new) = Of(new, new.count - r)
      BY DEF Rest, r
    <2>4. Of(new, new.count) = new /\ Of(new, 0) = Empty
      <3>1. new.count \in 0 .. new.count
        BY <1>1
      <3> QED BY <3>1, HasOf DEF Of
    <2> QED BY <2>1, <2>2, <2>3, <2>4
  <1>4. CASE st = Empty
    <2>1. /\ Added(st, new) = new /\ r = new.count
          /\ st.count = 0 /\ st.name = NoName
      BY <1>4 DEF Added, Room, Empty
    <2>2. \A x : Has(st, x) = 0
      BY <2>1 DEF Has
    <2>3. \A x : Has(new, x) = IF new.name = x THEN r ELSE 0
      BY <2>1 DEF Has
    <2>4. Added(st, new).count = st.count + r
      BY <1>1, <2>1
    <2>5. \A x : Has(Added(st, new), x)
                     = Has(st, x) + IF new.name = x THEN r ELSE 0
      <3> SUFFICES ASSUME NEW x
                   PROVE  Has(Added(st, new), x)
                              = Has(st, x) + IF new.name = x THEN r ELSE 0
        OBVIOUS
      <3> HIDE DEF r
      <3> QED BY <1>2, <2>1, <2>2, <2>3
    <2> QED BY <1>2, <1>3, <1>4, <2>1, <2>4, <2>5 DEF Rest
  <1>5. CASE st # Empty
    <2>1. st \in Stack
      BY <1>5, StackFacts
    <2>2. st.count + r \in 1 .. stack_max
      BY <1>1, <2>1, <1>5 DEF Room, AtMost, Stack
    <2>3. Added(st, new) = [st EXCEPT !.count = st.count + r]
      BY <1>5, <2>2 DEF Added, Of
    <2>4. r # 0 => st.name = new.name
      BY <1>5 DEF Room
    <2> HIDE DEF r
    <2>5. Added(st, new).count = st.count + r /\ Added(st, new).name = st.name
      BY <2>1, <2>3 DEF Stack
    <2>6. \A x : Has(Added(st, new), x)
                     = Has(st, x) + IF new.name = x THEN r ELSE 0
      BY <1>1, <1>2, <2>4, <2>5 DEF Has
    <2> QED BY <1>2, <1>3, <2>4, <2>5, <2>6 DEF Rest, r
  <1> QED BY <1>4, <1>5

-----------------------------------------------------------------------------
(* Moving items. *)

\* m items go from slot i to slot j.
Moves(f, g, i, j, m) ==
    \A x : /\ Has(g[i], x) = Has(f[i], x) - IF f[i].name = x THEN m ELSE 0
           /\ Has(g[j], x) = Has(f[j], x) + IF f[i].name = x THEN m ELSE 0

\* As many as fit; only if none fit are the stacks exchanged.
LEMMA MoveItemMoves ==
    ASSUME NEW S, NEW f \in [S -> Slot], NEW i \in S, NEW j \in S, i # j,
           NEW n \in 1 .. f[i].count, NEW g, g = MoveItem(f, i, j, n)
    PROVE  LET r == Room(f[j], Of(f[i], n)) IN
           /\ r \in 0 .. n
           /\ r = 0 => g[i] = f[j] /\ g[j] = f[i]
           /\ r # 0 => Moves(f, g, i, j, r)
           /\ r = n => g[i] = Left(f[i], n)
                       /\ g[j] = Added(f[j], Of(f[i], n))
  <1> DEFINE item == Taken(f[i], n)
             left == Left(f[i], n)
             r == Room(f[j], item)
             rest == Rest(f[j], item)
  <1>1. /\ f[i] \in Slot /\ f[j] \in Slot /\ n \in Nat /\ n # 0
        /\ f[i].count \in 0 .. stack_max /\ stack_max \in Nat
        /\ f[i].count \in Nat /\ n <= f[i].count
    BY StackFacts
  <1>2. AtMost(n, f[i].count) = n
    BY <1>1 DEF AtMost
  <1>3. item = Of(f[i], n) /\ left = Of(f[i], f[i].count - n)
    BY <1>2 DEF Taken, Left
  <1>4. /\ item \in Slot /\ item.count = n /\ item.name = f[i].name
        /\ left \in Slot /\ left.count = f[i].count - n
        /\ left = Empty \/ left.name = f[i].name
    <2>1. f[i].count - n \in 0 .. f[i].count /\ n \in 0 .. f[i].count
      BY <1>1
    <2> QED BY <1>1, <1>3, <2>1, OfIsSlot, HasOf DEF Of
  <1>5. \A x : /\ Has(item, x) = IF f[i].name = x THEN n ELSE 0
               /\ Has(left, x)
                      = IF f[i].name = x THEN f[i].count - n ELSE 0
    BY <1>1, <1>3, HasOf
  <1>6. g = IF item = Empty THEN f
            ELSE IF rest = item THEN [f EXCEPT ![i] = f[j], ![j] = f[i]]
            ELSE [f EXCEPT ![j] = Added(f[j], item),
                           ![i] = IF rest = Empty THEN left
                                  ELSE Added(left, rest)]
    BY <1>1 DEF MoveItem
  <1> HIDE DEF item, left
  <1>7. item # Empty
    BY <1>1, <1>4 DEF Empty
  <1>8. /\ r \in 0 .. n
        /\ rest = Of(item, n - r)
        /\ r = 0 => rest = item
        /\ r = n => rest = Empty
        /\ \A x : Has(Added(f[j], item), x)
                      = Has(f[j], x) + IF f[i].name = x THEN r ELSE 0
    BY <1>4, AddedOf
  <1>9. n - r \in 0 .. n
    BY <1>1, <1>8
  <1>10. /\ rest \in Slot /\ rest.count = n - r
         /\ rest # Empty => rest.name = f[i].name
         /\ \A x : Has(rest, x) = IF f[i].name = x THEN n - r ELSE 0
    <2> HIDE DEF r, rest
    <2>1. n - r \in 0 .. item.count
      BY <1>4, <1>9
    <2>2. /\ Of(item, n - r) \in Slot /\ Of(item, n - r).count = n - r
          /\ n - r # 0 => Of(item, n - r).name = item.name
          /\ \A x : Has(Of(item, n - r), x) = IF item.name = x THEN n - r ELSE 0
      BY <1>4, <2>1, OfIsSlot, HasOf
    <2>3. n - r = 0 => Of(item, n - r) = Empty
      BY DEF Of
    <2> QED BY <1>4, <1>8, <2>2, <2>3
  <1> HIDE DEF r, rest
  <1>11. r # 0 => rest # item
    <2>1. r # 0 => n - r # n
      BY <1>1, <1>8
    <2> QED BY <1>4, <1>10, <2>1
  <1>12. r = 0 => g[i] = f[j] /\ g[j] = f[i]
    BY <1>6, <1>7, <1>8
  <1>13. r # 0 => /\ g[j] = Added(f[j], item)
                  /\ g[i] = IF rest = Empty THEN left ELSE Added(left, rest)
    BY <1>6, <1>7, <1>11
  <1>14. r # 0 => Moves(f, g, i, j, r)
    <2> SUFFICES ASSUME r # 0, NEW x
                 PROVE  /\ Has(g[i], x)
                               = Has(f[i], x) - IF f[i].name = x THEN r ELSE 0
                        /\ Has(g[j], x)
                               = Has(f[j], x) + IF f[i].name = x THEN r ELSE 0
      BY DEF Moves
    <2>1. Has(f[i], x) = IF f[i].name = x THEN f[i].count ELSE 0
      BY DEF Has
    <2>2. Has(g[i], x) = Has(left, x) + Has(rest, x)
      <3>1. CASE rest = Empty
        BY <1>4, <1>13, <3>1, HasIsInt DEF Has, Empty
      <3>2. CASE rest # Empty
        <4>1. Room(left, rest) = rest.count
          <5>1. CASE left = Empty
            BY <5>1 DEF Room
          <5>2. CASE left # Empty
            <6>1. left.name = rest.name
              BY <1>4, <1>10, <3>2, <5>2
            <6>2. rest.count <= stack_max - left.count
              BY <1>1, <1>4, <1>8, <1>10
            <6>3. rest.count \in Nat /\ stack_max - left.count \in Int
              BY <1>1, <1>4, <1>8, <1>10
            <6> QED BY <5>2, <6>1, <6>2, <6>3 DEF Room, AtMost
          <5> QED BY <5>1, <5>2
        <4>2. Has(Added(left, rest), x)
                  = Has(left, x) + IF rest.name = x THEN rest.count ELSE 0
          BY <1>4, <1>10, <4>1, AddedOf
        <4> QED BY <1>13, <3>2, <4>2 DEF Has
      <3> QED BY <3>1, <3>2
    <2>3. Has(left, x) + Has(rest, x)
              = Has(f[i], x) - IF f[i].name = x THEN r ELSE 0
      <3>1. CASE f[i].name = x
        BY <1>1, <1>5, <1>8, <1>10, <2>1, <3>1
      <3>2. CASE f[i].name # x
        BY <1>5, <1>10, <2>1, <3>2
      <3> QED BY <3>1, <3>2
    <2> QED BY <1>8, <1>13, <2>2, <2>3
  <1>15. r = n => g[i] = left /\ g[j] = Added(f[j], item)
    BY <1>1, <1>8, <1>13
  <1> QED BY <1>3, <1>8, <1>12, <1>14, <1>15 DEF r, item, left

-----------------------------------------------------------------------------
(* What the server does to the items there are. *)

\* IMoveAction::apply for n items from i to j.
MoveOf(i, j, n, take, put, emptied) ==
    /\ i = Head(actions).from /\ j = Head(actions).to
    /\ i \in Kept /\ j \in Kept
    /\ n \in 0 .. inv[i].count
    /\ take # Infinite => n <= take
    /\ put # Infinite => n <= put
    /\ i \notin Chest => take = NoLimit
    /\ j \notin Chest => put = NoLimit
    /\ {i, j} \subseteq Chest /\ i[1] = j[1] => take = put
    /\ emptied => inv' = [inv EXCEPT ![i] = Empty] /\ UNCHANGED log
    /\ ~emptied /\ n = 0 => UNCHANGED <<inv, log>>
    /\ ~emptied /\ n # 0 =>
           /\ inv' = ApplyMove(i, j, n, take, put)
           /\ log' = log \o MoveEntries(i, j, Of(inv[i], n), take, put)
    /\ made' = IF emptied \/ Infinite \in {take, put}
               THEN Gain(inv, inv') ELSE made
    /\ inexact' = \/ inexact
                  \/ emptied /\ i \in Chest
                  \/ n > 0 /\ take = Infinite /\ put = Infinite
                  \/ /\ n > 0 /\ i # j /\ {i, j} \cap Chest # {}
                     /\ put # Infinite /\ Room(inv[j], Of(inv[i], n)) < n
                     /\ take # Infinite \/ j \in Chest
    /\ UNCHANGED ground

\* What is moved is no more than asked for, allowed, and there.
LEMMA ReceiveMoveIs ==
    ASSUME Typed, NEW interact \in BOOLEAN, NEW emptied \in BOOLEAN,
           NEW take \in Answers, NEW put \in Answers,
           ReceiveMove(interact, take, put, emptied)
    PROVE  \E i, j, n : MoveOf(i, j, n, take, put, emptied)
  <1> DEFINE a == Head(actions)
             i == a.from
             j == a.to
             asked == IF a.count = 0 THEN inv[i].count ELSE a.count
             there == IF emptied THEN 0 ELSE inv[i].count
             n == Allowed(asked, take, put, there)
  <1>1. a.type = "move" /\ a \in Action
    BY FirstAction DEF ReceiveMove, Receive, Typed
  <1>2. i \in Kept /\ j \in Kept /\ a.count \in Nat
    BY <1>1 DEF Action, Counts
  <1>3. inv[i] \in Slot
    BY <1>2, SlotFacts DEF Typed
  <1>4. asked \in Nat /\ there \in 0 .. inv[i].count /\ inv[i].count \in Nat
    BY <1>2, <1>3, StackFacts
  <1>5. /\ n \in 0 .. inv[i].count
        /\ take # Infinite => n <= take
        /\ put # Infinite => n <= put
    <2> HIDE DEF asked, there, i
    <2> QED BY <1>4 DEF Allowed, AtMost, Answers, Infinite, NoLimit
  <1>6. MoveOf(i, j, n, take, put, emptied)
    BY <1>2, <1>5 DEF MoveOf, ReceiveMove
  <1> QED BY <1>6

\* A move that resets no infinite stack.
LEMMA PlainMove ==
    ASSUME NEW i, NEW j, NEW n, NEW take, NEW put,
           take # Infinite, put # Infinite
    PROVE  ApplyMove(i, j, n, take, put) = MoveItem(inv, i, j, n)
  BY DEF ApplyMove

\* On a slot itself, nothing moves.
LEMMA NoMove ==
    ASSUME NEW f, NEW i, NEW n PROVE MoveItem(f, i, i, n) = f
  BY DEF MoveItem

\* What was gained less what was explained is what there was.
Accounts ==
    /\ ground' \in [Items -> Nat]
    /\ made' \in [Items -> Int]
    /\ inexact' \in BOOLEAN
    /\ \A x \in Items :
           Count(inv', Kept, x) + ground'[x] - made'[x]
               = Count(inv, Kept, x) + ground[x] - made[x]

\* The invariant, beside the types of the slots.
Accounted ==
    /\ ground \in [Items -> Nat]
    /\ made \in [Items -> Int]
    /\ inexact \in BOOLEAN
    /\ ItemsKept

\* The slots that are counted.
LEMMA KeptFacts ==
    /\ Kept \in SUBSET Slots /\ IsFiniteSet(Kept)
    /\ Chest \in SUBSET Slots /\ IsFiniteSet(Chest)
    /\ Chest \subseteq Kept
  <1>1. CraftPreview \notin Chest
    BY SlotFacts
  <1> QED BY <1>1, SlotFacts, SlotsAreFinite DEF Kept

LEMMA ChestFacts ==
    ASSUME NEW name
    PROVE  /\ ChestOf(name) \in SUBSET Slots /\ IsFiniteSet(ChestOf(name))
           /\ ChestOf(name) \subseteq Chest
  <1>1. ChestOf(name) \subseteq Chest
    BY DEF ChestOf
  <1> QED BY <1>1, KeptFacts, FS_Subset

\* A step that explains what it changes keeps the sum.
LEMMA AccountsKeeps ==
    ASSUME Typed, Typed', Accounted, Accounts PROVE Accounted'
  <1>1. ASSUME NEW x \in Items
        PROVE  Count(inv', Kept, x) + ground'[x] = made'[x] +
                   IF x = Ingredient THEN stack_max * Cardinality(Full) ELSE 0
    <2>1. Count(inv, Kept, x) \in Int /\ Count(inv', Kept, x) \in Int
      <3>1. inv' \in [Slots -> Slot]
        BY DEF Typed
      <3>2. PICK g : g = inv'
        OBVIOUS
      <3>3. Count(g, Kept, x) \in Int
        BY <3>1, <3>2, KeptFacts, CountIsInt
      <3> QED BY <3>2, <3>3, KeptFacts, CountIsInt DEF Typed
    <2>2. /\ ground[x] \in Int /\ ground'[x] \in Int
          /\ made[x] \in Int /\ made'[x] \in Int
      BY DEF Accounted, Accounts
    <2>3. /\ Count(inv', Kept, x) + ground'[x] - made'[x]
                 = Count(inv, Kept, x) + ground[x] - made[x]
          /\ Count(inv, Kept, x) + ground[x] = made[x] +
                 IF x = Ingredient THEN stack_max * Cardinality(Full) ELSE 0
      BY DEF Accounted, Accounts, ItemsKept
    <2> DEFINE e == IF x = Ingredient THEN stack_max * Cardinality(Full) ELSE 0
               c == Count(inv, Kept, x)
               d == Count(inv', Kept, x)
    <2>4. e = c + ground[x] - made[x]
      <3>1. e \in Int
        <4>1. Cardinality(Full) \in Nat
          BY SlotsAreFinite, FS_CardinalityType
        <4> QED BY <4>1, StackFacts
      <3> HIDE DEF e, c
      <3>2. c \in Int /\ c + ground[x] = made[x] + e
        BY <2>1, <2>3 DEF e, c
      <3> QED BY <2>2, <3>1, <3>2
    <2> HIDE DEF e, c, d
    <2>5. c \in Int /\ d \in Int
          /\ d + ground'[x] - made'[x] = c + ground[x] - made[x]
      BY <2>1, <2>3 DEF c, d
    <2>6. d + ground'[x] = made'[x] + e
      BY <2>2, <2>4, <2>5
    <2> QED BY <2>6 DEF d, e
  <1>2. ItemsKept'
    BY <1>1 DEF ItemsKept
  <1> QED BY <1>2 DEF Accounted, Accounts

\* The same items are in the slots that are kept.
LEMMA SameItems ==
    ASSUME Typed, Typed', \A s \in Kept : inv'[s] = inv[s]
    PROVE  \A x : Count(inv', Kept, x) = Count(inv, Kept, x)
  <1> SUFFICES ASSUME NEW x
               PROVE  Count(inv', Kept, x) = Count(inv, Kept, x)
    OBVIOUS
  <1>1. PICK g : g = inv'
    OBVIOUS
  <1>2. g \in [Slots -> Slot] /\ inv \in [Slots -> Slot]
    BY <1>1 DEF Typed
  <1>3. \A s \in Kept : Has(g[s], x) \in Int /\ Has(inv[s], x) \in Int
    BY <1>2, HasIsInt, KeptFacts
  <1>4. CraftPreview \notin Kept
    BY SlotFacts
  <1>5. \A s \in Kept \ {CraftPreview} : Has(g[s], x) = Has(inv[s], x)
    BY <1>1
  <1>6. More(Kept, inv, g, CraftPreview, x) = 0
    BY <1>4 DEF More
  <1>7. /\ Count(inv, Kept, x) \in Int
        /\ Count(g, Kept, x) = Count(inv, Kept, x)
                                   + More(Kept, inv, g, CraftPreview, x)
    BY <1>3, <1>5, KeptFacts, OneSlotChanges
  <1> QED BY <1>1, <1>6, <1>7

\* What a script does is accounted for.
LEMMA GainAccounts ==
    ASSUME Typed, Typed', Accounted, made' = Gain(inv, inv'),
           UNCHANGED ground, inexact' \in BOOLEAN
    PROVE  Accounts
  <1>1. PICK g : g = inv'
    OBVIOUS
  <1>2. g \in [Slots -> Slot] /\ inv \in [Slots -> Slot]
    BY <1>1 DEF Typed
  <1>3. \A x : Count(g, Kept, x) \in Int /\ Count(inv, Kept, x) \in Int
    BY <1>2, CountIsInt, KeptFacts
  <1>4. made \in [Items -> Int] /\ ground \in [Items -> Nat]
    BY DEF Accounted
  <1>5. made' = Gain(inv, g)
    BY <1>1
  <1>6. \A x \in Items :
            made'[x] = made[x] + Count(g, Kept, x) - Count(inv, Kept, x)
    BY <1>5 DEF Gain
  <1>7. made' \in [Items -> Int]
    <2>1. \A x \in Items :
              made[x] + Count(g, Kept, x) - Count(inv, Kept, x) \in Int
      BY <1>3, <1>4
    <2> QED BY <1>5, <2>1 DEF Gain
  <1>8. ASSUME NEW x \in Items
        PROVE  Count(g, Kept, x) + ground[x] - made'[x]
                   = Count(inv, Kept, x) + ground[x] - made[x]
    <2>1. /\ made[x] \in Int /\ ground[x] \in Int /\ made'[x] \in Int
          /\ Count(g, Kept, x) \in Int /\ Count(inv, Kept, x) \in Int
          /\ made'[x] = made[x] + Count(g, Kept, x) - Count(inv, Kept, x)
      BY <1>3, <1>4, <1>6
    <2> QED BY <2>1
  <1> QED BY <1>1, <1>4, <1>7, <1>8 DEF Accounts

\* The count of the slots that are kept, when two of them change.
LEMMA TwoKeptChange ==
    ASSUME Typed, Typed', NEW i \in Kept, NEW j \in Kept, i # j,
           \A s \in Slots \ {i, j} : inv'[s] = inv[s], NEW x
    PROVE  /\ Has(inv'[i], x) \in Int /\ Has(inv[i], x) \in Int
           /\ Has(inv'[j], x) \in Int /\ Has(inv[j], x) \in Int
           /\ Count(inv', Kept, x) \in Int /\ Count(inv, Kept, x) \in Int
           /\ Count(inv', Kept, x)
                  = Count(inv, Kept, x) + (Has(inv'[i], x) - Has(inv[i], x))
                                        + (Has(inv'[j], x) - Has(inv[j], x))
  <1>1. PICK g : g = inv'
    OBVIOUS
  <1>2. g \in [Slots -> Slot] /\ inv \in [Slots -> Slot]
    BY <1>1 DEF Typed
  <1>3. i \in Slots /\ j \in Slots
    BY KeptFacts
  <1>4. /\ Has(g[i], x) \in Int /\ Has(inv[i], x) \in Int
        /\ Has(g[j], x) \in Int /\ Has(inv[j], x) \in Int
    BY <1>2, <1>3, HasIsInt
  <1>5. \A s \in Slots \ {i, j} : g[s] = inv[s]
    BY <1>1
  <1>6. /\ Count(inv, Kept, x) \in Int /\ Count(g, Kept, x) \in Int
        /\ Count(g, Kept, x) = Count(inv, Kept, x)
               + More(Kept, inv, g, i, x) + More(Kept, inv, g, j, x)
    BY <1>2, <1>3, <1>5, KeptFacts, TwoSlotsChange
  <1>7. /\ More(Kept, inv, g, i, x) = Has(g[i], x) - Has(inv[i], x)
        /\ More(Kept, inv, g, j, x) = Has(g[j], x) - Has(inv[j], x)
    BY DEF More
  <1> QED BY <1>1, <1>4, <1>6, <1>7

\* If the items of two slots are exchanged or go from one to the other.
LEMMA ExchangeAccounts ==
    ASSUME Typed, Typed', Accounted, NEW i \in Kept, NEW j \in Kept, i # j,
           \A s \in Slots \ {i, j} : inv'[s] = inv[s],
           \A x : Has(inv'[i], x) + Has(inv'[j], x)
                      = Has(inv[i], x) + Has(inv[j], x),
           UNCHANGED <<ground, made>>, inexact' \in BOOLEAN
    PROVE  Accounts
  <1>1. ASSUME NEW x \in Items
        PROVE  Count(inv', Kept, x) + ground'[x] - made'[x]
                   = Count(inv, Kept, x) + ground[x] - made[x]
    <2> DEFINE hi == Has(inv[i], x)
               hj == Has(inv[j], x)
               gi == Has(inv'[i], x)
               gj == Has(inv'[j], x)
               c == Count(inv, Kept, x)
               d == Count(inv', Kept, x)
    <2>1. /\ gi \in Int /\ hi \in Int /\ gj \in Int /\ hj \in Int
          /\ d \in Int /\ c \in Int
          /\ d = c + (gi - hi) + (gj - hj)
      BY TwoKeptChange
    <2>2. gi + gj = hi + hj
      OBVIOUS
    <2> HIDE DEF hi, hj, gi, gj, c, d
    <2>3. d = c
      BY <2>1, <2>2
    <2> QED BY <2>3 DEF c, d
  <1> QED BY <1>1 DEF Accounts, Accounted

\* If the same is in all the slots.
LEMMA UnchangedAccounts ==
    ASSUME Typed, Typed', Accounted, \A s \in Kept : inv'[s] = inv[s],
           UNCHANGED <<ground, made>>, inexact' \in BOOLEAN
    PROVE  Accounts
  BY SameItems DEF Accounts, Accounted

\* What does not fit is put back, what is in the way is exchanged.
LEMMA MoveAccounts ==
    ASSUME Typed, Typed', Accounted, NEW i, NEW j, NEW n, NEW take, NEW put,
           NEW emptied \in BOOLEAN, MoveOf(i, j, n, take, put, emptied)
    PROVE  Accounts
  <1>1. inexact' \in BOOLEAN /\ UNCHANGED ground
    BY DEF MoveOf, Accounted
  <1>2. i \in Kept /\ j \in Kept /\ i \in Slots /\ j \in Slots
    BY KeptFacts DEF MoveOf
  <1>3. CASE emptied \/ Infinite \in {take, put}
    BY <1>1, <1>3, GainAccounts DEF MoveOf
  <1>4. CASE ~emptied /\ n = 0 /\ Infinite \notin {take, put}
    BY <1>1, <1>4, UnchangedAccounts DEF MoveOf
  <1>5. CASE ~emptied /\ n # 0 /\ Infinite \notin {take, put}
    <2>1. /\ UNCHANGED made
          /\ n \in 1 .. inv[i].count
          /\ inv' = MoveItem(inv, i, j, n)
      <3>1. inv[i].count \in Nat
        BY <1>2, StackFacts DEF Typed
      <3> QED BY <1>5, <3>1, PlainMove DEF MoveOf
    <2>2. CASE i = j
      <3>1. inv' = inv
        BY <2>1, <2>2, NoMove
      <3> QED BY <1>1, <2>1, <3>1, UnchangedAccounts
    <2>3. CASE i # j
      <3> DEFINE r == Room(inv[j], Of(inv[i], n))
      <3>1. PICK g : g = inv'
        OBVIOUS
      <3>2. /\ inv \in [Slots -> Slot] /\ n \in Nat
            /\ g = MoveItem(inv, i, j, n)
        BY <2>1, <3>1, <1>2, StackFacts DEF Typed
      <3>3. \A s \in Slots \ {i, j} : g[s] = inv[s]
        BY <1>2, <3>2, MoveItemType
      <3>4. /\ r \in 0 .. n
            /\ r = 0 => g[i] = inv[j] /\ g[j] = inv[i]
            /\ r # 0 => Moves(inv, g, i, j, r)
        BY <1>2, <2>1, <2>3, <3>2, MoveItemMoves
      <3>5. \A x : /\ Has(inv[i], x) \in Int /\ Has(inv[j], x) \in Int
                   /\ Has(g[i], x) \in Int /\ Has(g[j], x) \in Int
        BY <1>2, <3>1, HasIsInt DEF Typed
      <3> HIDE DEF r
      <3>6. \A x : Has(g[i], x) + Has(g[j], x) = Has(inv[i], x) + Has(inv[j], x)
        <4>1. CASE r = 0
          BY <3>4, <3>5, <4>1
        <4>2. CASE r # 0
          <5>1. r \in Int
            BY <3>2, <3>4
          <5> QED BY <3>4, <3>5, <4>2, <5>1 DEF Moves
        <4> QED BY <4>1, <4>2
      <3> QED BY <1>1, <1>2, <2>1, <2>3, <3>1, <3>3, <3>6, ExchangeAccounts
    <2> QED BY <2>2, <2>3
  <1> QED BY <1>3, <1>4, <1>5

\* What on_drop drops is on the ground.
LEMMA DropAccounts ==
    ASSUME Typed, Typed', Accounted, NEW interact \in BOOLEAN,
           NEW take \in Answers, NEW dropped \in 0 .. stack_max,
           ReceiveDrop(interact, take, dropped)
    PROVE  Accounts
  <1> DEFINE a == Head(actions)
             i == a.from
             st == inv[i]
  <1>1. a.type = "drop" /\ a \in Action
    BY FirstAction DEF ReceiveDrop, Receive, Typed
  <1>2. i \in Kept /\ i \in Slots /\ a.count \in Nat /\ st \in Slot
    <2>1. i \in Kept /\ a.count \in Nat
      BY <1>1 DEF Action, Counts
    <2> QED BY <2>1, KeptFacts DEF Typed
  <1>3. dropped \in 0 .. st.count
    <2> DEFINE asked == IF a.count = 0 THEN st.count
                        ELSE AtMost(a.count, st.count)
               count == IF take = Infinite THEN asked ELSE AtMost(asked, take)
    <2>1. st.count \in Nat
      BY <1>2, StackFacts
    <2>2. asked \in 0 .. st.count
      BY <1>2, <2>1 DEF AtMost
    <2>3. dropped \in 0 .. count
      BY DEF ReceiveDrop
    <2> HIDE DEF asked
    <2>4. count \in 0 .. st.count
      BY <2>1, <2>2 DEF AtMost, Answers, Infinite, NoLimit
    <2> HIDE DEF count
    <2> QED BY <2>1, <2>3, <2>4
  <1>4. /\ inv' = IF take = Infinite THEN inv
                  ELSE [inv EXCEPT ![i] = Left(inv[i], dropped)]
        /\ ground' = [x \in Items |-> ground[x] +
                         (IF x = st.name THEN dropped ELSE 0)]
        /\ made' = [x \in Items |-> made[x] +
                       (IF x = st.name /\ take = Infinite
                        THEN dropped ELSE 0)]
        /\ UNCHANGED inexact
    BY <1>2 DEF ReceiveDrop, Typed
  <1> HIDE DEF i, st
  <1>5. st.count \in Nat /\ dropped \in Nat /\ dropped <= st.count
    BY <1>2, <1>3, StackFacts
  <1>6. /\ ground' \in [Items -> Nat] /\ made' \in [Items -> Int]
        /\ inexact' \in BOOLEAN
    BY <1>4, <1>5 DEF Accounted
  <1>7. \A x : Has(Left(st, dropped), x)
                   = Has(st, x) - IF x = st.name THEN dropped ELSE 0
    <2>1. AtMost(dropped, st.count) = dropped
      BY <1>5 DEF AtMost
    <2>2. Left(st, dropped) = Of(st, st.count - dropped)
      BY <2>1 DEF Left
    <2>3. st.count - dropped \in 0 .. st.count
      BY <1>5
    <2>4. \A x : Has(Left(st, dropped), x)
                     = IF st.name = x THEN st.count - dropped ELSE 0
      BY <1>2, <2>2, <2>3, HasOf
    <2> QED BY <1>5, <2>4 DEF Has
  <1>8. ASSUME NEW x \in Items
        PROVE  Count(inv', Kept, x) + ground'[x] - made'[x]
                   = Count(inv, Kept, x) + ground[x] - made[x]
    <2> DEFINE e == IF x = st.name THEN dropped ELSE 0
    <2>1. /\ ground[x] \in Int /\ made[x] \in Int /\ e \in Int
          /\ ground'[x] = ground[x] + e
          /\ made'[x] = made[x] + IF take = Infinite THEN e ELSE 0
      BY <1>4, <1>5 DEF Accounted
    <2>2. Count(inv, Kept, x) \in Int
      BY KeptFacts, CountIsInt DEF Typed
    <2>3. CASE take = Infinite
      BY <1>4, <2>1, <2>2, <2>3
    <2>4. CASE take # Infinite
      <3>1. PICK g : g = inv'
        OBVIOUS
      <3>2. /\ g \in [Slots -> Slot]
            /\ g[i] = Left(st, dropped)
            /\ \A s \in Slots \ {i} : g[s] = inv[s]
        BY <1>2, <1>4, <2>4, <3>1 DEF Typed, st
      <3>3. \A s \in Kept : Has(g[s], x) \in Int /\ Has(inv[s], x) \in Int
        BY <3>2, HasIsInt, KeptFacts DEF Typed
      <3>4. \A s \in Kept \ {i} : Has(g[s], x) = Has(inv[s], x)
        BY <3>2, KeptFacts
      <3>5. Count(g, Kept, x) \in Int
            /\ Count(g, Kept, x)
                   = Count(inv, Kept, x) + More(Kept, inv, g, i, x)
        BY <3>3, <3>4, KeptFacts, OneSlotChanges
      <3>6. More(Kept, inv, g, i, x) = -e
        <4>1. Has(g[i], x) = Has(inv[i], x) - e
          BY <1>7, <3>2 DEF st
        <4>2. Has(inv[i], x) \in Int /\ Has(g[i], x) \in Int
          BY <1>2, <3>3
        <4> HIDE DEF e
        <4>3. Has(g[i], x) - Has(inv[i], x) = -e
          BY <2>1, <4>1, <4>2
        <4> QED BY <1>2, <4>3 DEF More
      <3> HIDE DEF e
      <3>7. Count(g, Kept, x) = Count(inv, Kept, x) - e
        BY <2>1, <2>2, <3>5, <3>6
      <3> QED BY <2>1, <2>2, <2>4, <3>1, <3>5, <3>7
    <2> QED BY <2>3, <2>4
  <1> QED BY <1>6, <1>8 DEF Accounts

\* What is used up, and what is made of it.
LEMMA CraftAccounts ==
    ASSUME Typed, Typed', Accounted, NEW interact \in BOOLEAN,
           ReceiveCraft(interact)
    PROVE  Accounts
  <1> DEFINE n == Head(actions).count
             ingredients == IF inv[Craft].name = Ingredient
                            THEN inv[Craft].count ELSE 0
             all == [name |-> Product, count |-> ingredients]
             able == Room(inv[CraftResult], all)
             times == IF n = 0 THEN able ELSE AtMost(n, able)
             crafted == [name |-> Product, count |-> times]
  <1>1. /\ inv' = IF times = 0 THEN inv
                  ELSE [inv EXCEPT ![Craft] = Left(@, times),
                                   ![CraftResult] = Added(@, crafted)]
        /\ made' = [made EXCEPT ![Ingredient] = @ - times,
                                ![Product] = @ + times]
        /\ UNCHANGED <<ground, inexact>>
        /\ Head(actions).type = "craft" /\ Head(actions) \in Action
    BY FirstAction DEF ReceiveCraft, Receive, Typed
  <1>2. n \in Nat
    BY <1>1 DEF Action, Counts
  <1>3. /\ Craft \in Kept /\ CraftResult \in Kept /\ Craft # CraftResult
        /\ Craft \in Slots /\ CraftResult \in Slots
    BY SlotFacts DEF Kept, Craft, CraftResult, CraftPreview
  <1>4. inv[Craft] \in Slot /\ inv[CraftResult] \in Slot
    BY <1>3 DEF Typed
  <1>5. /\ inv[Craft].count \in Nat /\ inv[CraftResult].count \in 0 .. stack_max
        /\ stack_max \in Nat
    BY <1>4, StackFacts
  <1>6. ingredients \in 0 .. inv[Craft].count
    BY <1>5
  <1> DEFINE room == stack_max - inv[CraftResult].count
  <1>7. /\ able \in 0 .. ingredients
        /\ \/ inv[CraftResult] = Empty
           \/ inv[CraftResult].name = Product /\ able <= room
           \/ able = 0
    <2>1. all.name = Product /\ all.count = ingredients
      OBVIOUS
    <2> HIDE DEF all, ingredients
    <2> QED BY <1>5, <1>6, <2>1 DEF Room, AtMost
  <1>8. times \in 0 .. able
    <2> HIDE DEF able, n
    <2>1. able \in Nat
      BY <1>6, <1>7
    <2> QED BY <1>2, <2>1 DEF AtMost
  <1>9. times # 0 => inv[Craft].name = Ingredient
    BY <1>7, <1>8
  <1> HIDE DEF able, ingredients, n
  <1>10. times \in Nat /\ times <= inv[Craft].count
    BY <1>5, <1>6, <1>7, <1>8
  <1>11. Ingredient \in Items /\ Product \in Items
    BY InventoriesConstants
  <1> DEFINE used(x) == IF x = Ingredient THEN times ELSE 0
             got(x) == IF x = Product THEN times ELSE 0
  <1>12. /\ made' \in [Items -> Int] /\ made \in [Items -> Int]
         /\ \A x \in Items : made'[x] = made[x] - used(x) + got(x)
    <2>1. made \in [Items -> Int]
      BY DEF Accounted
    <2> HIDE DEF times
    <2> QED BY <1>1, <1>10, <1>11, <2>1
  <1>13. ground' = ground /\ ground \in [Items -> Nat] /\ inexact' \in BOOLEAN
    BY <1>1 DEF Accounted
  <1>14. CASE times = 0
    <2>1. inv' = inv
      BY <1>1, <1>14
    <2> HIDE DEF times
    <2>2. \A x \in Items : made'[x] = made[x]
      BY <1>12, <1>14
    <2> QED BY <1>12, <1>13, <2>1, <2>2 DEF Accounts
  <1>15. CASE times # 0
    <2> DEFINE g == inv'
    <2>1. /\ inv'[Craft] = Left(inv[Craft], times)
          /\ inv'[CraftResult] = Added(inv[CraftResult], crafted)
          /\ \A s \in Slots \ {Craft, CraftResult} : inv'[s] = inv[s]
      <3> HIDE DEF times, crafted
      <3>1. inv' = [inv EXCEPT ![Craft] = Left(@, times),
                               ![CraftResult] = Added(@, crafted)]
        BY <1>1, <1>15 DEF crafted
      <3> QED BY <1>3, <3>1 DEF Typed
    <2>2. crafted \in Slot /\ crafted.count = times /\ crafted.name = Product
      <3> HIDE DEF times
      <3>1. times \in 1 .. stack_max
        BY <1>4, <1>5, <1>10, <1>15, StackFacts
      <3> QED BY <1>11, <3>1 DEF Slot, Stack
    <2>3. Room(inv[CraftResult], crafted) = times
      <3> HIDE DEF times, crafted
      <3> QED BY <1>5, <1>7, <1>8, <1>10, <1>15, <2>2 DEF Room, AtMost
    <2> HIDE DEF times, crafted
    <2>4. \A x : Has(inv'[CraftResult], x) = Has(inv[CraftResult], x) + got(x)
      <3>1. \A x : Has(Added(inv[CraftResult], crafted), x)
                       = Has(inv[CraftResult], x)
                             + IF crafted.name = x THEN times ELSE 0
        BY <1>4, <2>2, <2>3, AddedOf
      <3> QED BY <2>1, <2>2, <3>1
    <2>5. \A x : Has(inv'[Craft], x) = Has(inv[Craft], x) - used(x)
      <3>1. AtMost(times, inv[Craft].count) = times
        BY <1>5, <1>10 DEF AtMost
      <3>2. Left(inv[Craft], times)
                = Of(inv[Craft], inv[Craft].count - times)
        BY <3>1 DEF Left
      <3>3. inv[Craft].count - times \in 0 .. inv[Craft].count
        BY <1>5, <1>10
      <3>4. \A x : Has(Left(inv[Craft], times), x)
                       = IF inv[Craft].name = x
                         THEN inv[Craft].count - times ELSE 0
        BY <1>4, <3>2, <3>3, HasOf
      <3> SUFFICES ASSUME NEW x
                   PROVE  Has(inv'[Craft], x) = Has(inv[Craft], x) - used(x)
        OBVIOUS
      <3>5. Has(inv'[Craft], x) = IF Ingredient = x
                                  THEN inv[Craft].count - times ELSE 0
        BY <1>9, <1>15, <2>1, <3>4
      <3>6. Has(inv[Craft], x) = IF Ingredient = x THEN inv[Craft].count ELSE 0
        BY <1>9, <1>15 DEF Has
      <3>7. CASE x = Ingredient
        BY <3>5, <3>6, <3>7
      <3>8. CASE x # Ingredient
        BY <3>5, <3>6, <3>8
      <3> QED BY <3>7, <3>8
    <2>6. ASSUME NEW x \in Items
          PROVE  Count(inv', Kept, x) + ground'[x] - made'[x]
                     = Count(inv, Kept, x) + ground[x] - made[x]
      <3> DEFINE c == Count(inv, Kept, x)
                 d == Count(inv', Kept, x)
                 hi == Has(inv[Craft], x)
                 hj == Has(inv[CraftResult], x)
                 gi == Has(inv'[Craft], x)
                 gj == Has(inv'[CraftResult], x)
      <3>1. /\ gi \in Int /\ hi \in Int /\ gj \in Int /\ hj \in Int
            /\ d \in Int /\ c \in Int
            /\ d = c + (gi - hi) + (gj - hj)
        BY <1>3, <2>1, TwoKeptChange
      <3>2. gi = hi - used(x) /\ gj = hj + got(x)
        BY <2>4, <2>5
      <3>3. /\ made'[x] = made[x] - used(x) + got(x)
            /\ made[x] \in Int /\ ground[x] \in Int
            /\ used(x) \in Int /\ got(x) \in Int
        BY <1>10, <1>12, <1>13
      <3> HIDE DEF c, d, hi, hj, gi, gj, used, got
      <3>4. d = c - used(x) + got(x)
        BY <3>1, <3>2, <3>3
      <3>5. d + ground[x] - made'[x] = c + ground[x] - made[x]
        <4>1. PICK u, v, m, w : /\ u = used(x) /\ v = got(x) /\ m = made[x]
                                /\ w = made'[x]
          OBVIOUS
        <4>2. /\ d \in Int /\ c \in Int /\ u \in Int /\ v \in Int /\ m \in Int
              /\ ground[x] \in Int /\ w = m - u + v /\ d = c - u + v
          BY <3>1, <3>3, <3>4, <4>1
        <4>3. d + ground[x] - w = c + ground[x] - m
          BY <4>2
        <4> QED BY <4>1, <4>3
      <3> QED BY <1>13, <3>5 DEF c, d
    <2> QED BY <1>12, <1>13, <2>6 DEF Accounts
  <1> QED BY <1>14, <1>15

\* At first there is only what the full slots have.
LEMMA AccountedInit == ASSUME Init, Typed PROVE Accounted
  <1>1. /\ ground = [x \in Items |-> 0] /\ made = [x \in Items |-> 0]
        /\ inexact = FALSE
        /\ inv = [s \in Slots |-> IF s \in Full
                                  THEN [name |-> Ingredient,
                                        count |-> stack_max]
                                  ELSE Empty]
    BY DEF Init
  <1>2. /\ stack_max \in Nat /\ IsFiniteSet(Kept) /\ Kept \subseteq Slots
        /\ IsFiniteSet(Full)
    BY InventoriesConstants, KeptFacts, SlotsAreFinite
  <1>3. ASSUME NEW x \in Items
        PROVE  Count(inv, Kept, x)
                   = IF x = Ingredient THEN stack_max * Cardinality(Full) ELSE 0
    <2> DEFINE each == IF x = Ingredient THEN stack_max ELSE 0
               choice == [s \in SUBSET Kept |-> CHOOSE y \in s : TRUE]
               P == [s \in SUBSET Kept |->
                        {t \in Int : t = each * Cardinality(s \cap Full)}]
    <2>1. \A s \in Kept : Has(inv[s], x) = IF s \in Full THEN each ELSE 0
      BY <1>1, <1>2 DEF Has, Empty
    <2>2. each \in Nat
      BY <1>2
    <2> HIDE DEF each
    <2>3. PICK r : /\ IsSum(r, inv, Kept, x)
                   /\ r[Kept] = Count(inv, Kept, x)
                   /\ \A s \in SUBSET Kept : r[s] \in Int
      <3>1. \A s \in Kept : Has(inv[s], x) \in Int
        BY <2>1, <2>2
      <3> QED BY <1>2, <3>1, CountIsSum
    <2>4. r[{}] \in P[{}]
      <3>1. r[{}] = 0
        BY <2>3 DEF IsSum
      <3>2. Cardinality({} \cap Full) = 0
        BY FS_EmptySet
      <3>3. each * 0 = 0
        BY <2>2
      <3> QED BY <3>1, <3>2, <3>3
    <2>5. \A s \in SUBSET Kept :
              s # {} => /\ choice[s] \in s
                        /\ r[s \ {choice[s]}] \in P[s \ {choice[s]}]
                               => r[s] \in P[s]
      <3> SUFFICES ASSUME NEW s \in SUBSET Kept, s # {},
                          r[s \ {choice[s]}] \in P[s \ {choice[s]}]
                   PROVE  r[s] \in P[s]
        OBVIOUS
      <3> DEFINE c == CHOOSE y \in s : TRUE
                 rest == s \ {c}
      <3>1. r[s] = Has(inv[c], x) + r[rest]
        BY <2>3 DEF IsSum
      <3>2. c \in s /\ rest \in SUBSET Kept /\ choice[s] = c
        OBVIOUS
      <3> HIDE DEF c, choice
      <3>3. r[rest] = each * Cardinality(rest \cap Full) /\ r[s] \in Int
        BY <2>3, <3>2
      <3>4. /\ IsFiniteSet(rest \cap Full) /\ IsFiniteSet(s \cap Full)
            /\ Cardinality(rest \cap Full) \in Nat
        BY <1>2, FS_Subset, FS_CardinalityType
      <3>5. r[s] = each * Cardinality(s \cap Full)
        <4>1. CASE c \in Full
          <5>1. s \cap Full = (rest \cap Full) \cup {c} /\ c \notin rest
            BY <3>2, <4>1
          <5>2. Cardinality(s \cap Full) = Cardinality(rest \cap Full) + 1
            BY <3>4, <5>1, FS_AddElement
          <5>3. Has(inv[c], x) = each
            BY <2>1, <3>2, <4>1
          <5> DEFINE k == Cardinality(rest \cap Full)
          <5>4. k \in Nat /\ r[rest] = each * k /\ r[s] = each + r[rest]
            BY <3>1, <3>3, <3>4, <5>3
          <5> HIDE DEF k
          <5>5. r[s] = each * (k + 1)
            BY <2>2, <5>4
          <5> QED BY <5>2, <5>5 DEF k
        <4>2. CASE c \notin Full
          <5>1. s \cap Full = rest \cap Full
            BY <4>2
          <5>2. Has(inv[c], x) = 0
            BY <2>1, <3>2, <4>2
          <5>3. r[rest] \in Int
            BY <2>3, <3>2
          <5>4. r[s] = r[rest]
            BY <3>1, <5>2, <5>3
          <5> QED BY <3>3, <5>1, <5>4
        <4> QED BY <4>1, <4>2
      <3> QED BY <3>3, <3>5
    <2> HIDE DEF P, choice
    <2>6. \A s \in SUBSET Kept : r[s] \in P[s]
      BY <1>2, <2>4, <2>5, RunKeepsBy
    <2>7. r[Kept] \in P[Kept]
      BY <2>6
    <2>8. r[Kept] = each * Cardinality(Kept \cap Full)
      BY <2>7 DEF P
    <2>9. Kept \cap Full = Full
      BY FullFacts
    <2>10. Cardinality(Full) \in Nat
      BY <1>2, FS_CardinalityType
    <2>11. CASE x = Ingredient
      BY <2>3, <2>8, <2>9, <2>11 DEF each
    <2>12. CASE x # Ingredient
      <3>1. each = 0
        BY <2>12 DEF each
      <3>2. each * Cardinality(Full) = 0
        BY <2>10, <3>1
      <3> QED BY <2>3, <2>8, <2>9, <2>12, <3>2
    <2> QED BY <2>11, <2>12
  <1>4. ItemsKept
    <2> SUFFICES ASSUME NEW x \in Items
                 PROVE  Count(inv, Kept, x) + ground[x] = made[x] +
                            IF x = Ingredient
                            THEN stack_max * Cardinality(Full) ELSE 0
      BY DEF ItemsKept
    <2>1. ground[x] = 0 /\ made[x] = 0
      BY <1>1
    <2>2. Cardinality(Full) \in Nat
      BY <1>2, FS_CardinalityType
    <2> DEFINE e == IF x = Ingredient THEN stack_max * Cardinality(Full) ELSE 0
    <2>3. e \in Int /\ Count(inv, Kept, x) = e
      BY <1>2, <1>3, <2>2
    <2> HIDE DEF e
    <2>4. Count(inv, Kept, x) + ground[x] = made[x] + e
      BY <2>1, <2>3
    <2> QED BY <2>4 DEF e
  <1>5. ground \in [Items -> Nat] /\ made \in [Items -> Int]
    BY <1>1
  <1>6. inexact \in BOOLEAN
    BY <1>1
  <1> QED BY <1>4, <1>5, <1>6 DEF Accounted

\* The counts need the types of the slots, which are part of CopyInv.
KeptInv == CopyInv /\ Accounted

\* What the slots have at first is all there is.
LEMMA KeptInvInit == Init => KeptInv
  <1> SUFFICES ASSUME Init PROVE KeptInv
    OBVIOUS
  <1>1. CopyInv
    BY CopyInvInit
  <1> QED BY <1>1, AccountedInit DEF KeptInv, CopyInv

\* Every step explains what it changes.
LEMMA KeptInvNext == KeptInv /\ [Next]_vars => KeptInv'
  <1> SUFFICES ASSUME KeptInv, [Next]_vars PROVE KeptInv'
    OBVIOUS
  <1>1. CopyInv' /\ Typed /\ Typed' /\ Accounted
    BY CopyInvNext DEF KeptInv, CopyInv
  <1>2. Accounts => KeptInv'
    BY <1>1, AccountsKeeps DEF KeptInv
  <1>3. ASSUME inv' = inv, UNCHANGED <<ground, made, inexact>> PROVE Accounts
    BY <1>1, <1>3, UnchangedAccounts DEF Accounted
  <1>4. ASSUME NEW a, NEW p, Act(a, p) PROVE KeptInv'
    BY <1>2, <1>3, <1>4 DEF Act
  <1>5. ASSUME NEW i \in Kept, NEW j \in Kept, NEW n \in Counts, Move(i, j, n)
        PROVE  KeptInv'
    BY <1>4, <1>5 DEF Move
  <1>6. ASSUME NEW i \in Kept, NEW n \in Counts, Drop(i, n) PROVE KeptInv'
    BY <1>4, <1>6 DEF Drop
  <1>7. ASSUME NEW n \in Counts, CraftItems(n) PROVE KeptInv'
    BY <1>4, <1>7 DEF CraftItems
  <1>8. CASE ReceiveInventory \/ RevertPrediction \/ UNCHANGED vars
    BY <1>2, <1>3, <1>8 DEF ReceiveInventory, RevertPrediction, vars
  <1>9. ASSUME NEW interact \in BOOLEAN, Refuse(interact) PROVE KeptInv'
    BY <1>2, <1>3, <1>9 DEF Refuse
  <1>10. ASSUME NEW interact \in BOOLEAN, NEW emptied \in BOOLEAN,
                NEW take \in Answers, NEW put \in Answers,
                ReceiveMove(interact, take, put, emptied)
         PROVE  KeptInv'
    <2>1. PICK i, j, n : MoveOf(i, j, n, take, put, emptied)
      BY <1>1, <1>10, ReceiveMoveIs
    <2>2. Accounts
      BY <1>1, <2>1, MoveAccounts
    <2> QED BY <1>2, <2>2
  <1>11. ASSUME NEW interact \in BOOLEAN, NEW take \in Answers,
                NEW dropped \in 0 .. stack_max,
                ReceiveDrop(interact, take, dropped)
         PROVE  KeptInv'
    BY <1>1, <1>2, <1>11, DropAccounts
  <1>12. ASSUME NEW interact \in BOOLEAN, ReceiveCraft(interact) PROVE KeptInv'
    BY <1>1, <1>2, <1>12, CraftAccounts
  <1>13. CASE SendInventory
    <2>1. /\ \A s \in Slots \ {CraftPreview} : inv'[s] = inv[s]
          /\ UNCHANGED <<ground, made, inexact>>
      BY <1>1, <1>13 DEF SendInventory, Typed
    <2>2. \A s \in Kept : inv'[s] = inv[s]
      BY <2>1 DEF Kept
    <2>3. Accounts
      BY <1>1, <2>1, <2>2, UnchangedAccounts DEF Accounted
    <2> QED BY <1>2, <2>3
  <1>14. ASSUME NEW s \in Kept, NEW st \in Ones \cup {Empty}, Change(s, st)
         PROVE  KeptInv'
    <2>1. made' = Gain(inv, inv') /\ ground' = ground /\ inexact' \in BOOLEAN
      BY <1>1, <1>14 DEF Change, Accounted
    <2>2. Accounts
      BY <1>1, <2>1, GainAccounts
    <2> QED BY <1>2, <2>2
  <1> QED BY <1>5, <1>6, <1>7, <1>8, <1>9, <1>10, <1>11, <1>12, <1>13, <1>14
          DEF Next

\* So it always holds.
LEMMA KeptInvAlways == Spec => []KeptInv
  BY KeptInvInit, KeptInvNext, PTL DEF Spec

(***************************************************************************)
(* Both sides keep their types; and what was made, on purpose or by a      *)
(* script, and what lies on the ground, are numbers of each item, the      *)
(* latter never negative.                                                  *)
(***************************************************************************)
THEOREM AllTyped == Spec => []TypeOK
  <1>1. KeptInv => TypeOK
    BY DEF KeptInv, CopyInv, Typed, Accounted, TypeOK, Slot
  <1> QED BY <1>1, KeptInvAlways, PTL

(***************************************************************************)
(* No inventory action makes or loses an item: whatever the limits,        *)
(* whether the stacks are of one kind, of two, full, infinite or the same, *)
(* and with scripts that empty a slot while they are asked. The invariant  *)
(* is inductive with the types of the slots; each step explains the change *)
(* of one slot or of two, and the sums over all slots follow               *)
(* (TwoSlotsChange).                                                       *)
(***************************************************************************)
THEOREM NoItemIsLost == Spec => []ItemsKept
  <1>1. KeptInv => ItemsKept
    BY DEF KeptInv, Accounted
  <1> QED BY <1>1, KeptInvAlways, PTL

-----------------------------------------------------------------------------
(* The limits of a chest. *)

\* Numbers have a least one.
LEMMA MinOfNats ==
    ASSUME NEW S \in SUBSET Nat, S # {}
    PROVE  Min(S) \in S
  <1>1. PICK j \in S : \A k \in S : <<k, j>> \notin OpToRel(<, Nat)
    BY WFMin, NatLessThanWellFounded
  <1>2. \A k \in S : k < j => <<k, j>> \in OpToRel(<, Nat)
    BY Zenon DEF OpToRel
  <1>3. \A k \in S : ~(k < j)
    BY <1>1, <1>2
  <1>4. \A k \in S : j <= k
    BY <1>3
  <1> QED BY <1>4 DEF Min

(***************************************************************************)
(* After a move onto a stack with room, what is saved from the destination *)
(* of an infinite source is nothing, and goes to a slot that has nothing.  *)
(***************************************************************************)
LEMMA NothingSaved ==
    ASSUME inv \in [Slots -> Slot], NEW f \in [Slots -> Slot],
           NEW i \in Slots, NEW j \in Slots,
           inv[j] = Empty \/ inv[j].name = inv[i].name
    PROVE  ResetSource(f, i, j) = [f EXCEPT ![i] = inv[i]]
  <1> DEFINE free == {k \in 1 .. MainSize + ChestSize + OtherSize :
                          <<j[1], k>> \in Slots /\ f[<<j[1], k>>] = Empty}
             g == IF inv[i].name = inv[j].name \/ free = {} THEN f
                  ELSE [f EXCEPT ![<<j[1], Min(free)>>] = inv[j]]
  <1>1. ResetSource(f, i, j) = [g EXCEPT ![i] = inv[i]]
    BY DEF ResetSource
  <1>2. CASE inv[i].name = inv[j].name \/ free = {}
    BY <1>1, <1>2
  <1>3. CASE inv[i].name # inv[j].name /\ free # {}
    <2>1. Min(free) \in free
      <3>1. free \in SUBSET Nat
        BY InventoriesConstants
      <3> QED BY <1>3, <3>1, MinOfNats
    <2> DEFINE k == <<j[1], Min(free)>>
    <2>2. k \in Slots /\ f[k] = Empty /\ inv[j] = Empty
      BY <1>3, <2>1
    <2>3. g = [f EXCEPT ![k] = inv[j]]
      BY <1>3
    <2> HIDE DEF k, g, free
    <2>4. g = f
      BY <2>2, <2>3
    <2> QED BY <1>1, <2>4
  <1> QED BY <1>2, <1>3

\* A stack that takes some of another is empty or of the same name.
LEMMA RoomMeans ==
    ASSUME NEW st \in Slot, NEW new \in Slot, Room(st, new) > 0
    PROVE  st = Empty \/ st.name = new.name
  BY DEF Room

(***************************************************************************)
(* If one slot loses up to lose items, and another gets up to gain, so do  *)
(* the chests they are in.                                                 *)
(***************************************************************************)
LEMMA SmallChange ==
    ASSUME Typed, Typed', NEW i \in Kept, NEW j \in Kept, i # j,
           \A s \in Slots \ {i, j} : inv'[s] = inv[s],
           NEW lose \in Nat, NEW gain \in Nat, NEW x,
           Has(inv[i], x) - Has(inv'[i], x) \in 0 .. lose,
           Has(inv'[j], x) - Has(inv[j], x) \in 0 .. gain,
           NEW name
    PROVE  -Put(name, x) <= lose /\ Put(name, x) <= gain
  <1>1. PICK g : g = inv'
    OBVIOUS
  <1>2. g \in [Slots -> Slot] /\ inv \in [Slots -> Slot]
    BY <1>1 DEF Typed
  <1>3. i \in Slots /\ j \in Slots
    BY KeptFacts
  <1>4. \A s \in Slots \ {i, j} : g[s] = inv[s]
    BY <1>1
  <1> DEFINE C == ChestOf(name)
             a == More(C, inv, g, i, x)
             b == More(C, inv, g, j, x)
  <1>5. C \in SUBSET Slots /\ IsFiniteSet(C)
    BY ChestFacts
  <1>6. /\ Count(inv, C, x) \in Int /\ Count(g, C, x) \in Int
        /\ a \in Int /\ b \in Int
        /\ Count(g, C, x) = Count(inv, C, x) + a + b
    <2> HIDE DEF C
    <2> QED BY <1>2, <1>3, <1>4, <1>5, TwoSlotsChange
  <1>7. Put(name, x) = Count(g, C, x) - Count(inv, C, x)
    BY <1>1 DEF Put
  <1>8. /\ Has(inv[i], x) \in Int /\ Has(g[i], x) \in Int
        /\ Has(inv[j], x) \in Int /\ Has(g[j], x) \in Int
    BY <1>2, <1>3, HasIsInt
  <1>9. /\ Has(inv[i], x) - Has(g[i], x) \in 0 .. lose
        /\ Has(g[j], x) - Has(inv[j], x) \in 0 .. gain
    BY <1>1
  <1>10. -a \in 0 .. lose
    BY <1>8, <1>9 DEF More
  <1>11. b \in 0 .. gain
    BY <1>8, <1>9 DEF More
  <1> HIDE DEF C, a, b
  <1>12. Put(name, x) = a + b
    BY <1>6, <1>7
  <1> QED BY <1>6, <1>10, <1>11, <1>12

\* An answer that limits is a number.
LEMMA AnswersFacts ==
    ASSUME NEW take \in Answers, NEW put \in Answers
    PROVE  /\ take # Infinite => take \in Nat
           /\ put # Infinite => put \in Nat
           /\ MayLose(take, put) \in Nat /\ MayGain(put) \in Nat
           /\ take # Infinite => MayLose(take, put) = take
           /\ put # Infinite => MayGain(put) = put
           /\ take = Infinite /\ put = Infinite =>
                  MayLose(take, put) = stack_max
  BY InventoriesConstants
     DEF Answers, Infinite, NoLimit, MayLose, MayGain

(***************************************************************************)
(* A move that is no exchange moves no more than both scripts allow: its   *)
(* source loses what the destination gets, or one of them is infinite and  *)
(* stays as it is.                                                         *)
(***************************************************************************)
LEMMA MoveRespects ==
    ASSUME Typed, Typed', NEW take \in Answers, NEW put \in Answers,
           MoveWithinRoom(take, put)
    PROVE  WithinLimits(take, put) \/ \A s \in Chest : inv'[s] = inv[s]
  <1>1. PICK i, j, n : MoveOf(i, j, n, take, put, FALSE)
    BY ReceiveMoveIs DEF MoveWithinRoom
  <1>2. /\ i \in Kept /\ j \in Kept /\ i \in Slots /\ j \in Slots
        /\ inv[i] \in Slot /\ inv[j] \in Slot /\ inv[i].count \in Nat
        /\ inv \in [Slots -> Slot]
    BY <1>1, KeptFacts, StackFacts DEF MoveOf, Typed
  <1>3. CASE n = 0
    BY <1>1, <1>3 DEF MoveOf
  <1>4. CASE n # 0
    <2>1. inv' = ApplyMove(i, j, n, take, put)
          /\ n \in 1 .. inv[i].count /\ n \in Nat
      BY <1>1, <1>2, <1>4 DEF MoveOf
    <2>2. /\ take # Infinite => n <= take
          /\ put # Infinite => n <= put
          /\ take = Infinite =>
                 i \in Chest /\ ~({i, j} \subseteq Chest /\ i[1] = j[1])
          /\ put = Infinite =>
                 j \in Chest /\ ~({i, j} \subseteq Chest /\ i[1] = j[1])
          /\ Room(inv[j], Of(inv[i], 1)) > 0 \/ i = j
      BY <1>1 DEF MoveOf, MoveWithinRoom, NoLimit, Infinite
    <2>3. CASE i = j
      <3>1. take # Infinite /\ put # Infinite
        BY <2>2, <2>3
      <3> QED BY <2>1, <2>3, <3>1, PlainMove, NoMove
    <2>4. CASE i # j
      <3> DEFINE f == MoveItem(inv, i, j, n)
                 r == Room(inv[j], Of(inv[i], n))
      <3>1. /\ f \in [Slots -> Slot]
            /\ \A s \in Slots \ {i, j} : f[s] = inv[s]
        BY <1>2, <2>1, MoveItemType
      <3>2. r \in 1 .. n /\ Moves(inv, f, i, j, r)
        <4>1. r \in 0 .. n /\ (r # 0 => Moves(inv, f, i, j, r))
          BY <1>2, <2>1, <2>4, MoveItemMoves
        <4>2. /\ Of(inv[i], 1).count = 1 /\ Of(inv[i], 1).name = inv[i].name
              /\ Of(inv[i], n).count = n /\ Of(inv[i], n).name = inv[i].name
          <5>1. 1 \in 0 .. inv[i].count /\ n \in 0 .. inv[i].count
                /\ n # 0 /\ 1 # 0
            BY <1>2, <2>1
          <5> QED BY <1>2, <5>1, HasOf
        <4>3. inv[j].count \in 0 .. stack_max /\ stack_max \in Nat
          BY <1>2, StackFacts
        <4>4. r # 0
          BY <2>1, <2>2, <2>4, <4>2, <4>3 DEF Room, AtMost
        <4> HIDE DEF f, r
        <4> QED BY <2>1, <4>1, <4>4
      <3>3. inv[j] = Empty \/ inv[j].name = inv[i].name
        <4>1. 1 \in 0 .. inv[i].count /\ 1 # 0
          BY <1>2, <2>1
        <4>2. Of(inv[i], 1) \in Slot /\ Of(inv[i], 1).name = inv[i].name
          BY <1>2, <4>1, OfIsSlot, HasOf
        <4> QED BY <1>2, <2>2, <2>4, <4>2, RoomMeans
      <3>4. ResetSource(f, i, j) = [f EXCEPT ![i] = inv[i]]
        <4> HIDE DEF f
        <4> QED BY <1>2, <3>1, <3>3, NothingSaved
      <3>5. PICK g : g = inv'
        OBVIOUS
      <3>6. g = IF put = Infinite
                THEN [f EXCEPT ![i] = inv[i], ![j] = inv[j],
                               ![i] = Left(inv[i], n)]
                ELSE IF take = Infinite THEN [f EXCEPT ![i] = inv[i]] ELSE f
        <4>1. g = LET h == IF take = Infinite THEN [f EXCEPT ![i] = inv[i]]
                                              ELSE f
                  IN  IF put = Infinite
                      THEN [h EXCEPT ![j] = inv[j], ![i] = Left(inv[i], n)]
                      ELSE h
          BY <2>1, <3>4, <3>5 DEF ApplyMove, ResetDestination
        <4> HIDE DEF f
        <4> QED BY <1>2, <2>4, <3>1, <4>1
      <3>7. Left(inv[i], n) = Of(inv[i], inv[i].count - n)
            /\ inv[i].count - n \in 0 .. inv[i].count
        BY <1>2, <2>1 DEF Left, AtMost
      <3> HIDE DEF f, r
      <3>8. \A s \in Slots \ {i, j} : g[s] = inv[s]
        BY <1>2, <3>1, <3>6
      <3>9. ASSUME NEW x
            PROVE  /\ Has(inv[i], x) - Has(g[i], x)
                          \in 0 .. MayLose(take, put)
                   /\ Has(g[j], x) - Has(inv[j], x) \in 0 .. MayGain(put)
        <4> DEFINE all == IF inv[i].name = x THEN n ELSE 0
                   some == IF inv[i].name = x THEN r ELSE 0
        <4>1. /\ Has(inv[i], x) \in Int /\ Has(inv[j], x) \in Int
              /\ all \in 0 .. n /\ some \in 0 .. n
              /\ MayLose(take, put) \in Nat /\ MayGain(put) \in Nat
          BY <1>2, <2>1, <3>2, HasIsInt, AnswersFacts
        <4>2. /\ Has(f[i], x) = Has(inv[i], x) - some
              /\ Has(f[j], x) = Has(inv[j], x) + some
          BY <3>2 DEF Moves
        <4>3. Has(Left(inv[i], n), x) = Has(inv[i], x) - all
          <5>1. Has(Left(inv[i], n), x)
                    = IF inv[i].name = x THEN inv[i].count - n ELSE 0
            BY <1>2, <3>7, HasOf
          <5>2. Has(inv[i], x) = IF inv[i].name = x THEN inv[i].count ELSE 0
            BY DEF Has
          <5> QED BY <1>2, <2>1, <5>1, <5>2
        <4> HIDE DEF all, some
        <4>4. CASE put = Infinite
          <5>1. g[i] = Left(inv[i], n) /\ g[j] = inv[j]
            BY <1>2, <2>4, <3>1, <3>6, <4>4
          <5>2. n <= MayLose(take, put)
            <6>1. inv[i].count <= stack_max /\ stack_max \in Nat
              BY <1>2, StackFacts
            <6> QED BY <1>2, <2>1, <2>2, <4>4, <6>1, AnswersFacts
          <5> QED BY <2>1, <4>1, <4>3, <5>1, <5>2
        <4>5. CASE put # Infinite /\ take = Infinite
          <5>1. g[i] = inv[i] /\ g[j] = f[j]
            BY <1>2, <2>4, <3>1, <3>6, <4>5
          <5>2. n <= MayGain(put)
            BY <2>2, <4>5, AnswersFacts
          <5> QED BY <2>1, <4>1, <4>2, <5>1, <5>2
        <4>6. CASE put # Infinite /\ take # Infinite
          <5>1. g[i] = f[i] /\ g[j] = f[j]
            BY <3>6, <4>6
          <5>2. n <= MayGain(put) /\ n <= MayLose(take, put)
            BY <2>2, <4>6, AnswersFacts
          <5> QED BY <2>1, <4>1, <4>2, <5>1, <5>2
        <4> QED BY <4>4, <4>5, <4>6
      <3>10. ASSUME NEW name \in {"chest", "other"}, NEW x \in Items
             PROVE  /\ -Put(name, x) <= MayLose(take, put)
                    /\ Put(name, x) <= MayGain(put)
        <4>1. /\ Has(inv[i], x) - Has(inv'[i], x) \in 0 .. MayLose(take, put)
              /\ Has(inv'[j], x) - Has(inv[j], x) \in 0 .. MayGain(put)
          BY <3>5, <3>9
        <4>2. \A s \in Slots \ {i, j} : inv'[s] = inv[s]
          BY <3>5, <3>8
        <4> QED BY <1>2, <2>4, <4>1, <4>2, AnswersFacts, SmallChange
      <3> QED BY <3>10 DEF WithinLimits
    <2> QED BY <2>3, <2>4
  <1> QED BY <1>3, <1>4

\* A drop takes no more than allowed.
LEMMA DropRespects ==
    ASSUME Typed, Typed', NEW take \in Answers,
           NEW dropped \in 1 .. stack_max, ReceiveDrop(TRUE, take, dropped)
    PROVE  WithinLimits(take, 0) \/ \A s \in Chest : inv'[s] = inv[s]
  <1> DEFINE a == Head(actions)
             i == a.from
             st == inv[i]
             asked == IF a.count = 0 THEN st.count
                      ELSE AtMost(a.count, st.count)
             count == IF take = Infinite THEN asked ELSE AtMost(asked, take)
  <1>1. a.type = "drop" /\ a \in Action
    BY FirstAction DEF ReceiveDrop, Receive, Typed
  <1>2. i \in Kept /\ a.count \in Nat
    BY <1>1 DEF Action, Counts
  <1>3. i \in Slots /\ st \in Slot /\ st.count \in Nat
    <2>1. i \in Slots
      BY <1>2, KeptFacts
    <2> HIDE DEF i
    <2> QED BY <2>1, StackFacts DEF Typed
  <1>4. dropped \in 0 .. count
    BY DEF ReceiveDrop
  <1>5. inv' = IF take = Infinite THEN inv
               ELSE [inv EXCEPT ![i] = Left(inv[i], dropped)]
    BY <1>3 DEF ReceiveDrop, Typed
  <1>6. asked \in 0 .. st.count
    BY <1>2, <1>3 DEF AtMost
  <1> HIDE DEF i, st, asked
  <1>7. CASE take = Infinite
    BY <1>5, <1>7
  <1>8. CASE take # Infinite
    <2>1. take \in Nat /\ dropped <= take /\ dropped <= st.count
          /\ dropped \in Nat
      <3>1. take \in Nat
        BY <1>8 DEF Answers, Infinite, NoLimit
      <3>2. count = AtMost(asked, take)
        BY <1>8
      <3> HIDE DEF count
      <3> QED BY <1>3, <1>4, <1>6, <3>1, <3>2 DEF AtMost
    <2>2. PICK g : g = inv'
      OBVIOUS
    <2>3. /\ g \in [Slots -> Slot] /\ inv \in [Slots -> Slot]
          /\ g[i] = Left(st, dropped)
          /\ \A s \in Slots \ {i} : g[s] = inv[s]
      BY <1>3, <1>5, <1>8, <2>2 DEF Typed, st
    <2>4. \A x : Has(g[i], x) = Has(st, x) - IF st.name = x THEN dropped ELSE 0
      <3>1. Left(st, dropped) = Of(st, st.count - dropped)
        BY <1>3, <2>1 DEF Left, AtMost
      <3>2. st.count - dropped \in 0 .. st.count
        BY <1>3, <2>1
      <3>3. \A x : Has(g[i], x) = IF st.name = x THEN st.count - dropped ELSE 0
        BY <1>3, <2>3, <3>1, <3>2, HasOf
      <3> SUFFICES ASSUME NEW x
                   PROVE  Has(g[i], x)
                              = Has(st, x) - IF st.name = x THEN dropped ELSE 0
        OBVIOUS
      <3>4. CASE st.name = x
        BY <3>3, <3>4 DEF Has
      <3>5. CASE st.name # x
        <4>1. Has(g[i], x) = 0 /\ Has(st, x) = 0
          BY <3>3, <3>5 DEF Has
        <4> DEFINE e == IF st.name = x THEN dropped ELSE 0
        <4>2. e = 0
          BY <3>5
        <4> HIDE DEF e
        <4>3. Has(g[i], x) = Has(st, x) - e
          BY <4>1, <4>2
        <4> QED BY <4>3 DEF e
      <3> QED BY <3>4, <3>5
    <2>5. ASSUME NEW name \in {"chest", "other"}, NEW x \in Items
          PROVE  -Put(name, x) <= take /\ Put(name, x) <= 0
      <3> DEFINE C == ChestOf(name)
                 m == More(C, inv, g, i, x)
                 e == IF st.name = x THEN dropped ELSE 0
      <3>1. C \subseteq Slots /\ IsFiniteSet(C)
        BY ChestFacts
      <3>2. /\ \A s \in C : Has(g[s], x) \in Int /\ Has(inv[s], x) \in Int
            /\ \A s \in C \ {i} : Has(g[s], x) = Has(inv[s], x)
        BY <2>3, <3>1, HasIsInt
      <3>3. /\ Count(inv, C, x) \in Int
            /\ Count(g, C, x) = Count(inv, C, x) + m
        <4> HIDE DEF C
        <4> QED BY <3>1, <3>2, OneSlotChanges
      <3>4. m \in {-e, 0} /\ e \in 0 .. dropped
        <4>1. Has(st, x) \in Int /\ e \in 0 .. dropped
          BY <1>3, <2>1, HasIsInt
        <4>2. Has(g[i], x) = Has(st, x) - e
          BY <2>4
        <4> HIDE DEF e, C
        <4>3. Has(g[i], x) - Has(st, x) = -e
          BY <2>1, <4>1, <4>2
        <4> QED BY <4>1, <4>3 DEF More, st
      <3>6. Put(name, x) = Count(g, C, x) - Count(inv, C, x)
        BY <2>2 DEF Put
      <3> HIDE DEF m, e, C
      <3>5. m \in Int /\ m <= 0 /\ -m <= take
        BY <2>1, <3>4
      <3>7. Put(name, x) = m
        BY <3>3, <3>5, <3>6
      <3> QED BY <3>5, <3>7
    <2>6. MayLose(take, 0) = take /\ MayGain(0) = 0
      BY <1>8 DEF MayLose, MayGain, Infinite
    <2> QED BY <2>5, <2>6 DEF WithinLimits
  <1> QED BY <1>7, <1>8

(***************************************************************************)
(* No player gets more out of a chest or into it in one action than the    *)
(* script of that chest allows, nor anything out of an infinite stack      *)
(* (unless it goes to another infinite one), if the destination has any    *)
(* room: for any number of slots, any stack size and each answer that the  *)
(* model's scripts give.                                                   *)
(***************************************************************************)
THEOREM LimitsHold == Spec => LimitsRespected
  <1> DEFINE A == \/ \A s \in Chest : inv'[s] = inv[s]
                  \/ /\ \A take, put \in Answers :
                            MoveWithinRoom(take, put) => WithinLimits(take, put)
                     /\ \A take \in Answers, n \in 1 .. stack_max :
                            ReceiveDrop(TRUE, take, n) => WithinLimits(take, 0)
  <1>1. CopyInv /\ [Next]_vars => [A]_vars
    <2> SUFFICES ASSUME CopyInv, [Next]_vars PROVE A
      OBVIOUS
    <2>1. Typed /\ Typed'
      BY CopyInvNext DEF CopyInv
    <2>2. ASSUME NEW take \in Answers, NEW put \in Answers,
                 MoveWithinRoom(take, put)
          PROVE  WithinLimits(take, put) \/ \A s \in Chest : inv'[s] = inv[s]
      BY <2>1, <2>2, MoveRespects
    <2>3. ASSUME NEW take \in Answers, NEW n \in 1 .. stack_max,
                 ReceiveDrop(TRUE, take, n)
          PROVE  WithinLimits(take, 0) \/ \A s \in Chest : inv'[s] = inv[s]
      BY <2>1, <2>3, DropRespects
    <2> QED BY <2>2, <2>3
  <1>2. Spec => []CopyInv /\ [][Next]_vars
    BY CopyInvAlways DEF Spec
  <1> QED BY <1>1, <1>2, PTL DEF LimitsRespected

-----------------------------------------------------------------------------
(* Undoing the log. *)

\* What is in the log, and in the slots.
LogEntry == [slot : Slots, add : BOOLEAN, stack : Slot]
Contents == [Slots -> Slot]

\* What /rollback makes of the inventory f, entry by entry.
Undo(f, q) == FoldLeft(ApplyRevert, f, q)

\* Undoing an entry changes its slot only.
LEMMA RevertType ==
    ASSUME NEW f \in Contents, NEW e \in LogEntry
    PROVE  /\ ApplyRevert(f, e) \in Contents
           /\ \A s \in Slots \ {e.slot} : ApplyRevert(f, e)[s] = f[s]
           /\ e.slot \in Slots
           /\ ~e.add => ApplyRevert(f, e)[e.slot] = Added(f[e.slot], e.stack)
           /\ e.add /\ f[e.slot].name = e.stack.name =>
                  ApplyRevert(f, e)[e.slot] = Left(f[e.slot], e.stack.count)
  <1>1. e.slot \in Slots /\ e.add \in BOOLEAN /\ e.stack \in Slot
    BY DEF LogEntry
  <1>2. f[e.slot] \in Slot /\ e.stack.count \in Nat
    BY <1>1, StackFacts DEF Contents
  <1>3. /\ Added(f[e.slot], e.stack) \in Slot
        /\ Left(f[e.slot], e.stack.count) \in Slot
    BY <1>1, <1>2, AddedIsSlot, LeftIsSlot
  <1> QED BY <1>1, <1>3 DEF ApplyRevert, Contents

\* The stages of undoing.
Stages(h, f, q) ==
    /\ h \in [0 .. Len(q) -> Contents]
    /\ h[0] = f
    /\ \A k \in 1 .. Len(q) : h[k] = ApplyRevert(h[k - 1], q[k])

\* Undoing one after the other comes to the last of the stages.
LEMMA UndoHasStages ==
    ASSUME NEW f \in Contents, NEW q \in Seq(LogEntry)
    PROVE  \E h : Stages(h, f, q) /\ Undo(f, q) = h[Len(q)]
  <1> DEFINE S == DOMAIN q
             body == [x \in Contents \X S |-> ApplyRevert(x[1], q[x[2]])]
             P == [w \in SUBSET S |-> Contents]
             Step(r, w) == IF w = {} THEN f
                           ELSE ApplyRevert(r[w \ {Max(w)}], q[Max(w)])
             Is(r) == r = [w \in SUBSET S |-> Step(r, w)]
             run == CHOOSE r : Is(r)
  <1>1. /\ Len(q) \in Nat /\ S = 1 .. Len(q) /\ S \in SUBSET (0 .. Len(q))
        /\ \A k \in S : q[k] \in LogEntry
    OBVIOUS
  <1> HIDE DEF S
  <1>2. ASSUME NEW w \in SUBSET S, NEW x \in w, NEW t \in Contents
        PROVE  /\ ApplyRevert(t, q[x]) \in Contents
               /\ body[<<t, x>>] = ApplyRevert(t, q[x])
    <2>1. x \in S /\ q[x] \in LogEntry
      BY <1>1
    <2> QED BY <2>1, RevertType
  <1>3. PICK g : /\ IsRun(g, f, body, S)
                 /\ \A w \in SUBSET S : g[w] \in P[w]
    <2>1. f \in P[{}]
      OBVIOUS
    <2>2. \A w \in SUBSET S : \A x \in w :
              \A t \in P[w \ {x}] : body[<<t, x>>] \in P[w]
      <3> HIDE DEF body
      <3> QED BY <1>2
    <2> HIDE DEF body, P
    <2> QED BY <1>1, <2>1, <2>2, LoopKeeps
  <1>4. Is(g)
    <2>1. ASSUME NEW w \in SUBSET S PROVE g[w] = Step(g, w)
      <3>1. CASE w = {}
        BY <1>3, <3>1 DEF IsRun
      <3>2. CASE w # {}
        <4>1. Max(w) \in w /\ w \ {Max(w)} \in SUBSET S
          BY <1>1, <3>2, Greatest
        <4>2. g[w \ {Max(w)}] \in Contents
          BY <1>3, <4>1
        <4>3. g[w] = body[<<g[w \ {Max(w)}], Max(w)>>]
          <5> HIDE DEF body, P
          <5> QED BY <1>3, <3>2 DEF IsRun
        <4> HIDE DEF body
        <4> QED BY <1>2, <3>2, <4>1, <4>2, <4>3
      <3> QED BY <3>1, <3>2
    <2>2. g = [w \in SUBSET S |-> g[w]]
      <3> HIDE DEF body, P
      <3> QED BY <1>3 DEF IsRun
    <2> HIDE DEF Step
    <2> QED BY <2>1, <2>2
  <1>5. Is(run)
    <2> HIDE DEF Is
    <2> QED BY <1>4
  <1>6. Undo(f, q) = run[S]
    BY Zenon DEF Undo, FoldLeft, MapThenFoldSet, S
  <1> HIDE DEF run
  <1> DEFINE h == [k \in 0 .. Len(q) |-> run[1 .. k]]
  <1>7. \A k \in 0 .. Len(q) : 1 .. k \in SUBSET S
    BY <1>1
  <1>8. h[0] = f
    <2>1. 0 \in 0 .. Len(q) /\ 1 .. 0 = {}
      BY <1>1
    <2>2. run[{}] = f
      BY <1>5
    <2> QED BY <2>1, <2>2
  <1>9. ASSUME NEW k \in 1 .. Len(q)
        PROVE  h[k] = ApplyRevert(h[k - 1], q[k])
    <2>1. /\ k \in Nat /\ k - 1 \in 0 .. Len(q) /\ k \in 0 .. Len(q)
          /\ k \in 1 .. k /\ 1 .. k # {}
          /\ (1 .. k) \ {k} = 1 .. k - 1 /\ 1 .. k \in SUBSET (0 .. k)
      BY <1>1
    <2>2. Max(1 .. k) = k
      <3>1. Max(1 .. k) \in 1 .. k /\ \A l \in 1 .. k : l <= Max(1 .. k)
        BY <2>1, Greatest
      <3>2. PICK m : m = Max(1 .. k)
        OBVIOUS
      <3>3. m \in 1 .. k /\ k <= m
        BY <2>1, <3>1, <3>2
      <3> QED BY <3>2, <3>3
    <2>3. run[1 .. k] = ApplyRevert(run[(1 .. k) \ {k}], q[k])
      BY <1>5, <1>7, <2>1, <2>2
    <2> QED BY <2>1, <2>3
  <1>10. \A k \in 0 .. Len(q) : h[k] \in Contents
    <2> DEFINE T == {k \in 0 .. Len(q) : h[k] \in Contents}
    <2>1. 0 \in T
      BY <1>1, <1>8
    <2>2. \A k \in 1 .. Len(q) : k - 1 \in T => k \in T
      <3> SUFFICES ASSUME NEW k \in 1 .. Len(q), k - 1 \in T PROVE k \in T
        OBVIOUS
      <3>1. q[k] \in LogEntry /\ h[k - 1] \in Contents /\ k \in 0 .. Len(q)
        BY <1>1
      <3> HIDE DEF h
      <3>2. h[k] \in Contents
        BY <1>9, <3>1, RevertType
      <3> QED BY <3>1, <3>2
    <2> HIDE DEF T
    <2>3. \A k \in 0 .. Len(q) : k \in T
      BY <1>1, <2>1, <2>2, UpTo
    <2> QED BY <2>3 DEF T
  <1>11. Stages(h, f, q)
    <2>1. h \in [0 .. Len(q) -> Contents]
      BY <1>10
    <2> HIDE DEF h
    <2> QED BY <1>8, <1>9, <2>1 DEF Stages
  <1>12. Undo(f, q) = h[Len(q)]
    <2>1. Len(q) \in 0 .. Len(q)
      BY <1>1
    <2> QED BY <1>1, <1>6, <2>1
  <1> HIDE DEF h
  <1> QED BY <1>11, <1>12

\* The chest is undone alike, whatever the player has.
LEMMA UndoOfChest ==
    ASSUME NEW f \in Contents, NEW g \in Contents, NEW q \in Seq(LogEntry),
           \A s \in Chest : f[s] = g[s]
    PROVE  \A s \in Chest : Undo(f, q)[s] = Undo(g, q)[s]
  <1>1. PICK h : Stages(h, f, q) /\ Undo(f, q) = h[Len(q)]
    BY UndoHasStages
  <1>2. PICK l : Stages(l, g, q) /\ Undo(g, q) = l[Len(q)]
    BY UndoHasStages
  <1> DEFINE T == {k \in 0 .. Len(q) : \A s \in Chest : h[k][s] = l[k][s]}
  <1>3. 0 \in T
    BY <1>1, <1>2 DEF Stages
  <1>4. ASSUME NEW k \in 1 .. Len(q), k - 1 \in T PROVE k \in T
    <2>1. /\ k - 1 \in 0 .. Len(q) /\ k \in 0 .. Len(q)
          /\ q[k] \in LogEntry
          /\ \A s \in Chest : h[k - 1][s] = l[k - 1][s]
      BY <1>4
    <2>2. /\ h[k - 1] \in Contents /\ l[k - 1] \in Contents
          /\ h[k] = ApplyRevert(h[k - 1], q[k])
          /\ l[k] = ApplyRevert(l[k - 1], q[k])
      BY <1>1, <1>2, <2>1 DEF Stages
    <2>3. ASSUME NEW s \in Chest PROVE h[k][s] = l[k][s]
      <3>1. s \in Slots /\ h[k - 1][s] = l[k - 1][s]
        BY <2>1, SlotFacts
      <3>2. CASE s # q[k].slot
        <4>1. /\ ApplyRevert(h[k - 1], q[k])[s] = h[k - 1][s]
              /\ ApplyRevert(l[k - 1], q[k])[s] = l[k - 1][s]
          BY <2>1, <2>2, <3>1, <3>2, RevertType
        <4> QED BY <2>2, <3>1, <4>1
      <3>3. CASE s = q[k].slot
        BY <2>1, <2>2, <3>1, <3>3 DEF ApplyRevert, Contents
      <3> QED BY <3>2, <3>3
    <2> QED BY <2>1, <2>3
  <1>5. Len(q) \in Nat
    OBVIOUS
  <1> HIDE DEF T
  <1>6. \A k \in 0 .. Len(q) : k \in T
    BY <1>3, <1>4, <1>5, UpTo
  <1>7. Len(q) \in T
    BY <1>5, <1>6
  <1> QED BY <1>1, <1>2, <1>7 DEF T

\* The last entry is the first to be undone.
LEMMA UndoLast ==
    ASSUME NEW f \in Contents, NEW q \in Seq(LogEntry), NEW e \in LogEntry
    PROVE  Undo(f, Reverse(Append(q, e)))
               = Undo(ApplyRevert(f, e), Reverse(q))
  <1> DEFINE n == Len(q)
             p == Reverse(q)
             o == Reverse(Append(q, e))
  <1>1. n \in Nat /\ Append(q, e) \in Seq(LogEntry) /\ Len(Append(q, e)) = n + 1
        /\ Append(q, e)[n + 1] = e
        /\ \A k \in 1 .. n : Append(q, e)[k] = q[k] /\ q[k] \in LogEntry
    OBVIOUS
  <1>2. p \in Seq(LogEntry) /\ Len(p) = n
        /\ \A k \in 1 .. n : p[k] = q[n - k + 1]
    <2>1. \A k \in 1 .. n : n - k + 1 \in 1 .. n
      BY <1>1
    <2>2. p = [k \in 1 .. n |-> q[n - k + 1]]
      BY DEF Reverse
    <2> HIDE DEF n, p
    <2> QED BY <1>1, <2>1, <2>2
  <1>3. o \in Seq(LogEntry) /\ Len(o) = n + 1
        /\ o[1] = e /\ \A k \in 1 .. n : o[k + 1] = p[k]
    <2> DEFINE ap == Append(q, e)
    <2>1. o = [k \in 1 .. n + 1 |-> ap[n + 1 - k + 1]]
      BY <1>1 DEF Reverse
    <2> HIDE DEF n, p, o, ap
    <2>2. /\ \A k \in 1 .. n + 1 : n + 1 - k + 1 \in 1 .. n + 1
          /\ 1 \in 1 .. n + 1 /\ n + 1 - 1 + 1 = n + 1
          /\ \A k \in 1 .. n : /\ k + 1 \in 1 .. n + 1
                               /\ n + 1 - (k + 1) + 1 = n - k + 1
                               /\ n - k + 1 \in 1 .. n
          /\ \A k \in 1 .. n + 1 : k \in 1 .. n \/ k = n + 1
      BY <1>1
    <2>3. \A k \in 1 .. n + 1 : ap[k] \in LogEntry
      BY <1>1, <2>2 DEF ap
    <2>4. o \in Seq(LogEntry) /\ Len(o) = n + 1
      BY <1>1, <2>1, <2>2, <2>3
    <2>5. o[1] = e
      BY <1>1, <2>1, <2>2 DEF ap
    <2>6. \A k \in 1 .. n : o[k + 1] = p[k]
      BY <1>1, <1>2, <2>1, <2>2 DEF ap
    <2> QED BY <2>4, <2>5, <2>6
  <1> HIDE DEF n, p, o
  <1>4. ApplyRevert(f, e) \in Contents
    BY RevertType
  <1>5. PICK h : Stages(h, ApplyRevert(f, e), p)
                 /\ Undo(ApplyRevert(f, e), p) = h[n]
    BY <1>2, <1>4, UndoHasStages
  <1>6. PICK l : Stages(l, f, o) /\ Undo(f, o) = l[n + 1]
    BY <1>3, UndoHasStages
  <1> DEFINE T == {k \in 0 .. n : l[k + 1] = h[k]}
  <1>7. 0 \in T
    <2>1. 1 \in 1 .. n + 1 /\ 1 - 1 = 0 /\ 0 + 1 = 1 /\ 0 \in 0 .. n
      BY <1>1
    <2>2. l[1] = ApplyRevert(l[1 - 1], o[1])
      BY <1>3, <1>6, <2>1 DEF Stages
    <2>3. l[1] = h[0]
      BY <1>3, <1>5, <1>6, <2>1, <2>2 DEF Stages
    <2> QED BY <2>1, <2>3
  <1>8. ASSUME NEW k \in 1 .. n, k - 1 \in T PROVE k \in T
    <2>1. /\ k \in 0 .. n /\ k + 1 \in 1 .. n + 1 /\ k + 1 - 1 = k
          /\ l[k] = h[k - 1]
      <3>1. k - 1 + 1 = k
        OBVIOUS
      <3> QED BY <1>1, <1>8, <3>1
    <2>2. l[k + 1] = ApplyRevert(l[k + 1 - 1], o[k + 1])
      BY <1>3, <1>6, <2>1 DEF Stages
    <2>3. h[k] = ApplyRevert(h[k - 1], p[k])
      BY <1>2, <1>5 DEF Stages
    <2>4. l[k + 1] = h[k]
      BY <1>3, <2>1, <2>2, <2>3
    <2> QED BY <2>1, <2>4
  <1> HIDE DEF T
  <1>9. \A k \in 0 .. n : k \in T
    BY <1>1, <1>7, <1>8, UpTo
  <1>10. l[n + 1] = h[n]
    <2>1. n \in T
      BY <1>1, <1>9
    <2> QED BY <2>1 DEF T
  <1> QED BY <1>5, <1>6, <1>10 DEF p, o

-----------------------------------------------------------------------------
(* What a step writes can be undone. *)

\* What was taken can be put back.
LEMMA PutBack ==
    ASSUME NEW st \in Slot, NEW n \in 1 .. st.count
    PROVE  Added(Left(st, n), Of(st, n)) = st
  <1>1. st.count \in 0 .. stack_max /\ stack_max \in Nat /\ st.count \in Nat
    BY StackFacts
  <1>2. Left(st, n) = Of(st, st.count - n)
    BY <1>1 DEF Left, AtMost
  <1>3. st.count - n \in 0 .. st.count /\ n \in 0 .. st.count /\ n # 0
    BY <1>1
  <1> DEFINE l == Of(st, st.count - n)
             t == Of(st, n)
  <1>4. /\ l \in Slot /\ l.count = st.count - n
        /\ l = Empty \/ l.name = st.name
        /\ t \in Slot /\ t.count = n /\ t.name = st.name
    BY <1>3, OfIsSlot, HasOf DEF Of
  <1> HIDE DEF l, t
  <1>5. Room(l, t) = n
    BY <1>1, <1>4 DEF Room, AtMost
  <1>6. /\ Added(l, t) \in Slot
        /\ Added(l, t).count = st.count - n + n
        /\ Added(l, t).name = st.name
    <2>1. Added(l, t) \in Slot
      BY <1>4, AddedIsSlot
    <2>2. /\ Added(l, t).count = l.count + Room(l, t)
          /\ Room(l, t) # 0 => Added(l, t).name = t.name
      BY <1>4, AddedOf
    <2> QED BY <1>3, <1>4, <1>5, <2>1, <2>2
  <1>7. st.count - n + n = st.count
    BY <1>1
  <1>8. Added(l, t) = st
    BY <1>6, <1>7, SameStack
  <1> QED BY <1>2, <1>8 DEF l, t

\* What was put can be taken back.
LEMMA TakeBack ==
    ASSUME NEW st \in Slot, NEW new \in Slot, new.count # 0,
           Room(st, new) = new.count
    PROVE  /\ Added(st, new).name = new.name
           /\ Left(Added(st, new), new.count) = st
  <1>1. /\ st.count \in Nat /\ new.count \in Nat
    BY StackFacts
  <1> DEFINE a == Added(st, new)
  <1>2. /\ a \in Slot /\ a.count = st.count + new.count /\ a.name = new.name
        /\ st.name = new.name \/ st = Empty
    <2>1. a \in Slot
      BY AddedIsSlot
    <2>2. /\ a.count = st.count + Room(st, new)
          /\ Room(st, new) # 0 => a.name = new.name
          /\ st.name = new.name \/ st = Empty \/ Room(st, new) = 0
      BY AddedOf
    <2> HIDE DEF a
    <2> QED BY <2>1, <2>2
  <1> HIDE DEF a
  <1>3. /\ st.count \in 0 .. a.count
        /\ a.count - new.count = st.count
        /\ AtMost(new.count, a.count) = new.count
    BY <1>1, <1>2 DEF AtMost
  <1>4. Left(a, new.count) = Of(a, st.count)
    BY <1>3 DEF Left
  <1>5. /\ Of(a, st.count) \in Slot /\ Of(a, st.count).count = st.count
        /\ st.count # 0 => Of(a, st.count).name = a.name
    BY <1>2, <1>3, OfIsSlot, HasOf
  <1>6. st.count # 0 => st.name = new.name
    BY <1>2 DEF Empty
  <1>7. Of(a, st.count) = st
    BY <1>2, <1>5, <1>6, SameStack
  <1> QED BY <1>2, <1>4, <1>7 DEF a

\* How the chest was at first.
Start(s) == IF s \in Full THEN [name |-> Ingredient, count |-> stack_max]
                          ELSE Empty

\* Undoing q gives it back.
Restored(f, q) == \A s \in Chest : Undo(f, Reverse(q))[s] = Start(s)

\* The types are part of CopyInv.
RollbackInv ==
    /\ CopyInv
    /\ inexact \in BOOLEAN
    /\ log \in Seq(LogEntry)
    /\ ~inexact => Restored(inv, log)

\* Undoing what a step wrote to the log gives the chest that was there.
Reverts ==
    \E back \in Contents :
        /\ \A s \in Chest : back[s] = inv[s]
        /\ Undo(inv', Reverse(log')) = Undo(back, Reverse(log))

\* The log backwards is a log.
LEMMA ReverseIsLog ==
    ASSUME NEW q \in Seq(LogEntry) PROVE Reverse(q) \in Seq(LogEntry)
  <1>1. /\ Len(q) \in Nat
        /\ \A k \in 1 .. Len(q) : Len(q) - k + 1 \in 1 .. Len(q)
        /\ \A k \in 1 .. Len(q) : q[k] \in LogEntry
    OBVIOUS
  <1> QED BY <1>1 DEF Reverse

\* If a step can be undone, all can.
LEMMA RevertsKeeps ==
    ASSUME RollbackInv, CopyInv', inexact' \in BOOLEAN,
           log' \in Seq(LogEntry), ~inexact' => ~inexact /\ Reverts
    PROVE  RollbackInv'
  <1> SUFFICES ASSUME ~inexact' PROVE Restored(inv, log)'
    BY DEF RollbackInv
  <1>1. PICK back \in Contents :
            /\ \A s \in Chest : back[s] = inv[s]
            /\ Undo(inv', Reverse(log')) = Undo(back, Reverse(log))
    BY DEF Reverts
  <1>2. inv \in Contents /\ Reverse(log) \in Seq(LogEntry)
    BY ReverseIsLog DEF RollbackInv, CopyInv, Typed, Contents
  <1>3. \A s \in Chest :
            Undo(back, Reverse(log))[s] = Undo(inv, Reverse(log))[s]
    BY <1>1, <1>2, UndoOfChest
  <1>4. Restored(inv, log)
    BY DEF RollbackInv
  <1> QED BY <1>1, <1>3, <1>4 DEF Restored

\* A step that writes nothing and leaves the chest as it is.
LEMMA NothingToRevert ==
    ASSUME RollbackInv, CopyInv', log' = log, \A s \in Chest : inv'[s] = inv[s]
    PROVE  Reverts
  <1>1. inv' \in Contents
    BY DEF CopyInv, Typed, Contents
  <1> QED BY <1>1 DEF Reverts

\* One that writes an entry.
LEMMA OneToRevert ==
    ASSUME RollbackInv, CopyInv', NEW e \in LogEntry, log' = Append(log, e),
           \A s \in Chest : ApplyRevert(inv', e)[s] = inv[s]
    PROVE  Reverts /\ log' \in Seq(LogEntry)
  <1>1. inv' \in Contents /\ log \in Seq(LogEntry)
    BY DEF RollbackInv, CopyInv, Typed, Contents
  <1>2. ApplyRevert(inv', e) \in Contents
    BY <1>1, RevertType
  <1>3. Undo(inv', Reverse(log')) = Undo(ApplyRevert(inv', e), Reverse(log))
    BY <1>1, UndoLast
  <1> QED BY <1>1, <1>2, <1>3 DEF Reverts

\* The second of two is undone first.
LEMMA TwoToRevert ==
    ASSUME RollbackInv, CopyInv', NEW e \in LogEntry, NEW d \in LogEntry,
           log' = Append(Append(log, e), d),
           \A s \in Chest : ApplyRevert(ApplyRevert(inv', d), e)[s] = inv[s]
    PROVE  Reverts /\ log' \in Seq(LogEntry)
  <1>1. inv' \in Contents /\ log \in Seq(LogEntry)
        /\ Append(log, e) \in Seq(LogEntry)
    BY DEF RollbackInv, CopyInv, Typed, Contents
  <1>2. /\ ApplyRevert(inv', d) \in Contents
        /\ ApplyRevert(ApplyRevert(inv', d), e) \in Contents
    BY <1>1, RevertType
  <1>3. Undo(inv', Reverse(log'))
            = Undo(ApplyRevert(inv', d), Reverse(Append(log, e)))
    BY <1>1, UndoLast
  <1>4. Undo(ApplyRevert(inv', d), Reverse(Append(log, e)))
            = Undo(ApplyRevert(ApplyRevert(inv', d), e), Reverse(log))
    BY <1>1, <1>2, UndoLast
  <1> QED BY <1>1, <1>2, <1>3, <1>4 DEF Reverts

\* An entry of the log.
LEMMA EntryIs ==
    ASSUME NEW s \in Slots, NEW add \in BOOLEAN, NEW st \in Slot
    PROVE  /\ Entry(s, add, st) \in LogEntry
           /\ Entry(s, add, st).slot = s
           /\ Entry(s, add, st).add = add
           /\ Entry(s, add, st).stack = st
  BY DEF Entry, LogEntry

\* What the player takes from an infinite stack changes nothing in a chest.
LEMMA InfiniteLeavesChest ==
    ASSUME Typed, NEW i \in Slots, NEW j \in Slots, NEW n \in Nat,
           NEW take, NEW put, inv' = ApplyMove(i, j, n, take, put),
           take = Infinite, put # Infinite, i \in Chest, j \in Mine
    PROVE  \A s \in Chest : inv'[s] = inv[s]
  <1> DEFINE f == MoveItem(inv, i, j, n)
             free == {k \in 1 .. MainSize + ChestSize + OtherSize :
                         <<j[1], k>> \in Slots /\ f[<<j[1], k>>] = Empty}
             k == <<j[1], Min(free)>>
             g == IF inv[i].name = inv[j].name \/ free = {} THEN f
                  ELSE [f EXCEPT ![k] = inv[j]]
  <1>1. /\ f \in [Slots -> Slot] /\ inv \in [Slots -> Slot]
        /\ \A s \in Slots \ {i, j} : f[s] = inv[s]
    <2>1. inv \in [Slots -> Slot]
      BY DEF Typed
    <2> QED BY <2>1, MoveItemType
  <1>2. \A s \in Chest : s \in Slots /\ s \notin Mine
    BY SlotFacts
  <1>3. inv' = [g EXCEPT ![i] = inv[i]]
    BY DEF ApplyMove, ResetSource
  <1>4. k \notin Chest
    BY SlotFacts
  <1> HIDE DEF f, k, free
  <1> QED BY <1>1, <1>2, <1>3, <1>4

\* A move from an infinite stack to another that fits whole is undone by taking
\* back what was put.
LEMMA PutReverted ==
    ASSUME Typed, NEW i \in Slots, NEW j \in Slots, NEW n \in 1 .. inv[i].count,
           NEW take, NEW put, take = Infinite, put # Infinite,
           inv' = ApplyMove(i, j, n, take, put), inv' \in Contents,
           i # j, Room(inv[j], Of(inv[i], n)) >= n
    PROVE  ApplyRevert(inv', Entry(j, TRUE, Of(inv[i], n))) = inv
  <1> DEFINE st == Of(inv[i], n)
             d == Entry(j, TRUE, st)
             f == MoveItem(inv, i, j, n)
  <1>1. /\ inv \in [Slots -> Slot] /\ inv[i] \in Slot /\ inv[j] \in Slot
        /\ inv[i].count \in Nat /\ n \in 0 .. inv[i].count /\ n \in Nat
        /\ n # 0
    BY StackFacts DEF Typed
  <1>2. st \in Slot /\ st.count = n /\ st.name = inv[i].name
    BY <1>1, OfIsSlot, HasOf
  <1> HIDE DEF st
  <1>3. d \in LogEntry /\ d.slot = j /\ d.add /\ d.stack = st
    BY <1>2 DEF Entry, LogEntry
  <1> HIDE DEF d
  <1>4. Room(inv[j], st) = n
    <2>1. Room(inv[j], st) \in 0 .. n /\ Room(inv[j], st) >= n
      BY <1>1, <1>2, AddedOf DEF st
    <2> QED BY <1>1, <2>1
  <1>5. /\ f \in [Slots -> Slot] /\ f[j] = Added(inv[j], st)
        /\ \A s \in Slots \ {i, j} : f[s] = inv[s]
    <2>1. f[j] = Added(inv[j], st)
      BY <1>1, <1>4, MoveItemMoves DEF st
    <2> QED BY <1>1, <2>1, MoveItemType
  <1>6. inv[j] = Empty \/ inv[j].name = inv[i].name
    BY <1>1, <1>2, <1>4, RoomMeans
  <1>7. inv' = [f EXCEPT ![i] = inv[i]]
    <2> HIDE DEF f
    <2>1. inv' = ResetSource(f, i, j)
      BY DEF ApplyMove, f
    <2> QED BY <1>1, <1>5, <1>6, <2>1, NothingSaved
  <1> HIDE DEF f
  <1>8. PICK g : g = inv'
    OBVIOUS
  <1>9. /\ g \in Contents /\ g[j] = Added(inv[j], st)
        /\ \A s \in Slots \ {j} : g[s] = inv[s]
    BY <1>1, <1>5, <1>7, <1>8 DEF Contents
  <1>10. g[j].name = st.name /\ Left(g[j], n) = inv[j]
    BY <1>1, <1>2, <1>4, <1>9, TakeBack
  <1>11. PICK u : u = ApplyRevert(g, d)
    OBVIOUS
  <1>12. /\ u \in Contents
         /\ \A s \in Slots \ {j} : u[s] = g[s]
         /\ u[j] = Left(g[j], n)
    <2>1. /\ ApplyRevert(g, d) \in Contents
          /\ \A s \in Slots \ {d.slot} : ApplyRevert(g, d)[s] = g[s]
          /\ d.add /\ g[d.slot].name = d.stack.name =>
                 ApplyRevert(g, d)[d.slot] = Left(g[d.slot], d.stack.count)
      BY <1>3, <1>9, RevertType
    <2> QED BY <1>2, <1>3, <1>10, <1>11, <2>1
  <1>13. \A s \in Slots : u[s] = inv[s]
    BY <1>9, <1>10, <1>12
  <1>14. u = inv
    BY <1>1, <1>12, <1>13 DEF Contents
  <1> QED BY <1>8, <1>11, <1>14 DEF d, st

\* A move to an infinite stack is undone by putting back what was taken.
LEMMA TakeReverted ==
    ASSUME Typed, NEW i \in Slots, NEW j \in Slots, NEW n \in 1 .. inv[i].count,
           NEW take, NEW put, take # Infinite, put = Infinite,
           inv' = ApplyMove(i, j, n, take, put), inv' \in Contents, i # j
    PROVE  ApplyRevert(inv', Entry(i, FALSE, Of(inv[i], n))) = inv
  <1> DEFINE st == Of(inv[i], n)
             e == Entry(i, FALSE, st)
             f == MoveItem(inv, i, j, n)
  <1>1. /\ inv \in [Slots -> Slot] /\ inv[i] \in Slot
        /\ inv[i].count \in Nat /\ n \in 0 .. inv[i].count /\ n \in Nat
        /\ n # 0
    BY StackFacts DEF Typed
  <1>2. st \in Slot
    BY <1>1, OfIsSlot
  <1>3. e \in LogEntry /\ e.slot = i /\ ~e.add /\ e.stack = st
    <2> HIDE DEF st
    <2> QED BY <1>2 DEF Entry, LogEntry
  <1>4. f \in [Slots -> Slot] /\ \A s \in Slots \ {i, j} : f[s] = inv[s]
    BY <1>1, MoveItemType
  <1>5. inv' = [f EXCEPT ![j] = inv[j], ![i] = Left(inv[i], n)]
    <2> HIDE DEF f
    <2> QED BY DEF ApplyMove, ResetDestination, f
  <1>6. Added(Left(inv[i], n), st) = inv[i]
    BY <1>1, PutBack
  <1> HIDE DEF f, st, e
  <1>7. PICK g : g = inv'
    OBVIOUS
  <1>8. /\ g \in Contents /\ g[i] = Left(inv[i], n)
        /\ \A s \in Slots \ {i} : g[s] = inv[s]
    BY <1>1, <1>4, <1>5, <1>7 DEF Contents
  <1>9. PICK u : u = ApplyRevert(g, e)
    OBVIOUS
  <1>10. /\ u \in Contents
         /\ \A s \in Slots \ {i} : u[s] = g[s]
         /\ u[i] = Added(g[i], st)
    BY <1>3, <1>8, <1>9, RevertType
  <1>11. \A s \in Slots : u[s] = inv[s]
    BY <1>6, <1>8, <1>10
  <1>12. u = inv
    BY <1>1, <1>10, <1>11 DEF Contents
  <1> QED BY <1>7, <1>9, <1>12 DEF e, st

\* A move that fits whole is undone whole.
LEMMA MoveReverted ==
    ASSUME Typed, NEW i \in Slots, NEW j \in Slots, NEW n \in 1 .. inv[i].count,
           inv' = MoveItem(inv, i, j, n), inv' \in Contents,
           i # j => Room(inv[j], Of(inv[i], n)) >= n
    PROVE  ApplyRevert(ApplyRevert(inv', Entry(j, TRUE, Of(inv[i], n))),
                       Entry(i, FALSE, Of(inv[i], n))) = inv
  <1> DEFINE st == Of(inv[i], n)
             d == Entry(j, TRUE, st)
             e == Entry(i, FALSE, st)
  <1>1. /\ inv \in Contents /\ inv[i] \in Slot /\ inv[j] \in Slot
        /\ inv[i].count \in Nat /\ n \in 0 .. inv[i].count /\ n \in Nat
        /\ n # 0
    BY StackFacts DEF Typed, Contents
  <1>2. st \in Slot /\ st.count = n /\ st.name = inv[i].name
    BY <1>1, OfIsSlot, HasOf
  <1> HIDE DEF st
  <1>3. /\ d \in LogEntry /\ d.slot = j /\ d.add /\ d.stack = st
        /\ e \in LogEntry /\ e.slot = i /\ ~e.add /\ e.stack = st
    <2>1. d \in LogEntry /\ d.slot = j /\ d.add /\ d.stack = st
      BY <1>2 DEF Entry, LogEntry
    <2>2. e \in LogEntry /\ e.slot = i /\ ~e.add /\ e.stack = st
      BY <1>2 DEF Entry, LogEntry
    <2> QED BY <2>1, <2>2
  <1> HIDE DEF d, e
  <1>4. Added(Left(inv[i], n), st) = inv[i]
    BY <1>1, PutBack DEF st
  <1>5. PICK g : g = inv'
    OBVIOUS
  <1>6. PICK u : u = ApplyRevert(g, d)
    OBVIOUS
  <1>7. PICK v : v = ApplyRevert(u, e)
    OBVIOUS
  <1>8. /\ g \in Contents /\ u \in Contents /\ v \in Contents
        /\ \A s \in Slots \ {j} : u[s] = g[s]
        /\ \A s \in Slots \ {i} : v[s] = u[s]
        /\ g[j].name = st.name => u[j] = Left(g[j], n)
        /\ v[i] = Added(u[i], st)
    <2>1. g \in Contents
      BY <1>5
    <2>2. /\ u \in Contents
          /\ \A s \in Slots \ {j} : u[s] = g[s]
          /\ g[j].name = st.name => u[j] = Left(g[j], n)
      <3>1. /\ ApplyRevert(g, d) \in Contents
            /\ \A s \in Slots \ {d.slot} : ApplyRevert(g, d)[s] = g[s]
            /\ d.add /\ g[d.slot].name = d.stack.name =>
                   ApplyRevert(g, d)[d.slot] = Left(g[d.slot], d.stack.count)
        BY <1>3, <2>1, RevertType
      <3>2. d.slot = j /\ d.add /\ d.stack.name = st.name /\ d.stack.count = n
        BY <1>2, <1>3
      <3> QED BY <1>6, <3>1, <3>2
    <2>3. /\ v \in Contents
          /\ \A s \in Slots \ {i} : v[s] = u[s]
          /\ v[i] = Added(u[i], st)
      BY <1>3, <1>7, <2>2, RevertType
    <2> QED BY <2>1, <2>2, <2>3
  <1>9. CASE i = j
    <2>1. g = inv
      BY <1>5, <1>9, NoMove
    <2>2. u[i] = Left(inv[i], n)
      BY <1>2, <1>8, <1>9, <2>1
    <2>3. v[i] = inv[i]
      BY <1>4, <1>8, <2>2
    <2>4. \A s \in Slots : v[s] = inv[s]
      BY <1>8, <1>9, <2>1, <2>3
    <2>5. v = inv
      BY <1>1, <1>8, <2>4 DEF Contents
    <2> QED BY <1>5, <1>6, <1>7, <2>5 DEF d, e, st
  <1>10. CASE i # j
    <2>1. /\ inv \in [Slots -> Slot]
          /\ g = MoveItem(inv, i, j, n)
      BY <1>1, <1>5 DEF Contents
    <2>2. \A s \in Slots \ {i, j} : g[s] = inv[s]
      BY <1>1, <2>1, MoveItemType
    <2>3. Room(inv[j], st) = n
      <3>1. Room(inv[j], st) \in 0 .. n
        BY <1>1, <1>2, AddedOf
      <3>2. Room(inv[j], st) >= n
        BY <1>10 DEF st
      <3> QED BY <1>1, <3>1, <3>2
    <2>4. g[i] = Left(inv[i], n) /\ g[j] = Added(inv[j], st)
      BY <1>10, <2>1, <2>3, MoveItemMoves DEF st
    <2>5. g[j].name = st.name /\ Left(g[j], n) = inv[j]
      BY <1>1, <1>2, <2>3, <2>4, TakeBack
    <2>6. u[j] = inv[j] /\ u[i] = Left(inv[i], n)
      BY <1>8, <1>10, <2>4, <2>5
    <2>7. v[i] = inv[i] /\ v[j] = inv[j]
      BY <1>4, <1>8, <1>10, <2>6
    <2>8. \A s \in Slots : v[s] = inv[s]
      BY <1>8, <2>2, <2>7
    <2>9. v = inv
      BY <1>1, <1>8, <2>8 DEF Contents
    <2> QED BY <1>5, <1>6, <1>7, <2>9 DEF d, e, st
  <1> QED BY <1>9, <1>10

\* What is logged of a move describes it, or inexact says that it does not.
LEMMA MoveReverts ==
    ASSUME RollbackInv, CopyInv', NEW i, NEW j, NEW n, NEW take, NEW put,
           NEW emptied \in BOOLEAN, MoveOf(i, j, n, take, put, emptied)
    PROVE  RollbackInv'
  <1>1. /\ Typed /\ Typed' /\ inexact \in BOOLEAN /\ log \in Seq(LogEntry)
        /\ inv' \in Contents /\ inv \in Contents
    BY DEF RollbackInv, CopyInv, Typed, Contents
  <1>2. /\ i \in Slots /\ j \in Slots /\ inv[i].count \in Nat /\ n \in Nat
        /\ n \in 0 .. inv[i].count /\ inv[i] \in Slot
    BY <1>1, KeptFacts, StackFacts DEF MoveOf, Contents
  <1>3. inexact' \in BOOLEAN /\ (~inexact' => ~inexact)
    BY <1>1 DEF MoveOf
  <1>4. ASSUME log' = log,
               ~inexact' => \A s \in Chest : inv'[s] = inv[s]
        PROVE  RollbackInv'
    BY <1>1, <1>3, <1>4, NothingToRevert, RevertsKeeps
  <1>5. i \in Mine \/ i \in Chest
    BY <1>2, SlotFacts
  <1>6. j \in Mine \/ j \in Chest
    BY <1>2, SlotFacts
  <1>7. CASE emptied
    <2>1. inv' = [inv EXCEPT ![i] = Empty] /\ log' = log
          /\ (~inexact' => i \notin Chest)
      BY <1>7 DEF MoveOf
    <2>2. ~inexact' => \A s \in Chest : inv'[s] = inv[s]
      BY <1>1, <2>1, SlotFacts DEF Contents
    <2> QED BY <1>4, <2>1, <2>2
  <1>8. CASE ~emptied /\ n = 0
    BY <1>4, <1>8 DEF MoveOf
  <1>9. CASE ~emptied /\ n # 0
    <2> DEFINE st == Of(inv[i], n)
               e == Entry(i, FALSE, st)
               d == Entry(j, TRUE, st)
    <2>1. /\ inv' = ApplyMove(i, j, n, take, put)
          /\ log' = log \o MoveEntries(i, j, st, take, put)
          /\ n > 0
      BY <1>2, <1>9 DEF MoveOf
    <2>2. st \in Slot
      BY <1>2, OfIsSlot
    <2>3. /\ e \in LogEntry /\ e.slot = i /\ d \in LogEntry /\ d.slot = j
      BY <1>2, <2>2, EntryIs
    <2>4. ~inexact' =>
              /\ ~(take = Infinite /\ put = Infinite)
              /\ i # j /\ {i, j} \cap Chest # {} /\ put # Infinite
                     /\ (take # Infinite \/ j \in Chest)
                 => ~(Room(inv[j], Of(inv[i], n)) < n)
      BY <2>1 DEF MoveOf
    <2>9. inv \in [Slots -> Slot] /\ n \in 1 .. inv[i].count
      BY <1>1, <1>2, <2>1 DEF Contents
    <2> HIDE DEF st
    <2>5. CASE {i, j} \subseteq Mine
      <3>1. MoveEntries(i, j, st, take, put) = <<>>
        BY <2>5 DEF MoveEntries
      <3>2. log' = log
        BY <1>1, <2>1, <3>1
      <3>3. take # Infinite /\ put # Infinite
        BY <2>5, SlotFacts DEF MoveOf, NoLimit, Infinite
      <3>4. inv' = MoveItem(inv, i, j, n)
        BY <2>1, <3>3, PlainMove
      <3>5. \A s \in Slots \ {i, j} : inv'[s] = inv[s]
        <4>1. PICK g : g = inv'
          OBVIOUS
        <4>2. g = MoveItem(inv, i, j, n) /\ inv \in [Slots -> Slot]
          BY <1>1, <3>4, <4>1 DEF Contents
        <4>3. \A s \in Slots \ {i, j} : g[s] = inv[s]
          BY <1>2, <4>2, MoveItemType
        <4> QED BY <4>1, <4>3
      <3>6. \A s \in Chest : inv'[s] = inv[s]
        BY <2>5, <3>5, SlotFacts
      <3> QED BY <1>4, <3>2, <3>6
    <2>6. CASE ~({i, j} \subseteq Mine) /\ take = Infinite
      <3>1. i \in Chest
        BY <2>6 DEF MoveOf, NoLimit, Infinite
      <3>2. MoveEntries(i, j, st, take, put)
                = IF put # Infinite THEN <<d>> ELSE <<>>
        BY <2>6 DEF MoveEntries
      <3>3. log' = IF put # Infinite THEN Append(log, d) ELSE log
        <4> HIDE DEF d
        <4>1. log \o <<d>> = Append(log, d) /\ log \o <<>> = log
          BY <1>1
        <4> QED BY <2>1, <3>2, <4>1
      <3>4. ASSUME ~inexact' PROVE Reverts
        <4>2. put # Infinite
          BY <2>4, <2>6, <3>4
        <4>4. \A s \in Chest : ApplyRevert(inv', d)[s] = inv[s]
          <5>1. CASE j \in Mine
            <6>1. j \notin Chest
              BY <5>1, SlotFacts
            <6>2. \A s \in Chest : inv'[s] = inv[s]
              BY <1>1, <1>2, <2>1, <2>6, <3>1, <4>2, <5>1, InfiniteLeavesChest
            <6> HIDE DEF d
            <6> QED BY <1>1, <2>3, <6>1, <6>2, SlotFacts, RevertType
          <5>2. CASE j \in Chest
            <6>1. i # j
              BY <2>6, <3>1, <4>2, <5>2 DEF MoveOf
            <6>2. Room(inv[j], Of(inv[i], n)) >= n
              <7>1. ~(Room(inv[j], Of(inv[i], n)) < n)
                BY <2>4, <3>4, <4>2, <5>2, <6>1
              <7>2. Room(inv[j], st) \in Int
                BY <1>1, <1>2, <2>2, AddedOf, StackFacts DEF Contents
              <7> QED BY <1>2, <7>1, <7>2 DEF st
            <6>3. ApplyRevert(inv', d) = inv
              BY <1>1, <1>2, <2>1, <2>6, <2>9, <4>2, <6>1, <6>2, PutReverted
                 DEF st
            <6> QED BY <6>3
          <5> QED BY <1>6, <5>1, <5>2
        <4> HIDE DEF d
        <4> QED BY <2>3, <3>3, <4>2, <4>4, OneToRevert
      <3>5. log' \in Seq(LogEntry)
        <4> HIDE DEF d
        <4> QED BY <1>1, <2>3, <3>3
      <3> QED BY <1>3, <3>4, <3>5, RevertsKeeps
    <2>7. CASE ~({i, j} \subseteq Mine) /\ take # Infinite /\ put = Infinite
      <3>1. j \in Chest
        BY <2>7 DEF MoveOf, NoLimit, Infinite
      <3>2. i # j
        BY <2>7, <3>1 DEF MoveOf
      <3>3. MoveEntries(i, j, st, take, put) = <<e>> \o <<>>
        BY <2>7 DEF MoveEntries
      <3>4. log' = Append(log, e)
        <4> HIDE DEF e
        <4>1. log \o (<<e>> \o <<>>) = Append(log, e)
          BY <1>1
        <4> QED BY <2>1, <3>3, <4>1
      <3>6. \A s \in Chest : ApplyRevert(inv', e)[s] = inv[s]
        <4>1. ApplyRevert(inv', e) = inv
          BY <1>1, <1>2, <2>1, <2>7, <2>9, <3>2, TakeReverted DEF st
        <4> QED BY <4>1
      <3> HIDE DEF e
      <3> QED BY <1>3, <2>3, <3>4, <3>6, OneToRevert, RevertsKeeps
    <2>8. CASE ~({i, j} \subseteq Mine) /\ take # Infinite /\ put # Infinite
      <3>1. MoveEntries(i, j, st, take, put) = <<e>> \o <<d>>
        BY <2>8 DEF MoveEntries
      <3>2. log' = Append(Append(log, e), d)
        <4> HIDE DEF e, d
        <4>1. log \o (<<e>> \o <<d>>) = Append(Append(log, e), d)
          BY <1>1, <2>3
        <4> QED BY <2>1, <3>1, <4>1
      <3>3. log' \in Seq(LogEntry)
        <4> HIDE DEF e, d
        <4> QED BY <1>1, <2>3, <3>2
      <3>4. ASSUME ~inexact' PROVE Reverts
        <4>1. inv' = MoveItem(inv, i, j, n) /\ n \in 1 .. inv[i].count
          BY <1>2, <2>1, <2>8, PlainMove
        <4>2. {i, j} \cap Chest # {}
          BY <1>5, <1>6, <2>8
        <4>3. i # j => ~(Room(inv[j], Of(inv[i], n)) < n)
          BY <2>4, <2>8, <3>4, <4>2
        <4>4. Room(inv[j], Of(inv[i], n)) \in Int
          BY <1>1, <1>2, <2>2, AddedOf, StackFacts DEF Contents, st
        <4>5. i # j => Room(inv[j], Of(inv[i], n)) >= n
          BY <1>2, <4>3, <4>4
        <4>6. ApplyRevert(ApplyRevert(inv', d), e) = inv
          BY <1>1, <1>2, <4>1, <4>5, MoveReverted DEF st
        <4> HIDE DEF d, e
        <4>7. \A s \in Chest : ApplyRevert(ApplyRevert(inv', d), e)[s] = inv[s]
          BY <4>6
        <4> QED BY <2>3, <3>2, <4>7, TwoToRevert
      <3> QED BY <1>3, <3>3, <3>4, RevertsKeeps
    <2> QED BY <2>5, <2>6, <2>7, <2>8
  <1> QED BY <1>7, <1>8, <1>9

\* A drop is logged as what was dropped.
LEMMA DropReverts ==
    ASSUME RollbackInv, CopyInv', NEW interact \in BOOLEAN,
           NEW take \in Answers, NEW dropped \in 0 .. stack_max,
           ReceiveDrop(interact, take, dropped)
    PROVE  RollbackInv'
  <1> DEFINE a == Head(actions)
             i == a.from
             st == inv[i]
             asked == IF a.count = 0 THEN st.count
                      ELSE AtMost(a.count, st.count)
             count == IF take = Infinite THEN asked ELSE AtMost(asked, take)
             e == Entry(i, FALSE, Of(st, dropped))
  <1>1. /\ Typed /\ inexact \in BOOLEAN /\ log \in Seq(LogEntry)
        /\ inv' \in Contents /\ inv \in Contents
    BY DEF RollbackInv, CopyInv, Typed, Contents
  <1>2. a.type = "drop" /\ a \in Action
    BY <1>1, FirstAction DEF ReceiveDrop, Receive, Typed
  <1>3. i \in Kept /\ a.count \in Nat
    BY <1>2 DEF Action, Counts
  <1>4. i \in Slots /\ st \in Slot /\ st.count \in Nat
    <2>1. i \in Slots
      BY <1>3, KeptFacts
    <2> HIDE DEF i
    <2> QED BY <1>1, <2>1, StackFacts DEF Contents
  <1>5. dropped \in 0 .. count
    BY DEF ReceiveDrop
  <1>6. asked \in 0 .. st.count
    BY <1>3, <1>4 DEF AtMost
  <1>7. /\ inv' = IF take = Infinite THEN inv
                  ELSE [inv EXCEPT ![i] = Left(inv[i], dropped)]
        /\ log' = IF i \in Mine \/ dropped = 0 \/ take = Infinite
                  THEN log ELSE Append(log, e)
        /\ inexact' = inexact
    BY <1>1, <1>4 DEF ReceiveDrop, Contents
  <1> HIDE DEF i, st, asked
  <1>8. dropped \in Nat /\ dropped <= st.count
    <2>1. count \in 0 .. st.count
      BY <1>4, <1>6 DEF AtMost, Answers, Infinite, NoLimit
    <2> HIDE DEF count
    <2> QED BY <1>4, <1>5, <2>1
  <1> HIDE DEF count
  <1>9. CASE i \in Mine \/ dropped = 0 \/ take = Infinite
    <2>1. dropped = 0 => Left(st, dropped) = st
      <3>1. dropped = 0 => Left(st, dropped) = Of(st, st.count)
        BY <1>4 DEF Left, AtMost
      <3>2. st.count \in 0 .. st.count
        BY <1>4
      <3> QED BY <1>4, <3>1, <3>2, HasOf
    <2>2. \A s \in Chest : inv'[s] = inv[s]
      BY <1>1, <1>4, <1>7, <1>9, <2>1, SlotFacts DEF Contents, st
    <2> QED BY <1>1, <1>7, <1>9, <2>2, NothingToRevert, RevertsKeeps
  <1>10. CASE i \notin Mine /\ dropped # 0 /\ take # Infinite
    <2>1. Of(st, dropped) \in Slot
      BY <1>4, <1>8, OfIsSlot
    <2>2. e \in LogEntry /\ e.slot = i /\ ~e.add /\ e.stack = Of(st, dropped)
      BY <1>4, <2>1 DEF Entry, LogEntry
    <2> HIDE DEF e
    <2>3. PICK g : g = inv'
      OBVIOUS
    <2>4. /\ g \in Contents /\ g[i] = Left(st, dropped)
          /\ \A s \in Slots \ {i} : g[s] = inv[s]
      BY <1>1, <1>4, <1>7, <1>10, <2>3 DEF Contents, st
    <2>5. /\ \A s \in Slots \ {e.slot} : ApplyRevert(g, e)[s] = g[s]
          /\ ApplyRevert(g, e)[e.slot] = Added(g[e.slot], e.stack)
      BY <2>2, <2>4, RevertType
    <2>6. Added(Left(st, dropped), Of(st, dropped)) = st
      <3>1. dropped \in 1 .. st.count
        BY <1>4, <1>8, <1>10
      <3> QED BY <1>4, <3>1, PutBack
    <2>7. \A s \in Slots : ApplyRevert(g, e)[s] = inv[s]
      BY <2>2, <2>4, <2>5, <2>6 DEF st
    <2>8. \A s \in Chest : ApplyRevert(inv', e)[s] = inv[s]
      BY <2>3, <2>7, SlotFacts
    <2>9. log' = Append(log, e)
      BY <1>7, <1>10
    <2> QED BY <1>1, <1>7, <2>2, <2>8, <2>9, OneToRevert, RevertsKeeps
  <1> QED BY <1>9, <1>10

\* What the player does to the own inventory is not logged.
LEMMA CraftLeavesChest ==
    ASSUME Typed, NEW interact, ReceiveCraft(interact)
    PROVE  \A s \in Chest : inv'[s] = inv[s]
  <1>1. Chest \subseteq Slots /\ Craft \notin Chest /\ CraftResult \notin Chest
    BY SlotFacts
  <1>2. PICK st, tt : \/ inv' = inv
                      \/ inv' = [inv EXCEPT ![Craft] = st, ![CraftResult] = tt]
    BY DEF ReceiveCraft
  <1> QED BY <1>1, <1>2 DEF Typed

\* Nothing is logged at first.
LEMMA RollbackInvInit == Init => RollbackInv
  <1> SUFFICES ASSUME Init PROVE RollbackInv
    OBVIOUS
  <1>1. CopyInv
    BY CopyInvInit
  <1>2. log = <<>> /\ inexact = FALSE /\ <<>> \in Seq(LogEntry)
    BY DEF Init
  <1>3. inv \in Contents
    BY <1>1 DEF CopyInv, Typed, Contents
  <1>4. Reverse(log) \in Seq(LogEntry) /\ Len(Reverse(log)) = 0
    BY <1>2, ReverseIsLog DEF Reverse
  <1>5. Undo(inv, Reverse(log)) = inv
    <2>1. PICK h : /\ Stages(h, inv, Reverse(log))
                   /\ Undo(inv, Reverse(log)) = h[Len(Reverse(log))]
      BY <1>3, <1>4, UndoHasStages
    <2> QED BY <1>4, <2>1 DEF Stages
  <1>6. \A s \in Chest : inv[s] = Start(s)
    BY SlotFacts DEF Init, Start
  <1> QED BY <1>1, <1>2, <1>5, <1>6 DEF RollbackInv, Restored

\* Every step is logged as it is done, or inexact.
LEMMA RollbackInvNext == RollbackInv /\ [Next]_vars => RollbackInv'
  <1> SUFFICES ASSUME RollbackInv, [Next]_vars PROVE RollbackInv'
    OBVIOUS
  <1>1. /\ CopyInv /\ CopyInv' /\ Typed /\ Typed' /\ inexact \in BOOLEAN
        /\ log \in Seq(LogEntry)
    BY CopyInvNext DEF RollbackInv, CopyInv
  <1>2. ASSUME \A s \in Chest : inv'[s] = inv[s], log' = log,
               inexact' = inexact
        PROVE  RollbackInv'
    BY <1>1, <1>2, NothingToRevert, RevertsKeeps
  <1>3. ASSUME NEW a, NEW p, Act(a, p) PROVE RollbackInv'
    BY <1>2, <1>3 DEF Act
  <1>4. ASSUME NEW i \in Kept, NEW j \in Kept, NEW n \in Counts, Move(i, j, n)
        PROVE  RollbackInv'
    BY <1>3, <1>4 DEF Move
  <1>5. ASSUME NEW i \in Kept, NEW n \in Counts, Drop(i, n) PROVE RollbackInv'
    BY <1>3, <1>5 DEF Drop
  <1>6. ASSUME NEW n \in Counts, CraftItems(n) PROVE RollbackInv'
    BY <1>3, <1>6 DEF CraftItems
  <1>7. CASE ReceiveInventory \/ RevertPrediction \/ UNCHANGED vars
    BY <1>2, <1>7 DEF ReceiveInventory, RevertPrediction, vars
  <1>8. ASSUME NEW interact \in BOOLEAN, Refuse(interact) PROVE RollbackInv'
    BY <1>2, <1>8 DEF Refuse
  <1>9. ASSUME NEW interact \in BOOLEAN, NEW emptied \in BOOLEAN,
               NEW take \in Answers, NEW put \in Answers,
               ReceiveMove(interact, take, put, emptied)
        PROVE  RollbackInv'
    BY <1>1, <1>9, ReceiveMoveIs, MoveReverts
  <1>10. ASSUME NEW interact \in BOOLEAN, NEW take \in Answers,
                NEW dropped \in 0 .. stack_max,
                ReceiveDrop(interact, take, dropped)
         PROVE  RollbackInv'
    BY <1>1, <1>10, DropReverts
  <1>11. ASSUME NEW interact \in BOOLEAN, ReceiveCraft(interact)
         PROVE  RollbackInv'
    BY <1>1, <1>2, <1>11, CraftLeavesChest DEF ReceiveCraft
  <1>12. CASE SendInventory
    <2>1. \A s \in Chest : inv'[s] = inv[s]
      BY <1>1, <1>12, SlotFacts DEF SendInventory, Typed
    <2> QED BY <1>2, <1>12, <2>1 DEF SendInventory
  <1>13. ASSUME NEW s \in Kept, NEW st \in Ones \cup {Empty}, Change(s, st)
         PROVE  RollbackInv'
    <2>1. /\ inv' = [inv EXCEPT ![s] = st] /\ log' = log
          /\ inexact' = (inexact \/ s \in Chest)
      BY <1>13 DEF Change
    <2>2. CASE s \in Chest
      <3>1. inexact' = TRUE /\ log' \in Seq(LogEntry)
        BY <1>1, <2>1, <2>2
      <3> QED BY <1>1, <3>1 DEF RollbackInv
    <2>3. CASE s \notin Chest
      <3>1. \A c \in Chest : inv'[c] = inv[c]
        BY <1>1, <2>1, <2>3, SlotFacts DEF Typed
      <3>2. inexact' = inexact
        BY <1>1, <2>1, <2>3
      <3> QED BY <1>2, <2>1, <3>1, <3>2
    <2> QED BY <2>2, <2>3
  <1> QED BY <1>4, <1>5, <1>6, <1>7, <1>8, <1>9, <1>10, <1>11, <1>12, <1>13
          DEF Next

(***************************************************************************)
(* Undoing what was logged, latest first, gives back the chest as it was   *)
(* at first, after any number of actions that were logged as they          *)
(* happened. Undoing goes through the stages of UndoHasStages; a step's    *)
(* entries are undone before all earlier ones (UndoLast), what they change *)
(* in the player's slots does not matter to the chest (UndoOfChest), and   *)
(* then the chest is as it was before the step (MoveReverted, PutBack,     *)
(* TakeBack).                                                              *)
(***************************************************************************)
THEOREM RollbackHolds == Spec => []RollbackRestores
  <1>1. RollbackInv => RollbackRestores
    BY Zenon DEF RollbackInv, RollbackRestores, Restored, Undo, Start
  <1> QED BY <1>1, RollbackInvInit, RollbackInvNext, PTL DEF Spec
=============================================================================
