---------------------------- MODULE Inventories ----------------------------
(***************************************************************************)
(* A player moves, drops and crafts items. The client sends what the       *)
(* player does as an inventory action and predicts its effect on its own   *)
(* copy of the player's inventory; the server does it, within the limits   *)
(* that the scripts of a chest set, writes it to the rollback log, and     *)
(* sends the player's inventory back. Messages each way are in order.      *)
(*                                                                         *)
(* A chest is an inventory in the metadata of a node, or a detached one:   *)
(* IMoveAction treats both alike. There are two, each with scripts of its  *)
(* own. A slot is named by its list and index.                             *)
(***************************************************************************)
EXTENDS Integers, Sequences, FiniteSets, SequencesExt, FiniteSetsExt

CONSTANTS
    Items,
    Ingredient, Product,    \* crafting makes one of the other
    stack_max,
    MainSize, ChestSize, OtherSize,
    FullMain, FullChest,    \* how many slots have a full stack at first
    MaxActions,             \* bound: inventory actions of the player
    MaxEvents,              \* bound: changes by scripts or other players
    Given                   \* bound: items these put into a slot

Main == {"main"} \X (1 .. MainSize)
\* The slots of both chests.
Chest == {"chest"} \X (1 .. ChestSize) \cup {"other"} \X (1 .. OtherSize)
Craft == <<"craft", 1>>
CraftResult == <<"craftresult", 1>>
CraftPreview == <<"craftpreview", 1>>
Full == {"main"} \X (1 .. FullMain) \cup {"chest"} \X (1 .. FullChest)
Mine == Main \cup {Craft, CraftResult, CraftPreview}
Slots == Mine \cup Chest
Kept == Slots \ {CraftPreview}

NoLimit == 65535
Infinite == -1

\* What a player may ask for; a count of 0 stands for all.
Counts == {0, 1}
Action == [type : {"move"}, from : Kept, to : Kept, count : Counts]
          \cup [type : {"drop"}, from : Kept, count : Counts]
          \cup [type : {"craft"}, count : Counts]

Stack == [name : Items, count : 1 .. stack_max]
NoName == "none"      \* "" in the code
Empty == [name |-> NoName, count |-> 0]

ASSUME InventoriesConstants ==
    /\ Ingredient \in Items /\ Product \in Items /\ "none" \notin Items
    /\ stack_max \in Nat \ {0}
    /\ {MainSize, ChestSize, OtherSize, MaxActions, MaxEvents} \subseteq Nat
    /\ FullMain \in 0 .. MainSize /\ FullChest \in 0 .. ChestSize
    /\ Given \subseteq Items

VARIABLES
    \* the server
    inv,                \* all the slots
    not_sent,           \* m_inventory_not_sent
    log,                \* of the rollback manager, for this player
    \* between client and server
    actions,
    inventories,
    \* the client
    local,              \* the player's inventory, with predictions
    from_server,        \* m_inventory_from_server
    \* only observed
    ground,             \* items dropped into the world
    made,               \* items made less items used up, on purpose
    inexact,            \* the log does not describe what was done
    nactions, nevents

clientVars == <<local, from_server>>
bounds == <<nactions, nevents>>
vars == <<inv, not_sent, log, actions, inventories, clientVars, ground, made,
          inexact, bounds>>

PlayersOf(f) == [s \in Mine |-> f[s]]

Init ==
    /\ inv = [s \in Slots |-> IF s \in Full THEN [name |-> Ingredient,
                                                count |-> stack_max]
                                          ELSE Empty]
    /\ not_sent = FALSE
    /\ log = <<>>
    /\ actions = <<>>
    /\ inventories = <<>>
    /\ local = PlayersOf(inv)
    /\ from_server = local
    /\ ground = [x \in Items |-> 0]
    /\ made = [x \in Items |-> 0]
    /\ inexact = FALSE
    /\ nactions = 0
    /\ nevents = 0

-----------------------------------------------------------------------------
(* Stacks. *)

Of(st, n) == IF n = 0 THEN Empty ELSE [st EXCEPT !.count = n]
AtMost(n, m) == IF n < m THEN n ELSE m

\* ItemStack::takeItem: what is taken, and what is left.
Taken(st, n) == Of(st, AtMost(n, st.count))
Left(st, n) == Of(st, st.count - AtMost(n, st.count))

\* How many of the stack new go to the stack st.
Room(st, new) ==
    IF st = Empty THEN new.count
    ELSE IF st.name # new.name THEN 0
    ELSE AtMost(new.count, stack_max - st.count)

\* Mutant: a stack takes everything of its kind.
AddedAll(st, new) ==
    IF st = Empty THEN new
    ELSE IF st.name # new.name THEN st ELSE Of(st, st.count + new.count)

\* ItemStack::addItem: the stack with what fits, and the rest.
Added(st, new) == IF st = Empty THEN new ELSE Of(st, st.count + Room(st, new))
Rest(st, new) == Of(new, new.count - Room(st, new))

\* Mutant: what does not fit is not put back.
MoveItemNoPutBack(f, i, j, n) ==
    LET item == IF n = 0 THEN f[i] ELSE Taken(f[i], n)
        left == IF n = 0 THEN Empty ELSE Left(f[i], n)
    IN  IF i = j \/ item = Empty THEN f
        ELSE IF Room(f[j], item) = 0 THEN [f EXCEPT ![i] = f[j], ![j] = f[i]]
        ELSE [f EXCEPT ![i] = left, ![j] = Added(f[j], item)]

(***************************************************************************)
(* InventoryList::moveItem, n = 0 for all. What does not fit goes back; if *)
(* nothing fits, the two stacks are exchanged, whole.                      *)
(***************************************************************************)
MoveItem(f, i, j, n) ==
    LET item == IF n = 0 THEN f[i] ELSE Taken(f[i], n)
        left == IF n = 0 THEN Empty ELSE Left(f[i], n)
        rest == Rest(f[j], item)
    IN  IF i = j \/ item = Empty THEN f
        ELSE IF rest = item THEN [f EXCEPT ![i] = f[j], ![j] = f[i]]
        ELSE [f EXCEPT ![j] = Added(f[j], item),
                       ![i] = IF rest = Empty THEN left ELSE Added(left, rest)]

\* How many items x the slots S have.
Count(f, S, x) ==
    MapThenSumSet(LAMBDA s : IF f[s].name = x THEN f[s].count ELSE 0, S)

\* The items there would be more of, after a change of slots.
Gain(f, g) == [x \in Items |-> made[x] + Count(g, Kept, x) - Count(f, Kept, x)]

-----------------------------------------------------------------------------
(* The client. *)

\* Client::inventoryAction: send it, then clientApply.
Act(a, predicted) ==
    /\ nactions < MaxActions
    /\ nactions' = nactions + 1
    /\ actions' = Append(actions, a)
    /\ local' = predicted
    /\ UNCHANGED <<inv, not_sent, log, inventories, from_server, ground, made,
                   inexact, nevents>>

Move(i, j, n) ==
    Act([type |-> "move", from |-> i, to |-> j, count |-> n],
        IF {i, j} \subseteq Mine THEN MoveItem(local, i, j, n) ELSE local)

Drop(i, n) ==
    Act([type |-> "drop", from |-> i, count |-> n],
        IF i \notin Mine THEN local
        ELSE [local EXCEPT ![i] = IF n = 0 THEN Empty ELSE Left(@, n)])

CraftItems(n) == Act([type |-> "craft", count |-> n], local)

\* TOCLIENT_INVENTORY.
ReceiveInventory ==
    /\ inventories # <<>>
    /\ inventories' = Tail(inventories)
    /\ local' = Head(inventories)
    /\ from_server' = Head(inventories)
    /\ UNCHANGED <<inv, not_sent, log, actions, ground, made, inexact,
                   bounds>>

\* Client::step, 10 seconds after the last TOCLIENT_INVENTORY and again.
RevertPrediction ==
    /\ local # from_server
    /\ local' = from_server
    /\ UNCHANGED <<inv, not_sent, log, actions, inventories, from_server,
                   ground, made, inexact, bounds>>

-----------------------------------------------------------------------------
(* The server: ProcessData on TOSERVER_INVENTORY_ACTION. *)

Forbidden(a, interact) ==
    \/ a.type = "move" /\ \/ a.from = CraftPreview
                          \/ a.to \in {CraftPreview, CraftResult}
                          \/ ~interact /\ {a.from, a.to} \cap Chest # {}
    \/ a.type = "drop" /\ a.from = CraftPreview
    \/ a.type # "move" /\ ~interact

SlotsOf(a) == CASE a.type = "move" -> {a.from, a.to}
                [] a.type = "drop" -> {a.from}
                [] OTHER -> Mine

\* Mutant: an action that is not allowed does not make the server send.
MarkAllowed(a, interact) ==
    not_sent' = (not_sent \/ (SlotsOf(a) \cap Mine # {}
                                  /\ ~Forbidden(a, interact)))

(***************************************************************************)
(* setInventoryModified: "Always set inventory not sent, to repair cases   *)
(* where the client made a bad prediction", before anything else.          *)
(***************************************************************************)
Mark(a, interact) == not_sent' = (not_sent \/ SlotsOf(a) \cap Mine # {})

\* The next action, or its refusal.
Receive(type, interact) ==
    /\ actions # <<>>
    /\ Head(actions).type = type
    /\ actions' = Tail(actions)
    /\ Mark(Head(actions), interact)
    /\ UNCHANGED <<inventories, clientVars, nactions>>

Refuse(interact) ==
    /\ \E type \in {"move", "drop", "craft"} : Receive(type, interact)
    /\ Forbidden(Head(actions), interact)
    /\ UNCHANGED <<inv, log, ground, made, inexact, nevents>>

\* Mutant: what the destination allows is not looked at.
AllowedToTake(asked, take, put, there) ==
    LET taking == IF take = Infinite THEN asked ELSE AtMost(asked, take)
    IN  AtMost(taking, there)

\* How many items are moved.
Allowed(asked, take, put, there) ==
    LET taking  == IF take = Infinite THEN asked ELSE AtMost(asked, take)
        putting == IF put = Infinite THEN taking ELSE AtMost(taking, put)
    IN  AtMost(putting, there)

(***************************************************************************)
(* IMoveAction::apply resets an infinite source, after it has tried to     *)
(* save the stack it was exchanged for, and an infinite destination.       *)
(***************************************************************************)
ResetSource(f, i, j) ==
    LET free == {k \in 1 .. MainSize + ChestSize + OtherSize :
                    <<j[1], k>> \in Slots /\ f[<<j[1], k>>] = Empty}
        g == IF inv[i].name = inv[j].name \/ free = {} THEN f
             ELSE [f EXCEPT ![<<j[1], Min(free)>>] = inv[j]]
    IN  [g EXCEPT ![i] = inv[i]]

ResetDestination(f, i, j, n) ==
    [f EXCEPT ![j] = inv[j], ![i] = Left(inv[i], n)]

ApplyMove(i, j, n, take, put) ==
    LET moved == MoveItem(inv, i, j, n)
        f == IF take = Infinite THEN ResetSource(moved, i, j) ELSE moved
    IN  IF put = Infinite THEN ResetDestination(f, i, j, n) ELSE f

Entry(s, add, st) == [slot |-> s, add |-> add, stack |-> st]

\* Mutant: an infinite destination is written like any other.
MoveEntriesOfAll(i, j, st, take, put) ==
    IF {i, j} \subseteq Mine THEN <<>>
    ELSE (IF take # Infinite THEN <<Entry(i, FALSE, st)>> ELSE <<>>) \o
         <<Entry(j, TRUE, st)>>

\* What a move writes to the rollback log.
MoveEntries(i, j, st, take, put) ==
    IF {i, j} \subseteq Mine THEN <<>>
    ELSE (IF take # Infinite THEN <<Entry(i, FALSE, st)>> ELSE <<>>) \o
         (IF put # Infinite THEN <<Entry(j, TRUE, st)>> ELSE <<>>)

(***************************************************************************)
(* IMoveAction::apply. The chest a stack comes from is asked how many      *)
(* items may be taken, the one it goes to how many may be put, one         *)
(* question if they are the same; either may answer Infinite. The script   *)
(* that answers may empty the source; any other change it makes is a       *)
(* Change just before.                                                     *)
(***************************************************************************)
ReceiveMove(interact, take, put, emptied) ==
    /\ Receive("move", interact)
    /\ ~Forbidden(Head(actions), interact)
    /\ LET a == Head(actions)
           i == a.from
           j == a.to
           asked == IF a.count = 0 THEN inv[i].count ELSE a.count
           n == Allowed(asked, take, put, IF emptied THEN 0 ELSE inv[i].count)
           added == Room(inv[j], Of(inv[i], n))
           within == {i, j} \subseteq Chest /\ i[1] = j[1]
       IN  /\ i \notin Chest => take = NoLimit
           /\ j \notin Chest => put = NoLimit
           /\ within => take = put
           /\ emptied => {i, j} \cap Chest # {} /\ nevents < MaxEvents
           /\ IF emptied
              THEN /\ inv' = [inv EXCEPT ![i] = Empty]
                   /\ UNCHANGED log
              ELSE IF n = 0 THEN UNCHANGED <<inv, log>>
              ELSE /\ inv' = ApplyMove(i, j, n, take, put)
                   /\ log' = log \o MoveEntries(i, j, Of(inv[i], n), take, put)
           /\ made' = IF emptied \/ Infinite \in {take, put}
                      THEN Gain(inv, inv') ELSE made
           /\ inexact' = \/ inexact
                         \/ emptied /\ i \in Chest
                         \/ n > 0 /\ take = Infinite /\ put = Infinite
                         \/ /\ n > 0 /\ i # j /\ {i, j} \cap Chest # {}
                            /\ put # Infinite /\ added < n
                            /\ take # Infinite \/ j \in Chest
           /\ nevents' = nevents + IF emptied THEN 1 ELSE 0
    /\ UNCHANGED ground

(***************************************************************************)
(* IDropAction::apply. The item's on_drop may drop less than it was given, *)
(* or there is none and nothing is dropped.                                *)
(***************************************************************************)
ReceiveDrop(interact, take, dropped) ==
    /\ Receive("drop", interact)
    /\ ~Forbidden(Head(actions), interact)
    /\ LET a == Head(actions)
           st == inv[a.from]
           asked == IF a.count = 0 THEN st.count ELSE AtMost(a.count, st.count)
           count == IF take = Infinite THEN asked ELSE AtMost(asked, take)
       IN  /\ a.from \notin Chest => take = NoLimit
           /\ dropped \in 0 .. count
           /\ inv' = IF take = Infinite THEN inv
                     ELSE [inv EXCEPT ![a.from] = Left(@, dropped)]
           /\ log' = IF a.from \in Mine \/ dropped = 0 \/ take = Infinite
                     THEN log
                     ELSE Append(log, Entry(a.from, FALSE, Of(st, dropped)))
           /\ ground' = [x \in Items |-> ground[x] +
                            (IF x = st.name THEN dropped ELSE 0)]
           /\ made' = [x \in Items |-> made[x] +
                          (IF x = st.name /\ take = Infinite
                           THEN dropped ELSE 0)]
    /\ UNCHANGED <<inexact, nevents>>

\* getCraftingResult.
CraftingResult(st) ==
    IF st.name = Ingredient THEN [name |-> Product, count |-> 1] ELSE Empty

(***************************************************************************)
(* ICraftAction::apply crafts n times, or as often as it can if n = 0.     *)
(***************************************************************************)
ReceiveCraft(interact) ==
    /\ Receive("craft", interact)
    /\ ~Forbidden(Head(actions), interact)
    /\ LET n == Head(actions).count
           ingredients == IF inv[Craft].name = Ingredient THEN inv[Craft].count
                                                          ELSE 0
           able == Room(inv[CraftResult],
                        [name |-> Product, count |-> ingredients])
           times == IF n = 0 THEN able ELSE AtMost(n, able)
       IN  /\ inv' = IF times = 0 THEN inv
                     ELSE [inv EXCEPT
                             ![Craft] = Left(@, times),
                             ![CraftResult] = Added(@, [name |-> Product,
                                                        count |-> times])]
           /\ made' = [made EXCEPT ![Ingredient] = @ - times,
                                   ![Product] = @ + times]
    /\ UNCHANGED <<log, ground, inexact, nevents>>

\* AsyncRunStep: UpdateCrafting and SendInventory.
SendInventory ==
    /\ not_sent
    /\ not_sent' = FALSE
    /\ inv' = [inv EXCEPT ![CraftPreview] = CraftingResult(inv[Craft])]
    /\ inventories' = Append(inventories, PlayersOf(inv'))
    /\ UNCHANGED <<log, actions, clientVars, ground, made, inexact, bounds>>

\* A script, or another player, changes a slot.
Change(s, st) ==
    /\ nevents < MaxEvents
    /\ nevents' = nevents + 1
    /\ inv[s] # st
    /\ inv' = [inv EXCEPT ![s] = st]
    /\ made' = Gain(inv, inv')
    /\ not_sent' = (not_sent \/ s \in Mine)
    /\ inexact' = (inexact \/ s \in Chest)
    /\ UNCHANGED <<log, actions, inventories, clientVars, ground, nactions>>

-----------------------------------------------------------------------------
Answers == {Infinite, 0, 1, NoLimit}
Ones == {st \in Stack : st.name \in Given /\ st.count = 1}

Next ==
    \/ \E i, j \in Kept, n \in Counts : Move(i, j, n)
    \/ \E i \in Kept, n \in Counts : Drop(i, n)
    \/ \E n \in Counts : CraftItems(n)
    \/ ReceiveInventory
    \/ RevertPrediction
    \/ \E interact \in BOOLEAN : Refuse(interact)
    \/ \E interact, emptied \in BOOLEAN, take, put \in Answers :
           ReceiveMove(interact, take, put, emptied)
    \/ \E interact \in BOOLEAN, take \in Answers, dropped \in 0 .. stack_max :
           ReceiveDrop(interact, take, dropped)
    \/ \E interact \in BOOLEAN : ReceiveCraft(interact)
    \/ SendInventory
    \/ \E s \in Kept, st \in Ones \cup {Empty} : Change(s, st)

Spec == Init /\ [][Next]_vars

-----------------------------------------------------------------------------
(* Properties. *)

(***************************************************************************)
(* Every slot, on both sides, is empty or has between one and stack_max    *)
(* items of one kind: no operation leaves a name with no items or a stack  *)
(* larger than its kind stacks.                                            *)
(***************************************************************************)
TypeOK ==
    /\ inv \in [Slots -> Stack \cup {Empty}]
    /\ {local, from_server} \subseteq [Mine -> Stack \cup {Empty}]
    /\ not_sent \in BOOLEAN
    /\ actions \in Seq(Action)
    /\ inventories \in Seq([Mine -> Stack \cup {Empty}])
    /\ ground \in [Items -> Nat]
    /\ made \in [Items -> Int]
    /\ inexact \in BOOLEAN

(***************************************************************************)
(* No action of a player makes or loses an item. A move that fits only in  *)
(* part, or not at all, puts back what it took (IMoveAction::apply takes   *)
(* before it knows), a craft uses up as much as it makes, and a drop       *)
(* leaves in the slot what on_drop did not take. Accounted for in made:    *)
(* what crafting, scripts and infinite stacks make or use up.              *)
(***************************************************************************)
ItemsKept ==
    \A x \in Items :
        Count(inv, Kept, x) + ground[x] = made[x] +
            IF x = Ingredient THEN stack_max * Cardinality(Full) ELSE 0

ChestOf(name) == {s \in Chest : s[1] = name}

\* Items put into a chest, or taken out of it if negative.
Put(name, x) == Count(inv', ChestOf(name), x) - Count(inv, ChestOf(name), x)

\* A move that no script interferes with, onto a stack that takes at least one
\* item. One onto any other stack exchanges the two, whatever the limits are.
MoveWithinRoom(take, put) ==
    LET a == Head(actions)
    IN  /\ ReceiveMove(TRUE, take, put, FALSE)
        /\ Room(inv[a.to], Of(inv[a.from], 1)) > 0 \/ a.from = a.to
        /\ take = Infinite =>
               ~({a.from, a.to} \subseteq Chest /\ a.from[1] = a.to[1])

\* How many items the answers let a chest lose, and gain. An infinite source
\* stays as it is, unless the destination is infinite as well: then "count" is
\* taken from the source, as from any other.
MayLose(take, put) ==
    CASE take # Infinite -> take
      [] take = Infinite /\ put # Infinite -> 0
      [] OTHER -> stack_max

MayGain(put) == IF put = Infinite THEN 0 ELSE put

WithinLimits(take, put) ==
    \A name \in {"chest", "other"}, x \in Items :
        /\ -Put(name, x) <= MayLose(take, put)
        /\ Put(name, x) <= MayGain(put)

(***************************************************************************)
(* A chest never gains more than its own allow_put answered, nor loses     *)
(* more than its own allow_take answered, in a move or a drop: when the    *)
(* destination has room for a part only, when the player asks for more     *)
(* than there is, and when two chests answer differently. An infinite      *)
(* stack keeps what it has, with one exception: between two infinite       *)
(* chests the source loses what the destination swallows. Exempt are       *)
(* exchanges, and an infinite source within one chest.                     *)
(***************************************************************************)
LimitsRespected ==
    [][ \/ \A s \in Chest : inv'[s] = inv[s]
        \/ /\ \A take, put \in Answers :
                  MoveWithinRoom(take, put) => WithinLimits(take, put)
           /\ \A take \in Answers, n \in 1 .. stack_max :
                  ReceiveDrop(TRUE, take, n) => WithinLimits(take, 0) ]_vars

\* RollbackAction::applyRevert: take what was put, put what was taken.
ApplyRevert(f, e) ==
    IF ~e.add THEN [f EXCEPT ![e.slot] = Added(@, e.stack)]
    ELSE IF f[e.slot].name # e.stack.name THEN f
    ELSE [f EXCEPT ![e.slot] = Left(@, e.stack.count)]

(***************************************************************************)
(* Undoing the log, latest first, gives back the chests as they were:      *)
(* /rollback of what a player did (rollbackRevertActions) after any        *)
(* sequence of moves and drops. Exempt is what the log does not describe:  *)
(* a move that fits in part or exchanges stacks is logged as if all had    *)
(* moved, one from an infinite to an infinite chest is not logged at all,  *)
(* and changes by others are not this player's.                            *)
(***************************************************************************)
RollbackRestores ==
    ~inexact =>
        LET f == FoldLeft(ApplyRevert, inv, Reverse(log))
        IN  \A s \in Chest :
                f[s] = IF s \in Full
                       THEN [name |-> Ingredient, count |-> stack_max]
                       ELSE Empty

(***************************************************************************)
(* When no message is on its way, and nothing to be sent, the client sees  *)
(* the inventory the server has, and the preview of what it really could   *)
(* craft: a wrong prediction, a refused action, a change by a script and   *)
(* the ten-second return to m_inventory_from_server, in whatever order, do *)
(* not leave the two apart.                                                *)
(***************************************************************************)
CopyIsCurrent ==
    \/ actions # <<>>
    \/ not_sent
    \/ inventories # <<>>
    \/ local = PlayersOf(inv) /\ inv[CraftPreview] = CraftingResult(inv[Craft])
=============================================================================
