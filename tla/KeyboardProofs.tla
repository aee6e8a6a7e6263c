--------------------------- MODULE KeyboardProofs ---------------------------
(***************************************************************************)
(* Theorems about Keyboard for every size of the queue, every set of keys  *)
(* and any number of characters typed.                                     *)
(***************************************************************************)
EXTENDS Keyboard, SequenceTheorems, TLAPS

-----------------------------------------------------------------------------
(* The inductive invariant.  During a dequeue its register copy n lags     *)
(* behind queue_tail by the keys that have arrived since, each of which is *)
(* a race; the bounds on what is lost need n as well as queue_tail.        *)
RacesTyped == races <= Len(typed)
Dequeues ==
  pc # "poll" =>
    /\ 1 <= n /\ n <= queue_tail
    /\ Len(typed) <= Len(delivered) + n + races

(* Without a race n is queue_tail, what was returned is the beginning of   *)
(* what was typed, and the rest is in the queue: in its first slots before *)
(* a dequeue, and in the middle of one shifted down by one as far as the   *)
(* loop has come, behind the character in retval.                          *)
Slot(k) == IF pc \in {"poll", "take"} THEN key_queue[k - 1]
           ELSE IF k = 1 THEN retval
           ELSE IF pc = "drop" \/ k - 1 <= i THEN key_queue[k - 2]
           ELSE key_queue[k - 1]
InOrder ==
  races = 0 =>
    /\ pc # "poll" => n = queue_tail
    /\ pc = "copy" => i <= queue_tail
    /\ Len(typed) = Len(delivered) + queue_tail
    /\ \A k \in 1 .. Len(delivered) : typed[k] = delivered[k]
    /\ \A k \in 1 .. queue_tail : typed[Len(delivered) + k] = Slot(k)

NotBothDown == ~both => ~(Shift \subseteq down)

IInv == /\ TypeOK
        /\ RacesTyped
        /\ Dequeues
        /\ LossBounded
        /\ InOrder
        /\ NotBothDown
        /\ ShiftFollowsKeys

-----------------------------------------------------------------------------
LEMMA InitIInv == Init => IInv
<1> SUFFICES ASSUME Init PROVE IInv
  OBVIOUS
<1> USE DEF Init
<1>1. TypeOK
  <2>1. key_queue \in [0 .. KB_QUEUE_SIZE -> Char \union {Nothing, Overrun}]
    OBVIOUS
  <2>2. typed \in Seq(Char) /\ Len(typed) = 0
    OBVIOUS
  <2>3. delivered \in Seq(Char \union {Nothing, Overrun})
    OBVIOUS
  <2>4. /\ queue_tail \in 0 .. KB_QUEUE_SIZE /\ n \in 0 .. KB_QUEUE_SIZE
        /\ i \in 0 .. KB_QUEUE_SIZE /\ races \in 0 .. MaxTyped
        /\ Len(typed) <= MaxTyped
    BY <2>2, QueueAssumption
  <2> QED
    BY <2>1, <2>2, <2>3, <2>4 DEF TypeOK
<1>2. RacesTyped /\ Dequeues /\ LossBounded
  BY DEF RacesTyped, Dequeues, LossBounded
<1>3. InOrder
  BY DEF InOrder
<1>4. NotBothDown /\ ShiftFollowsKeys
  BY DEF NotBothDown, ShiftFollowsKeys, Shift
<1> QED
  BY <1>1, <1>2, <1>3, <1>4 DEF IInv

(* A shift key touches only the shift state and its history.               *)
LEMMA ShiftKeyIInv ==
  ASSUME IInv, NEW key \in Shift, NEW pressed \in BOOLEAN,
         (key \in down) # pressed, ShiftKey(key, pressed)
  PROVE  IInv'
<1> USE DEF IInv, ShiftKey, reader
<1>1. TypeOK'
  BY DEF TypeOK, Shift
<1>2. RacesTyped' /\ Dequeues' /\ LossBounded'
  BY DEF RacesTyped, Dequeues, LossBounded
<1>3. InOrder'
  BY DEF InOrder, Slot
<1>4. NotBothDown'
  BY DEF NotBothDown
<1>5. ShiftFollowsKeys'
  <2>1. CASE pressed
    BY <2>1 DEF ShiftFollowsKeys
  <2>2. CASE ~pressed
    <3>1. key \in down /\ down' = down \ {key} /\ _shift' = FALSE
      BY <2>2
    <3>2. ~both' => down = {key}
      BY <3>1 DEF NotBothDown, Shift, TypeOK
    <3> QED
      BY <3>1, <3>2 DEF ShiftFollowsKeys
  <2> QED
    BY <2>1, <2>2
<1> QED
  BY <1>1, <1>2, <1>3, <1>4, <1>5

(* A key that is queued: at the end of the queue if nobody dequeues.       *)
LEMMA EnqueueIInv ==
  ASSUME IInv, NEW key \in Key, Enqueue(key)
  PROVE  IInv'
<1> DEFINE char == [key |-> key, upper |-> _shift]
<1>1. /\ queue_tail < KB_QUEUE_SIZE
      /\ Len(typed) < MaxTyped
      /\ key_queue' = [key_queue EXCEPT ![queue_tail] = char]
      /\ queue_tail' = queue_tail + 1
      /\ typed' = Append(typed, char)
      /\ races' = IF pc = "poll" THEN races ELSE races + 1
      /\ UNCHANGED <<_shift, pc, n, i, retval, down, both, delivered>>
  BY DEF Enqueue, reader
<1>2. char \in Char
  BY DEF Char, IInv, TypeOK
<1>3. /\ Len(typed) \in Nat /\ Len(typed') = Len(typed) + 1
      /\ typed'[Len(typed) + 1] = char
      /\ \A k \in 1 .. Len(typed) : typed'[k] = typed[k]
      /\ Len(delivered) \in Nat
  BY <1>1, <1>2 DEF IInv, TypeOK
<1> HIDE DEF char
<1>4. TypeOK'
  BY <1>1, <1>2, <1>3, QueueAssumption DEF IInv, TypeOK, RacesTyped
<1>5. RacesTyped' /\ Dequeues' /\ LossBounded'
  BY <1>1, <1>3, QueueAssumption
     DEF IInv, TypeOK, RacesTyped, Dequeues, LossBounded
<1>6. InOrder'
  <2> SUFFICES ASSUME races' = 0
               PROVE  InOrder'
    BY DEF InOrder
  <2>1. pc = "poll" /\ races = 0
    BY <1>1 DEF IInv, TypeOK
  <2>2. Len(typed) = Len(delivered) + queue_tail
    BY <2>1 DEF IInv, InOrder
  <2>3. \A k \in 1 .. queue_tail + 1 :
           typed'[Len(delivered) + k] = key_queue'[k - 1]
    <3> TAKE k \in 1 .. queue_tail + 1
    <3>1. CASE k = queue_tail + 1
      BY <3>1, <2>2, <1>1, <1>3, QueueAssumption DEF IInv, TypeOK
    <3>2. CASE k # queue_tail + 1
      <4>1. k \in 1 .. queue_tail
        BY <3>2 DEF IInv, TypeOK
      <4>2. typed[Len(delivered) + k] = key_queue[k - 1]
        BY <4>1, <2>1 DEF IInv, InOrder, Slot
      <4>3. key_queue'[k - 1] = key_queue[k - 1]
        BY <4>1, <1>1, QueueAssumption DEF IInv, TypeOK
      <4>4. Len(delivered) + k \in 1 .. Len(typed)
        BY <4>1, <2>2, <1>3 DEF IInv, TypeOK
      <4> QED
        BY <4>2, <4>3, <4>4, <1>3
    <3> QED
      BY <3>1, <3>2
  <2>4. \A k \in 1 .. Len(delivered) : typed'[k] = delivered'[k]
    BY <2>1, <2>2, <1>1, <1>3 DEF IInv, InOrder, TypeOK
  <2>5. /\ pc' = "poll" /\ delivered' = delivered
        /\ queue_tail' = queue_tail + 1
        /\ Len(typed') = Len(delivered') + queue_tail'
    BY <2>1, <2>2, <1>1, <1>3 DEF IInv, TypeOK
  <2> QED
    BY <2>3, <2>4, <2>5 DEF InOrder, Slot
<1>7. NotBothDown' /\ ShiftFollowsKeys'
  BY <1>1 DEF IInv, NotBothDown, ShiftFollowsKeys
<1> QED
  BY <1>4, <1>5, <1>6, <1>7 DEF IInv

-----------------------------------------------------------------------------
(* The steps of the reader.  None touches the shift state.                 *)
LEMMA PollIInv == IInv /\ Poll => IInv'
<1> SUFFICES ASSUME IInv, Poll PROVE IInv'
  OBVIOUS
<1> USE DEF IInv, Poll
<1>1. TypeOK'
  BY DEF TypeOK
<1>2. RacesTyped' /\ Dequeues' /\ LossBounded'
  BY DEF TypeOK, RacesTyped, Dequeues, LossBounded
<1>3. InOrder'
  BY DEF InOrder, Slot
<1>4. NotBothDown' /\ ShiftFollowsKeys'
  BY DEF NotBothDown, ShiftFollowsKeys
<1> QED
  BY <1>1, <1>2, <1>3, <1>4

LEMMA TakeIInv == IInv /\ Take => IInv'
<1> SUFFICES ASSUME IInv, Take PROVE IInv'
  OBVIOUS
<1> USE DEF IInv, Take
<1>1. TypeOK'
  BY QueueAssumption DEF TypeOK
<1>2. RacesTyped' /\ Dequeues' /\ LossBounded'
  BY DEF TypeOK, RacesTyped, Dequeues, LossBounded
<1>3. InOrder'
  BY DEF InOrder, Slot, TypeOK
<1>4. NotBothDown' /\ ShiftFollowsKeys'
  BY DEF NotBothDown, ShiftFollowsKeys
<1> QED
  BY <1>1, <1>2, <1>3, <1>4

LEMMA CopyIInv == IInv /\ Copy => IInv'
<1> SUFFICES ASSUME IInv, Copy PROVE IInv'
  OBVIOUS
<1>1. /\ pc = "copy" /\ i < KB_QUEUE_SIZE
      /\ key_queue' = [key_queue EXCEPT ![i] = key_queue[i + 1]]
      /\ i' = i + 1
      /\ UNCHANGED <<queue_tail, _shift, pc, n, retval, down, both, typed,
                     delivered, races>>
  BY QueueAssumption DEF Copy, TailRead, IInv, TypeOK
<1>2. TypeOK'
  BY <1>1, QueueAssumption DEF IInv, TypeOK
<1>3. RacesTyped' /\ Dequeues' /\ LossBounded'
  BY <1>1 DEF IInv, RacesTyped, Dequeues, LossBounded
<1>4. InOrder'
  <2> SUFFICES ASSUME races = 0
               PROVE  InOrder'
    BY <1>1 DEF InOrder
  <2>1. i < queue_tail
    BY DEF Copy, TailRead, IInv, InOrder, TypeOK
  <2>2. \A k \in 1 .. queue_tail : Slot(k)' = Slot(k)
    BY <1>1, <2>1, QueueAssumption DEF Slot, IInv, TypeOK
  <2> QED
    BY <1>1, <2>1, <2>2 DEF IInv, InOrder, TypeOK
<1>5. NotBothDown' /\ ShiftFollowsKeys'
  BY <1>1 DEF IInv, NotBothDown, ShiftFollowsKeys
<1> QED
  BY <1>2, <1>3, <1>4, <1>5 DEF IInv

LEMMA CopyDoneIInv == IInv /\ CopyDone => IInv'
<1> SUFFICES ASSUME IInv, CopyDone PROVE IInv'
  OBVIOUS
<1> USE DEF IInv, CopyDone
<1>1. TypeOK'
  BY DEF TypeOK
<1>2. RacesTyped' /\ Dequeues' /\ LossBounded'
  BY DEF TypeOK, RacesTyped, Dequeues, LossBounded
<1>3. InOrder'
  <2> SUFFICES ASSUME races = 0
               PROVE  InOrder'
    BY DEF InOrder
  <2>1. i = queue_tail
    BY DEF InOrder, TailRead, TypeOK
  <2>2. \A k \in 1 .. queue_tail : Slot(k)' = Slot(k)
    BY <2>1 DEF Slot, TypeOK
  <2> QED
    BY <2>2 DEF InOrder
<1>4. NotBothDown' /\ ShiftFollowsKeys'
  BY DEF NotBothDown, ShiftFollowsKeys
<1> QED
  BY <1>1, <1>2, <1>3, <1>4

(* The character is returned; the new queue_tail is one less than one of   *)
(* the two values it can be computed from.                                 *)
LEMMA DropIInv == IInv /\ Drop => IInv'
<1> SUFFICES ASSUME IInv, Drop PROVE IInv'
  OBVIOUS
<1>1. /\ pc = "drop" /\ pc' = "poll"
      /\ delivered' = Append(delivered, retval)
      /\ UNCHANGED <<key_queue, _shift, n, i, retval, down, both, typed, races>>
      /\ queue_tail' \in n - 1 .. queue_tail - 1
      /\ races = 0 => queue_tail' = queue_tail - 1
  BY DEF Drop, TailRead, IInv, TypeOK, Dequeues, InOrder
<1>2. /\ Len(delivered) \in Nat /\ Len(typed) \in Nat
      /\ Len(delivered') = Len(delivered) + 1
      /\ delivered'[Len(delivered) + 1] = retval
      /\ \A k \in 1 .. Len(delivered) : delivered'[k] = delivered[k]
      /\ delivered' \in Seq(Char \union {Nothing, Overrun})
  BY <1>1 DEF IInv, TypeOK
<1>3. TypeOK'
  BY <1>1, <1>2, QueueAssumption DEF IInv, TypeOK, Dequeues
<1>4. RacesTyped' /\ Dequeues' /\ LossBounded'
  BY <1>1, <1>2 DEF IInv, TypeOK, RacesTyped, Dequeues, LossBounded
<1>5. InOrder'
  <2> SUFFICES ASSUME races = 0
               PROVE  InOrder'
    BY <1>1 DEF InOrder
  <2>1. queue_tail' = queue_tail - 1 /\ queue_tail \in Nat \ {0}
    BY <1>1 DEF IInv, TypeOK, Dequeues
  <2>2. \A k \in 1 .. queue_tail : typed[Len(delivered) + k] = Slot(k)
    BY DEF IInv, InOrder
  <2>3. Slot(1) = retval /\ \A k \in 1 .. queue_tail - 1 : Slot(k + 1) = key_queue[k - 1]
    BY <1>1, <2>1 DEF Slot
  <2>4. \A k \in 1 .. queue_tail' : typed'[Len(delivered') + k] = key_queue'[k - 1]
    <3> TAKE k \in 1 .. queue_tail'
    <3>1. k + 1 \in 1 .. queue_tail /\ k \in 1 .. queue_tail - 1
      BY <2>1
    <3>2. Len(delivered') + k = Len(delivered) + (k + 1)
      BY <1>2, <3>1
    <3> QED
      BY <1>1, <2>2, <2>3, <3>1, <3>2
  <2>5. \A k \in 1 .. Len(delivered') : typed'[k] = delivered'[k]
    <3> TAKE k \in 1 .. Len(delivered')
    <3>1. CASE k \in 1 .. Len(delivered)
      BY <3>1, <1>1, <1>2 DEF IInv, InOrder
    <3>2. CASE k = Len(delivered) + 1
      BY <3>2, <1>1, <1>2, <2>1, <2>2, <2>3
    <3> QED
      BY <3>1, <3>2, <1>2
  <2> QED
    BY <1>1, <1>2, <2>1, <2>4, <2>5 DEF IInv, InOrder, Slot
<1>6. NotBothDown' /\ ShiftFollowsKeys'
  BY <1>1 DEF IInv, NotBothDown, ShiftFollowsKeys
<1> QED
  BY <1>3, <1>4, <1>5, <1>6 DEF IInv

LEMMA UnchangedIInv == IInv /\ UNCHANGED vars => IInv'
  BY DEF IInv, vars, reader, TypeOK, RacesTyped, Dequeues, LossBounded,
         InOrder, Slot, NotBothDown, ShiftFollowsKeys

LEMMA NextIInv == IInv /\ [Next]_vars => IInv'
<1> SUFFICES ASSUME IInv, [Next]_vars PROVE IInv'
  OBVIOUS
<1>1. CASE Interrupt
  BY <1>1, ShiftKeyIInv, EnqueueIInv, UnchangedIInv DEF Interrupt, EnqueueFull
<1>2. CASE Reader
  BY <1>2, PollIInv, TakeIInv, CopyIInv, CopyDoneIInv, DropIInv, UnchangedIInv
     DEF Reader, PollEmpty
<1> QED
  BY <1>1, <1>2, UnchangedIInv DEF Next

THEOREM Invariance == Spec => []IInv
<1>1. Init => IInv
  BY InitIInv
<1>2. IInv /\ [Next]_vars => IInv'
  BY NextIInv
<1> QED
  BY <1>1, <1>2, PTL DEF Spec

-----------------------------------------------------------------------------
(* The variables keep their types: the copy loop reads no slot behind the  *)
(* word that follows the array, whichever uses of queue_tail are cached.   *)
THEOREM TypeCorrect == Spec => []TypeOK
<1>1. IInv => TypeOK
  BY DEF IInv
<1> QED
  BY <1>1, Invariance, PTL

(* However interrupts and the steps of ps2_keyboard_dequeue interleave:    *)
(* the characters returned and waiting are no more than were queued, and   *)
(* fewer by at most the number that arrived in the middle of a dequeue.    *)
(* (How many, not which: one may come twice in the place of another.)      *)
THEOREM LossSafe == Spec => []LossBounded
<1>1. IInv => LossBounded
  BY DEF IInv
<1> QED
  BY <1>1, Invariance, PTL

(* _shift follows the shift keys while one of them is used at a time.      *)
THEOREM ShiftSafe == Spec => []ShiftFollowsKeys
<1>1. IInv => ShiftFollowsKeys
  BY DEF IInv
<1> QED
  BY <1>1, Invariance, PTL

(* As long as no key arrives in the middle of a dequeue, the characters    *)
(* returned and those waiting are the ones typed, in their order.          *)
THEOREM OrderSafe == Spec => []FIFOWithoutRaces
<1>1. ASSUME IInv PROVE FIFOWithoutRaces
  <2> SUFFICES ASSUME races = 0, pc \in {"poll", "take"}
               PROVE  delivered \o Waiting = typed
    BY DEF FIFOWithoutRaces
  <2> DEFINE Elem == Char \union {Nothing, Overrun}
  <2>1. /\ Waiting \in Seq(Elem)
        /\ Len(Waiting) = queue_tail
        /\ \A k \in 1 .. queue_tail : Waiting[k] = key_queue[k - 1]
    <3>1. /\ queue_tail \in Nat
          /\ \A k \in 1 .. queue_tail : key_queue[k - 1] \in Elem
      BY <1>1, QueueAssumption DEF IInv, TypeOK
    <3> QED
      BY <3>1 DEF Waiting
  <2>2. /\ Len(typed) = Len(delivered) + queue_tail
        /\ \A k \in 1 .. Len(delivered) : typed[k] = delivered[k]
        /\ \A k \in 1 .. queue_tail : typed[Len(delivered) + k] = key_queue[k - 1]
    BY <1>1 DEF IInv, InOrder, Slot
  <2>3. delivered \in Seq(Elem) /\ typed \in Seq(Elem)
    BY <1>1 DEF IInv, TypeOK
  <2> HIDE DEF Waiting, Elem
  <2>4. /\ delivered \o Waiting \in Seq(Elem)
        /\ Len(delivered \o Waiting) = Len(typed)
        /\ \A k \in 1 .. Len(typed) :
              (delivered \o Waiting)[k]
                = IF k <= Len(delivered) THEN delivered[k]
                                         ELSE Waiting[k - Len(delivered)]
    <3>1. /\ delivered \o Waiting \in Seq(Elem)
          /\ Len(delivered \o Waiting) = Len(delivered) + Len(Waiting)
          /\ \A k \in 1 .. Len(delivered) + Len(Waiting) :
                (delivered \o Waiting)[k]
                  = IF k <= Len(delivered) THEN delivered[k]
                                           ELSE Waiting[k - Len(delivered)]
      BY <2>1, <2>3, ConcatProperties
    <3> QED
      BY <3>1, <2>1, <2>2
  <2>5. Len(delivered) \in Nat /\ Len(typed) \in Nat /\ queue_tail \in Nat
    BY <2>3, <1>1 DEF IInv, TypeOK
  <2>6. \A k \in 1 .. Len(typed) : (delivered \o Waiting)[k] = typed[k]
    <3> TAKE k \in 1 .. Len(typed)
    <3>1. CASE k <= Len(delivered)
      BY <3>1, <2>2, <2>4, <2>5
    <3>2. CASE k > Len(delivered)
      <4> DEFINE j == k - Len(delivered)
      <4>1. j \in 1 .. queue_tail /\ Len(delivered) + j = k
        BY <3>2, <2>2, <2>5
      <4>2. (delivered \o Waiting)[k] = Waiting[j]
        BY <3>2, <2>4, <2>5
      <4> HIDE DEF j
      <4>3. Waiting[j] = key_queue[j - 1]
        BY <4>1, <2>1
      <4>4. typed[Len(delivered) + j] = key_queue[j - 1]
        BY <4>1, <2>2
      <4> QED
        BY <4>1, <4>2, <4>3, <4>4
    <3>3. k <= Len(delivered) \/ k > Len(delivered)
      BY <2>5
    <3> QED
      BY <3>1, <3>2, <3>3
  <2> QED
    BY <2>3, <2>4, <2>6, SeqEqual
<1> QED
  BY <1>1, Invariance, PTL
=============================================================================
