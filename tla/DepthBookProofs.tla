-------------------------- MODULE DepthBookProofs ---------------------------
(***************************************************************************)
(* What the operations of DepthList do to any list of any depth, and that  *)
(* the handlers of book entries keep the books right with them.  The       *)
(* proofs compare sequences index by index, so the sequences are first     *)
(* described that way.                                                     *)
(***************************************************************************)
EXTENDS DepthBook, SequenceTheorems, FiniteSetTheorems, TLAPS

(* Inserting an element, index by index.                                   *)
LEMMA InsertedAt ==
  ASSUME NEW S, NEW s \in Seq(S), NEW x \in S, NEW n \in 1 .. Len(s) + 1
  PROVE  /\ InsertAt(s, n, x) \in Seq(S)
         /\ Len(InsertAt(s, n, x)) = Len(s) + 1
         /\ \A k \in 1 .. Len(s) + 1 :
              InsertAt(s, n, x)[k] = IF k < n THEN s[k]
                                     ELSE IF k = n THEN x ELSE s[k - 1]
<1> DEFINE front == SubSeq(s, 1, n - 1)
           back  == SubSeq(s, n, Len(s))
<1>1. /\ front \in Seq(S) /\ Len(front) = n - 1
      /\ \A k \in 1 .. n - 1 : front[k] = s[k]
  OBVIOUS
<1>2. /\ back \in Seq(S) /\ Len(back) = Len(s) - n + 1
      /\ \A k \in 1 .. Len(s) - n + 1 : back[k] = s[n + k - 1]
  OBVIOUS
<1>3. /\ front \o <<x>> \in Seq(S) /\ Len(front \o <<x>>) = n
      /\ \A k \in 1 .. n : (front \o <<x>>)[k] = IF k < n THEN s[k] ELSE x
  <2> HIDE DEF front
  <2> QED  BY <1>1
<1>4. InsertAt(s, n, x) = (front \o <<x>>) \o back
  BY DEF InsertAt
<1> DEFINE lead == front \o <<x>>
<1>5. lead \in Seq(S) /\ back \in Seq(S) /\ Len(lead) = n
  BY <1>2, <1>3
<1> HIDE DEF front, back, lead
<1>6. /\ lead \o back \in Seq(S)
      /\ Len(lead \o back) = Len(lead) + Len(back)
      /\ \A k \in 1 .. Len(lead) + Len(back) :
           (lead \o back)[k] = IF k <= Len(lead) THEN lead[k] ELSE back[k - Len(lead)]
  BY <1>5, ConcatProperties
<1>7. Len(lead) + Len(back) = Len(s) + 1
  BY <1>2, <1>5
<1>8. ASSUME NEW k \in 1 .. Len(s) + 1
      PROVE  (lead \o back)[k] = IF k < n THEN s[k]
                                 ELSE IF k = n THEN x ELSE s[k - 1]
  <2>1. CASE k <= n
    BY <2>1, <1>3, <1>5, <1>6, <1>7 DEF lead
  <2>2. CASE k > n
    <3>1. (lead \o back)[k] = back[k - n]
      BY <2>2, <1>5, <1>6, <1>7
    <3>2. k - n \in 1 .. Len(s) - n + 1 /\ n + (k - n) - 1 = k - 1
      BY <2>2
    <3> QED  BY <2>2, <3>1, <3>2, <1>2
  <2>3. k <= n \/ k > n
    BY LenProperties
  <2> QED  BY <2>1, <2>2, <2>3, Zenon
<1>9. InsertAt(s, n, x) = lead \o back
  BY <1>4 DEF lead
<1>10. Len(lead \o back) = Len(s) + 1
  BY <1>6, <1>7
<1>11. InsertAt(s, n, x) \in Seq(S)
  BY <1>6, <1>9
<1>12. Len(InsertAt(s, n, x)) = Len(s) + 1
  BY <1>9, <1>10
<1>13. ASSUME NEW k \in 1 .. Len(s) + 1
       PROVE  InsertAt(s, n, x)[k] = IF k < n THEN s[k]
                                     ELSE IF k = n THEN x ELSE s[k - 1]
  BY <1>8, <1>9, Zenon
<1> QED  BY <1>11, <1>12, <1>13

(* Removing an element, index by index.                                    *)
LEMMA RemovedAt ==
  ASSUME NEW S, NEW s \in Seq(S), NEW n \in 1 .. Len(s)
  PROVE  /\ RemoveAt(s, n) \in Seq(S)
         /\ Len(RemoveAt(s, n)) = Len(s) - 1
         /\ \A k \in 1 .. Len(s) - 1 :
              RemoveAt(s, n)[k] = IF k < n THEN s[k] ELSE s[k + 1]
<1> DEFINE front == SubSeq(s, 1, n - 1)
           back  == SubSeq(s, n + 1, Len(s))
<1>1. /\ front \in Seq(S) /\ Len(front) = n - 1
      /\ \A k \in 1 .. n - 1 : front[k] = s[k]
  OBVIOUS
<1>2. /\ back \in Seq(S) /\ Len(back) = Len(s) - n
      /\ \A k \in 1 .. Len(s) - n : back[k] = s[n + k]
  OBVIOUS
<1>3. RemoveAt(s, n) = front \o back
  BY DEF RemoveAt
<1> HIDE DEF front, back
<1>4. /\ front \o back \in Seq(S)
      /\ Len(front \o back) = Len(front) + Len(back)
      /\ \A k \in 1 .. Len(front) + Len(back) :
           (front \o back)[k] = IF k <= Len(front) THEN front[k] ELSE back[k - Len(front)]
  BY <1>1, <1>2, ConcatProperties
<1>5. Len(front) + Len(back) = Len(s) - 1
  BY <1>1, <1>2
<1>6. ASSUME NEW k \in 1 .. Len(s) - 1
      PROVE  (front \o back)[k] = IF k < n THEN s[k] ELSE s[k + 1]
  <2>1. CASE k < n
    BY <2>1, <1>1, <1>4, <1>5
  <2>2. CASE k >= n
    <3>1. (front \o back)[k] = back[k - (n - 1)]
      BY <2>2, <1>1, <1>4, <1>5
    <3>2. k - (n - 1) \in 1 .. Len(s) - n /\ n + (k - (n - 1)) = k + 1
      BY <2>2
    <3> QED  BY <2>2, <3>1, <3>2, <1>2
  <2>3. k < n \/ k >= n
    BY LenProperties
  <2> QED  BY <2>1, <2>2, <2>3, Zenon
<1>7. Len(front \o back) = Len(s) - 1
  BY <1>4, <1>5
<1>8. RemoveAt(s, n) \in Seq(S)
  BY <1>3, <1>4
<1>9. Len(RemoveAt(s, n)) = Len(s) - 1
  BY <1>3, <1>7
<1>10. ASSUME NEW k \in 1 .. Len(s) - 1
       PROVE  RemoveAt(s, n)[k] = IF k < n THEN s[k] ELSE s[k + 1]
  BY <1>3, <1>6, Zenon
<1> QED  BY <1>8, <1>9, <1>10

(* The published part of a list, index by index.                           *)
LEMMA BestAt ==
  ASSUME NEW S, NEW all \in Seq(S)
  PROVE  /\ Best(all) \in Seq(S)
         /\ Len(Best(all)) = IF Len(all) > Depth THEN Depth ELSE Len(all)
         /\ \A k \in 1 .. Len(Best(all)) : Best(all)[k] = all[k]
<1> USE DepthAssumption
<1>1. CASE Len(all) > Depth
  <2>1. \A k \in 1 .. Depth : all[k] \in S
    BY <1>1
  <2>2. /\ SubSeq(all, 1, Depth) \in Seq(S)
        /\ Len(SubSeq(all, 1, Depth)) = Depth
        /\ \A k \in 1 .. Depth : SubSeq(all, 1, Depth)[k] = all[k]
    BY <1>1, <2>1
  <2> QED  BY <1>1, <2>2 DEF Best
<1>2. CASE ~(Len(all) > Depth)
  BY <1>2 DEF Best
<1> QED  BY <1>1, <1>2

(* Removing the element past the depth, as Add does, is cutting back.      *)
LEMMA CutBack ==
  ASSUME NEW S, NEW s \in Seq(S), Len(s) = Depth + 1
  PROVE  RemoveAt(s, Depth + 1) = Best(s)
<1> USE DepthAssumption
<1>1. Depth + 1 \in 1 .. Len(s)
  OBVIOUS
<1>2. /\ RemoveAt(s, Depth + 1) \in Seq(S)
      /\ Len(RemoveAt(s, Depth + 1)) = Depth
      /\ \A k \in 1 .. Depth : RemoveAt(s, Depth + 1)[k] = s[k]
  <2>1. \A k \in 1 .. Len(s) - 1 :
          RemoveAt(s, Depth + 1)[k] = IF k < Depth + 1 THEN s[k] ELSE s[k + 1]
    BY <1>1, RemovedAt
  <2>2. RemoveAt(s, Depth + 1) \in Seq(S) /\ Len(RemoveAt(s, Depth + 1)) = Depth
    BY <1>1, RemovedAt
  <2> QED  BY <2>1, <2>2
<1>3. /\ Best(s) \in Seq(S) /\ Len(Best(s)) = Depth
      /\ \A k \in 1 .. Depth : Best(s)[k] = s[k]
  BY BestAt
<1> QED  BY <1>2, <1>3, SeqEqual

(* Add, seen as an insertion that is cut back to the depth.                *)
LEMMA AddIsBest ==
  ASSUME NEW list \in Lists, NEW level \in 1 .. Len(list) + 1,
         NEW price \in Prices, NEW quantity \in Quantities
  PROVE  Add(list, level, price, quantity)
           = Best(InsertAt(list, level, [price |-> price, quantity |-> quantity]))
<1> USE DepthAssumption
<1> DEFINE new   == [price |-> price, quantity |-> quantity]
           grown == InsertAt(list, level, new)
<1>1. list \in Seq(Levels) /\ Len(list) <= Depth /\ new \in Levels
  BY DEF Lists, Levels
<1>2. grown \in Seq(Levels) /\ Len(grown) = Len(list) + 1
  BY <1>1, InsertedAt
<1>3. Add(list, level, price, quantity)
        = IF Len(grown) > Depth THEN RemoveAt(grown, Depth + 1) ELSE grown
  BY DEF Add
<1> HIDE DEF grown
<1>4. CASE Len(grown) > Depth
  <2>1. Len(grown) = Depth + 1
    BY <1>1, <1>2, <1>4
  <2> QED  BY <1>2, <1>3, <1>4, <2>1, CutBack DEF grown
<1>5. CASE ~(Len(grown) > Depth)
  BY <1>3, <1>5 DEF Best, grown
<1> QED  BY <1>4, <1>5

(* Whatever level, price or quantity the feed names, an operation turns a  *)
(* list of levels into one, and no list is longer than the depth its       *)
(* vector was reserved for (DepthList::Add erases the level beyond it).    *)
THEOREM OperationsKeepLists ==
  ASSUME NEW list \in Lists, NEW level \in Int,
         NEW price \in Prices, NEW quantity \in Quantities
  PROVE  /\ Add(list, level, price, quantity) \in Lists
         /\ Update(list, level, price, quantity) \in Lists
         /\ Delete(list, level, price) \in Lists
         /\ DeleteFrom(list, level) \in Lists
         /\ DeleteThru(list, level) \in Lists
<1> USE DepthAssumption
<1>1. list \in Seq(Levels) /\ Len(list) \in Nat /\ Len(list) <= Depth
  BY DEF Lists
<1>2. Add(list, level, price, quantity) \in Lists
  <2>1. CASE level \in 1 .. Len(list) + 1
    <3> DEFINE grown == InsertAt(list, level, [price |-> price, quantity |-> quantity])
    <3>1. [price |-> price, quantity |-> quantity] \in Levels
      BY DEF Levels
    <3>2. grown \in Seq(Levels)
      BY <1>1, <2>1, <3>1, InsertedAt
    <3>3. Add(list, level, price, quantity) = Best(grown)
      BY <2>1, AddIsBest
    <3> HIDE DEF grown
    <3>4. Best(grown) \in Seq(Levels) /\ Len(Best(grown)) <= Depth
      BY <3>2, BestAt
    <3> QED  BY <3>3, <3>4 DEF Lists
  <2>2. CASE level \notin 1 .. Len(list) + 1
    BY <2>2 DEF Add
  <2> QED  BY <2>1, <2>2
<1>3. Update(list, level, price, quantity) \in Lists
  <2>1. CASE Has(list, level) /\ list[level].price = price
    <3> DEFINE changed == [list EXCEPT ![level].quantity = quantity]
    <3>1. level \in 1 .. Len(list) /\ list[level] \in Levels
      BY <1>1, <2>1 DEF Has
    <3>2. [list[level] EXCEPT !.quantity = quantity] \in Levels
      BY <3>1 DEF Levels
    <3>3. changed = [list EXCEPT ![level] = [list[level] EXCEPT !.quantity = quantity]]
      OBVIOUS
    <3>4. changed \in Seq(Levels) /\ Len(changed) = Len(list)
      BY <1>1, <3>1, <3>2, <3>3, ExceptSeq
    <3> QED  BY <1>1, <2>1, <3>4 DEF Update, Lists
  <2>2. CASE ~(Has(list, level) /\ list[level].price = price)
    BY <2>2 DEF Update
  <2> QED  BY <2>1, <2>2
<1>4. Delete(list, level, price) \in Lists
  <2>1. CASE Has(list, level) /\ list[level].price = price
    <3>1. level \in 1 .. Len(list)
      BY <2>1 DEF Has
    <3>2. RemoveAt(list, level) \in Seq(Levels)
          /\ Len(RemoveAt(list, level)) = Len(list) - 1
      BY <1>1, <3>1, RemovedAt
    <3> QED  BY <1>1, <2>1, <3>2 DEF Delete, Lists
  <2>2. CASE ~(Has(list, level) /\ list[level].price = price)
    BY <2>2 DEF Delete
  <2> QED  BY <2>1, <2>2
<1>5. DeleteFrom(list, level) \in Lists
  <2>1. CASE Has(list, level)
    <3>1. level \in 1 .. Len(list)
      BY <2>1 DEF Has
    <3>2. SubSeq(list, level + 1, Len(list)) \in Seq(Levels)
          /\ Len(SubSeq(list, level + 1, Len(list))) <= Len(list)
      BY <1>1, <3>1
    <3> QED  BY <1>1, <2>1, <3>2 DEF DeleteFrom, Lists
  <2>2. CASE ~Has(list, level)
    BY <2>2 DEF DeleteFrom
  <2> QED  BY <2>1, <2>2
<1>6. DeleteThru(list, level) \in Lists
  <2>1. CASE Has(list, level)
    <3>1. level \in 1 .. Len(list)
      BY <2>1 DEF Has
    <3>2. SubSeq(list, 1, level - 1) \in Seq(Levels)
          /\ Len(SubSeq(list, 1, level - 1)) <= Len(list)
      BY <1>1, <3>1
    <3> QED  BY <1>1, <2>1, <3>2 DEF DeleteThru, Lists
  <2>2. CASE ~Has(list, level)
    BY <2>2 DEF DeleteThru
  <2> QED  BY <2>1, <2>2
<1> QED  BY <1>2, <1>3, <1>4, <1>5, <1>6

(* A list that holds the best Depth levels of the exchange's book and adds *)
(* the new level it is sent holds the best Depth levels of the new book:   *)
(* the erase at the end of DepthList::Add drops exactly the level that is  *)
(* no longer published.                                                    *)
THEOREM AddMirrors ==
  ASSUME NEW all \in Seq(Levels), NEW level \in 1 .. Len(all) + 1,
         level <= Depth, NEW price \in Prices, NEW quantity \in Quantities
  PROVE  Add(Best(all), level, price, quantity)
           = Best(InsertAt(all, level, [price |-> price, quantity |-> quantity]))
<1> USE DepthAssumption
<1> DEFINE list  == Best(all)
           new   == [price |-> price, quantity |-> quantity]
           near  == InsertAt(list, level, new)
           far   == InsertAt(all, level, new)
<1>1. new \in Levels /\ Len(all) \in Nat
  BY DEF Levels
<1>2. /\ list \in Seq(Levels)
      /\ Len(list) = IF Len(all) > Depth THEN Depth ELSE Len(all)
      /\ \A k \in 1 .. Len(list) : list[k] = all[k]
  BY BestAt
<1>3. list \in Lists /\ level \in 1 .. Len(list) + 1
  BY <1>1, <1>2 DEF Lists
<1>4. Add(list, level, price, quantity) = Best(near)
  BY <1>3, AddIsBest
<1> HIDE DEF list, new
<1>5. /\ near \in Seq(Levels) /\ Len(near) = Len(list) + 1
      /\ \A k \in 1 .. Len(list) + 1 :
           near[k] = IF k < level THEN list[k] ELSE IF k = level THEN new ELSE list[k - 1]
  <2>0. list \in Seq(Levels) /\ level \in 1 .. Len(list) + 1 /\ new \in Levels
    BY <1>1, <1>2, <1>3
  <2>1. near \in Seq(Levels) /\ Len(near) = Len(list) + 1
    BY <2>0, InsertedAt
  <2>2. ASSUME NEW k \in 1 .. Len(list) + 1
        PROVE  near[k] = IF k < level THEN list[k]
                         ELSE IF k = level THEN new ELSE list[k - 1]
    BY <2>0, InsertedAt, SMTT(30)
  <2> QED  BY <2>1, <2>2
<1>6. /\ far \in Seq(Levels) /\ Len(far) = Len(all) + 1
      /\ \A k \in 1 .. Len(all) + 1 :
           far[k] = IF k < level THEN all[k] ELSE IF k = level THEN new ELSE all[k - 1]
  <2>1. far \in Seq(Levels) /\ Len(far) = Len(all) + 1
    BY <1>1, InsertedAt, Zenon
  <2>2. ASSUME NEW k \in 1 .. Len(all) + 1
        PROVE  far[k] = IF k < level THEN all[k]
                        ELSE IF k = level THEN new ELSE all[k - 1]
    BY <1>1, InsertedAt
  <2> QED  BY <2>1, <2>2
<1> HIDE DEF near, far
<1>7. /\ Best(near) \in Seq(Levels) /\ Best(far) \in Seq(Levels)
      /\ Len(Best(near)) = IF Len(near) > Depth THEN Depth ELSE Len(near)
      /\ Len(Best(far)) = IF Len(far) > Depth THEN Depth ELSE Len(far)
      /\ \A k \in 1 .. Len(Best(near)) : Best(near)[k] = near[k]
      /\ \A k \in 1 .. Len(Best(far)) : Best(far)[k] = far[k]
  BY <1>5, <1>6, BestAt
<1>8. /\ Len(Best(near)) = Len(Best(far))
      /\ Len(Best(near)) <= Len(list) + 1 /\ Len(Best(near)) <= Len(all) + 1
  BY <1>1, <1>2, <1>5, <1>6, <1>7
<1>9. ASSUME NEW k \in 1 .. Len(Best(near))
      PROVE  Best(near)[k] = Best(far)[k]
  <2>1. Best(near)[k] = near[k] /\ Best(far)[k] = far[k]
    BY <1>7, <1>8
  <2>2. k \in 1 .. Len(list) + 1 /\ k \in 1 .. Len(all) + 1
    BY <1>1, <1>2, <1>8
  <2>3. k < level => list[k] = all[k]
    BY <1>2, <1>3, <2>2
  <2>4. k > level => list[k - 1] = all[k - 1]
    BY <1>2, <1>3, <2>2
  <2> QED  BY <1>5, <1>6, <2>1, <2>2, <2>3, <2>4
<1>10. Best(near) = Best(far)
  BY <1>7, <1>8, <1>9, SeqEqual
<1> QED  BY <1>4, <1>10 DEF list, new, near, far

(* The same for a level that goes: after DepthList::Delete and, if the     *)
(* exchange's book has a level that moves up into view, the DepthList::Add *)
(* at the last position that publishes it, the list holds the best Depth   *)
(* levels of the new book.                                                 *)
THEOREM DeleteMirrors ==
  ASSUME NEW all \in Seq(Levels), NEW level \in 1 .. Len(Best(all))
  PROVE  LET shorter == Delete(Best(all), level, all[level].price)
         IN  Best(RemoveAt(all, level))
               = IF Len(all) > Depth
                   THEN Add(shorter, Depth, all[Depth + 1].price, all[Depth + 1].quantity)
                   ELSE shorter
<1> USE DepthAssumption
<1> DEFINE list    == Best(all)
           shorter == RemoveAt(list, level)
           rest    == RemoveAt(all, level)
<1>1. /\ list \in Seq(Levels)
      /\ Len(list) = IF Len(all) > Depth THEN Depth ELSE Len(all)
      /\ \A k \in 1 .. Len(list) : list[k] = all[k]
  BY BestAt
<1>2. level \in 1 .. Len(list) /\ level \in 1 .. Len(all) /\ Len(all) \in Nat
  BY <1>1
<1>3. Delete(list, level, all[level].price) = shorter
  BY <1>1, <1>2 DEF Delete, Has
<1> HIDE DEF list
<1>4. /\ shorter \in Seq(Levels) /\ Len(shorter) = Len(list) - 1
      /\ \A k \in 1 .. Len(list) - 1 :
           shorter[k] = IF k < level THEN list[k] ELSE list[k + 1]
  BY <1>1, <1>2, RemovedAt
<1>5. /\ rest \in Seq(Levels) /\ Len(rest) = Len(all) - 1
      /\ \A k \in 1 .. Len(all) - 1 :
           rest[k] = IF k < level THEN all[k] ELSE all[k + 1]
  BY <1>2, RemovedAt
<1> HIDE DEF shorter, rest
<1>6. /\ Best(rest) \in Seq(Levels)
      /\ Len(Best(rest)) = IF Len(rest) > Depth THEN Depth ELSE Len(rest)
      /\ \A k \in 1 .. Len(Best(rest)) : Best(rest)[k] = rest[k]
  BY <1>5, BestAt
<1>7. \A k \in 1 .. Len(list) - 1 : shorter[k] = rest[k]
  BY <1>1, <1>2, <1>4, <1>5
<1>8. CASE Len(all) > Depth
  <2> DEFINE p     == all[Depth + 1].price
             q     == all[Depth + 1].quantity
             new   == [price |-> p, quantity |-> q]
             grown == InsertAt(shorter, Depth, new)
  <2>1. Depth + 1 \in 1 .. Len(all) /\ all[Depth + 1] \in Levels
    BY <1>2, <1>8
  <2>2. p \in Prices /\ q \in Quantities /\ new = all[Depth + 1]
    BY <2>1 DEF Levels
  <2>3. Len(shorter) = Depth - 1 /\ Depth \in 1 .. Len(shorter) + 1
    BY <1>1, <1>2, <1>4, <1>8
  <2>4. shorter \in Lists
    BY <1>4, <2>3 DEF Lists
  <2> HIDE DEF p, q
  <2>5. Add(shorter, Depth, p, q) = Best(grown)
    BY <2>2, <2>3, <2>4, AddIsBest
  <2>6. new \in Levels
    BY <2>1, <2>2
  <2> HIDE DEF new
  <2>7. /\ grown \in Seq(Levels) /\ Len(grown) = Depth
        /\ \A k \in 1 .. Depth :
             grown[k] = IF k < Depth THEN shorter[k]
                        ELSE IF k = Depth THEN new ELSE shorter[k - 1]
    <3>1. /\ InsertAt(shorter, Depth, new) \in Seq(Levels)
          /\ Len(InsertAt(shorter, Depth, new)) = Len(shorter) + 1
          /\ \A k \in 1 .. Len(shorter) + 1 :
               InsertAt(shorter, Depth, new)[k]
                 = IF k < Depth THEN shorter[k]
                   ELSE IF k = Depth THEN new ELSE shorter[k - 1]
      <4> HIDE DEF grown
      <4> QED  BY <1>4, <2>3, <2>6, InsertedAt
    <3>2. Len(shorter) + 1 = Depth
      BY <2>3
    <3> QED  BY <3>1, <3>2
  <2> HIDE DEF grown
  <2>8. Best(grown) = grown
    BY <2>7 DEF Best
  <2>9. Len(Best(rest)) = Depth
    BY <1>2, <1>5, <1>6, <1>8
  <2>10. ASSUME NEW k \in 1 .. Depth
         PROVE  grown[k] = Best(rest)[k]
    <3>1. Best(rest)[k] = rest[k]
      BY <1>6, <2>9
    <3>2. CASE k < Depth
      <4>1. k \in 1 .. Len(list) - 1
        BY <1>1, <1>8, <3>2
      <4>2. grown[k] = shorter[k] /\ shorter[k] = rest[k]
        BY <1>7, <2>7, <3>2, <4>1
      <4> QED  BY <3>1, <4>2
    <3>3. CASE k = Depth
      <4>1. k \in 1 .. Len(all) - 1 /\ ~(k < level)
        BY <1>1, <1>2, <1>8, <3>3
      <4>2. rest[k] = all[Depth + 1]
        BY <1>5, <3>3, <4>1
      <4>3. grown[k] = new
        BY <2>7, <3>3
      <4> QED  BY <2>2, <3>1, <4>2, <4>3
    <3> QED  BY <3>2, <3>3
  <2>11. grown = Best(rest)
    BY <1>6, <2>7, <2>9, <2>10, SeqEqual
  <2> QED  BY <1>3, <1>8, <2>5, <2>8, <2>11 DEF p, q, list, rest
<1>9. CASE ~(Len(all) > Depth)
  <2>1. Len(list) = Len(all)
    BY <1>1, <1>9
  <2>2. Len(Best(rest)) = Len(all) - 1
    BY <1>2, <1>5, <1>6, <1>9
  <2>3. ASSUME NEW k \in 1 .. Len(all) - 1
        PROVE  shorter[k] = Best(rest)[k]
    BY <1>6, <1>7, <2>1, <2>2
  <2>4. shorter = Best(rest)
    BY <1>4, <1>6, <2>1, <2>2, <2>3, SeqEqual
  <2> QED  BY <1>3, <1>9, <2>4 DEF list, rest
<1> QED  BY <1>8, <1>9

(* DepthList::Update changes the same level of the list as of the book.    *)
THEOREM UpdateMirrors ==
  ASSUME NEW all \in Seq(Levels), NEW level \in 1 .. Len(Best(all)),
         NEW quantity \in Quantities
  PROVE  LET new == [price |-> all[level].price, quantity |-> quantity]
         IN  Update(Best(all), level, all[level].price, quantity)
               = Best([all EXCEPT ![level] = new])
<1> USE DepthAssumption
<1> DEFINE list == Best(all)
           new  == [price |-> all[level].price, quantity |-> quantity]
           near == [list EXCEPT ![level] = new]
           far  == [all EXCEPT ![level] = new]
<1>1. /\ list \in Seq(Levels)
      /\ Len(list) = IF Len(all) > Depth THEN Depth ELSE Len(all)
      /\ \A k \in 1 .. Len(list) : list[k] = all[k]
  BY BestAt
<1>2. level \in 1 .. Len(list) /\ level \in 1 .. Len(all) /\ Len(all) \in Nat
  BY <1>1
<1>3. all[level] \in Levels /\ list[level] = all[level]
  BY <1>1, <1>2
<1>4. new \in Levels /\ [list[level] EXCEPT !.quantity = quantity] = new
  BY <1>3 DEF Levels
<1>5. Update(list, level, all[level].price, quantity) = near
  BY <1>2, <1>3, <1>4 DEF Update, Has
<1> HIDE DEF list, new
<1>6. /\ near \in Seq(Levels) /\ Len(near) = Len(list)
      /\ \A k \in 1 .. Len(list) : near[k] = IF k = level THEN new ELSE list[k]
  BY <1>1, <1>2, <1>4
<1>7. /\ far \in Seq(Levels) /\ Len(far) = Len(all)
      /\ \A k \in 1 .. Len(all) : far[k] = IF k = level THEN new ELSE all[k]
  BY <1>2, <1>4
<1> HIDE DEF near, far
<1>8. /\ Best(far) \in Seq(Levels) /\ Len(Best(far)) = Len(list)
      /\ \A k \in 1 .. Len(Best(far)) : Best(far)[k] = far[k]
  BY <1>1, <1>7, BestAt
<1>9. ASSUME NEW k \in 1 .. Len(list)
      PROVE  near[k] = Best(far)[k]
  <2>1. k \in 1 .. Len(all)
    BY <1>1, <1>2
  <2> QED  BY <1>1, <1>6, <1>7, <1>8, <2>1
<1>10. near = Best(far)
  BY <1>6, <1>8, <1>9, SeqEqual
<1> QED  BY <1>5, <1>10 DEF list, new, near, far

(* When the best levels go, DepthList::DeleteFrom leaves the beginning of  *)
(* what the book then shows: what is missing are the levels that move up   *)
(* into view behind it.                                                    *)
THEOREM DeleteFromMirrors ==
  ASSUME NEW all \in Seq(Levels), NEW level \in 1 .. Len(Best(all))
  PROVE  LET rest == Best(SubSeq(all, level + 1, Len(all)))
             kept == Len(Best(all)) - level
         IN  /\ kept \in 0 .. Len(rest)
             /\ DeleteFrom(Best(all), level) = SubSeq(rest, 1, kept)
<1> USE DepthAssumption
<1> DEFINE list == Best(all)
           gone == SubSeq(all, level + 1, Len(all))
           rest == Best(gone)
           kept == Len(list) - level
           near == SubSeq(list, level + 1, Len(list))
<1>1. /\ list \in Seq(Levels)
      /\ Len(list) = IF Len(all) > Depth THEN Depth ELSE Len(all)
      /\ \A k \in 1 .. Len(list) : list[k] = all[k]
  BY BestAt
<1>2. level \in 1 .. Len(list) /\ level \in 1 .. Len(all) /\ Len(all) \in Nat
  BY <1>1
<1>3. DeleteFrom(list, level) = near
  BY <1>2 DEF DeleteFrom, Has
<1> HIDE DEF list
<1>4. /\ near \in Seq(Levels) /\ Len(near) = kept
      /\ \A k \in 1 .. kept : near[k] = list[level + k]
  BY <1>1, <1>2
<1>5. /\ gone \in Seq(Levels) /\ Len(gone) = Len(all) - level
      /\ \A k \in 1 .. Len(all) - level : gone[k] = all[level + k]
  BY <1>2
<1> HIDE DEF gone, near
<1>6. /\ rest \in Seq(Levels)
      /\ Len(rest) = IF Len(gone) > Depth THEN Depth ELSE Len(gone)
      /\ \A k \in 1 .. Len(rest) : rest[k] = gone[k]
  BY <1>5, BestAt
<1> HIDE DEF rest
<1>7. kept \in 0 .. Len(rest) /\ Len(rest) <= Len(all) - level /\ Len(rest) \in Nat
  BY <1>1, <1>2, <1>5, <1>6
<1> HIDE DEF kept
<1>8. /\ SubSeq(rest, 1, kept) \in Seq(Levels) /\ Len(SubSeq(rest, 1, kept)) = kept
      /\ \A k \in 1 .. kept : SubSeq(rest, 1, kept)[k] = rest[k]
  BY <1>6, <1>7
<1>9. ASSUME NEW k \in 1 .. kept
      PROVE  near[k] = SubSeq(rest, 1, kept)[k]
  <2>1. k \in 1 .. Len(rest) /\ k \in 1 .. Len(all) - level
    BY <1>2, <1>7
  <2>2. rest[k] = all[level + k]
    BY <1>5, <1>6, <2>1
  <2>3. level + k \in 1 .. Len(list)
    BY <1>1, <1>2, <1>7 DEF kept
  <2> QED  BY <1>1, <1>4, <1>8, <2>2, <2>3
<1>10. near = SubSeq(rest, 1, kept)
  BY <1>4, <1>8, <1>9, SeqEqual
<1> QED  BY <1>3, <1>7, <1>10 DEF list, rest, kept, gone

(* When the levels from one on go, DepthList::DeleteThru leaves all that   *)
(* the book still shows.                                                   *)
THEOREM DeleteThruMirrors ==
  ASSUME NEW all \in Seq(Levels), NEW level \in 1 .. Len(Best(all))
  PROVE  DeleteThru(Best(all), level) = Best(SubSeq(all, 1, level - 1))
<1> USE DepthAssumption
<1> DEFINE list == Best(all)
           near == SubSeq(list, 1, level - 1)
           far  == SubSeq(all, 1, level - 1)
<1>1. /\ list \in Seq(Levels)
      /\ Len(list) = IF Len(all) > Depth THEN Depth ELSE Len(all)
      /\ \A k \in 1 .. Len(list) : list[k] = all[k]
  BY BestAt
<1>2. /\ level \in 1 .. Len(list) /\ level \in 1 .. Len(all) /\ Len(all) \in Nat
      /\ level <= Depth
  BY <1>1
<1>3. DeleteThru(list, level) = near
  BY <1>2 DEF DeleteThru, Has
<1> HIDE DEF list
<1>4. /\ near \in Seq(Levels) /\ Len(near) = level - 1
      /\ \A k \in 1 .. level - 1 : near[k] = list[k]
  BY <1>1, <1>2
<1>5. /\ far \in Seq(Levels) /\ Len(far) = level - 1
      /\ \A k \in 1 .. level - 1 : far[k] = all[k]
  BY <1>2
<1> HIDE DEF near, far
<1>6. Best(far) = far
  BY <1>2, <1>5 DEF Best
<1>7. ASSUME NEW k \in 1 .. level - 1
      PROVE  near[k] = far[k]
  <2>1. k \in 1 .. Len(list)
    BY <1>1, <1>2
  <2> QED  BY <1>1, <1>4, <1>5, <2>1
<1>8. near = far
  BY <1>4, <1>5, <1>7, SeqEqual
<1> QED  BY <1>3, <1>6, <1>8 DEF list, far

(* What DepthList::Delete leaves is, in the same way, the beginning of     *)
(* what the book then shows.                                               *)
LEMMA DeleteKeeps ==
  ASSUME NEW all \in Seq(Levels), NEW level \in 1 .. Len(Best(all))
  PROVE  LET rest == Best(RemoveAt(all, level))
             kept == Len(Best(all)) - 1
         IN  /\ kept \in 0 .. Len(rest)
             /\ Delete(Best(all), level, all[level].price) = SubSeq(rest, 1, kept)
<1> USE DepthAssumption
<1> DEFINE list == Best(all)
           gone == RemoveAt(all, level)
           rest == Best(gone)
           kept == Len(list) - 1
           near == RemoveAt(list, level)
<1>1. /\ list \in Seq(Levels)
      /\ Len(list) = IF Len(all) > Depth THEN Depth ELSE Len(all)
      /\ \A k \in 1 .. Len(list) : list[k] = all[k]
  BY BestAt
<1>2. level \in 1 .. Len(list) /\ level \in 1 .. Len(all) /\ Len(all) \in Nat
  BY <1>1
<1>3. Delete(list, level, all[level].price) = near
  BY <1>1, <1>2 DEF Delete, Has
<1> HIDE DEF list
<1>4. /\ near \in Seq(Levels) /\ Len(near) = kept
      /\ \A k \in 1 .. kept : near[k] = IF k < level THEN list[k] ELSE list[k + 1]
  BY <1>1, <1>2, RemovedAt
<1>5. /\ gone \in Seq(Levels) /\ Len(gone) = Len(all) - 1
      /\ \A k \in 1 .. Len(all) - 1 :
           gone[k] = IF k < level THEN all[k] ELSE all[k + 1]
  BY <1>2, RemovedAt
<1> HIDE DEF gone, near
<1>6. /\ rest \in Seq(Levels)
      /\ Len(rest) = IF Len(gone) > Depth THEN Depth ELSE Len(gone)
      /\ \A k \in 1 .. Len(rest) : rest[k] = gone[k]
  BY <1>5, BestAt
<1> HIDE DEF rest
<1>7. kept \in 0 .. Len(rest) /\ Len(rest) <= Len(all) - 1 /\ Len(rest) \in Nat
  BY <1>1, <1>2, <1>5, <1>6
<1> HIDE DEF kept
<1>8. /\ SubSeq(rest, 1, kept) \in Seq(Levels) /\ Len(SubSeq(rest, 1, kept)) = kept
      /\ \A k \in 1 .. kept : SubSeq(rest, 1, kept)[k] = rest[k]
  BY <1>6, <1>7
<1>9. ASSUME NEW k \in 1 .. kept
      PROVE  near[k] = SubSeq(rest, 1, kept)[k]
  <2>1. k \in 1 .. Len(rest) /\ k \in 1 .. Len(all) - 1
    BY <1>2, <1>7
  <2>2. rest[k] = IF k < level THEN all[k] ELSE all[k + 1]
    BY <1>5, <1>6, <2>1
  <2>3. k \in 1 .. Len(list) /\ k + 1 \in 1 .. Len(list)
    BY <1>1, <1>2, <1>7 DEF kept
  <2> QED  BY <1>1, <1>4, <1>8, <2>2, <2>3
<1>10. near = SubSeq(rest, 1, kept)
  BY <1>4, <1>8, <1>9, SeqEqual
<1> QED  BY <1>3, <1>7, <1>10 DEF list, rest, kept, gone

(* Adding the next level to the beginning of a list gives one level more   *)
(* of it: how a list is refilled, and how a snapshot is loaded.            *)
LEMMA AddNext ==
  ASSUME NEW seen \in Lists, NEW k \in 1 .. Len(seen)
  PROVE  Add(SubSeq(seen, 1, k - 1), k, seen[k].price, seen[k].quantity)
           = SubSeq(seen, 1, k)
<1> USE DepthAssumption
<1> DEFINE list  == SubSeq(seen, 1, k - 1)
           new   == [price |-> seen[k].price, quantity |-> seen[k].quantity]
           grown == InsertAt(list, k, new)
           next  == SubSeq(seen, 1, k)
<1>1. seen \in Seq(Levels) /\ Len(seen) \in Nat /\ Len(seen) <= Depth
  BY DEF Lists
<1>2. /\ seen[k].price \in Prices /\ seen[k].quantity \in Quantities
      /\ new \in Levels /\ new = seen[k]
  <2>1. seen[k] \in Levels
    BY <1>1
  <2> QED  BY <2>1 DEF Levels
<1>3. /\ list \in Seq(Levels) /\ Len(list) = k - 1
      /\ \A j \in 1 .. k - 1 : list[j] = seen[j]
  BY <1>1
<1>4. /\ next \in Seq(Levels) /\ Len(next) = k
      /\ \A j \in 1 .. k : next[j] = seen[j]
  BY <1>1
<1> HIDE DEF list, next
<1>5. list \in Lists /\ k \in 1 .. Len(list) + 1
  BY <1>1, <1>3 DEF Lists
<1>6. Add(list, k, seen[k].price, seen[k].quantity) = Best(grown)
  BY <1>2, <1>5, AddIsBest
<1> HIDE DEF new
<1>7. /\ grown \in Seq(Levels) /\ Len(grown) = k
      /\ \A j \in 1 .. k : grown[j] = IF j < k THEN list[j]
                              ELSE IF j = k THEN new ELSE list[j - 1]
  <2>1. new \in Levels /\ k \in 1 .. Len(list) + 1 /\ Len(list) + 1 = k
    BY <1>2, <1>3, <1>5
  <2>2. /\ grown \in Seq(Levels) /\ Len(grown) = Len(list) + 1
        /\ \A j \in 1 .. Len(list) + 1 :
             grown[j] = IF j < k THEN list[j]
                        ELSE IF j = k THEN new ELSE list[j - 1]
    BY <1>3, <2>1, InsertedAt
  <2> QED  BY <2>1, <2>2
<1> HIDE DEF grown
<1>8. Best(grown) = grown
  BY <1>1, <1>7 DEF Best
<1>9. ASSUME NEW j \in 1 .. k
      PROVE  grown[j] = next[j]
  BY <1>2, <1>3, <1>4, <1>7
<1>10. grown = next
  BY <1>4, <1>7, <1>9, SeqEqual
<1> QED  BY <1>6, <1>8, <1>10 DEF list, next
-----------------------------------------------------------------------------
(* The books of the exchange.  A level is found by its rank, the number of *)
(* levels that are at least as good, so a change of the book is followed   *)
(* by what it does to the ranks.                                           *)

(* Ranks number the levels of a book from 1, the best first.               *)
LEMMA RankFacts ==
  ASSUME NEW b \in Books
  PROVE  /\ IsFiniteSet(Present(b)) /\ Cardinality(Present(b)) \in Nat
         /\ \A p \in Present(b) : Rank(b, p) \in 1 .. Cardinality(Present(b))
         /\ \A x, p \in Present(b) : x < p => Rank(b, x) < Rank(b, p)
         /\ \A r \in 1 .. Cardinality(Present(b)) :
              \E p \in Present(b) : Rank(b, p) = r
<1> DEFINE S    == Present(b)
           n    == Cardinality(S)
           U(p) == {y \in S : y <= p}
           f    == [p \in S |-> Rank(b, p)]
<1>1. MaxPrice \in Nat /\ Prices = 1 .. MaxPrice
  BY BookAssumption
<1>2. S \subseteq Prices
  BY DEF Present
<1>3. IsFiniteSet(Prices)
  BY <1>1, FS_Interval
<1>4. IsFiniteSet(S) /\ n \in Nat
  <2>1. IsFiniteSet(S)
    BY <1>2, <1>3, FS_Subset
  <2> QED  BY <2>1, FS_CardinalityType
<1>5. \A p \in S : p \in Nat
  BY <1>1, <1>2
<1> HIDE DEF S
<1>6. ASSUME NEW p \in S
      PROVE  /\ Rank(b, p) = Cardinality(U(p)) /\ IsFiniteSet(U(p))
             /\ Rank(b, p) \in 1 .. n /\ Rank(b, p) \in Nat
  <2>1. Rank(b, p) = Cardinality(U(p))
    BY DEF Rank, S
  <2>2. U(p) \in SUBSET S /\ p \in U(p)
    BY <1>5
  <2> HIDE DEF U
  <2>3. IsFiniteSet(U(p)) /\ Cardinality(U(p)) <= n
    BY <1>4, <2>2, FS_Subset
  <2>4. Cardinality(U(p)) \in Nat /\ Cardinality(U(p)) # 0
    <3>1. Cardinality(U(p)) \in Nat
      BY <2>3, FS_CardinalityType
    <3>2. Cardinality(U(p)) = 0 <=> U(p) = {}
      BY <2>3, FS_EmptySet
    <3> QED  BY <2>2, <3>1, <3>2
  <2> QED  BY <1>4, <2>1, <2>3, <2>4
<1>7. ASSUME NEW x \in S, NEW p \in S, x < p
      PROVE  Rank(b, x) < Rank(b, p)
  <2>1. U(x) \in SUBSET U(p) /\ p \in U(p) /\ p \notin U(x)
    BY <1>5, <1>7
  <2>2. IsFiniteSet(U(p)) /\ Rank(b, p) = Cardinality(U(p)) /\ Rank(b, p) \in Nat
    BY <1>4, <1>6
  <2>3. Rank(b, x) = Cardinality(U(x)) /\ Rank(b, x) \in Nat
    BY <1>4, <1>6
  <2> HIDE DEF U
  <2>4. /\ Cardinality(U(x)) <= Cardinality(U(p))
        /\ Cardinality(U(p)) = Cardinality(U(x)) => U(p) = U(x)
    BY <2>1, <2>2, FS_Subset
  <2>5. U(p) # U(x)
    BY <2>1
  <2> QED  BY <2>2, <2>3, <2>4, <2>5
<1>8. ASSUME NEW r \in 1 .. n
      PROVE  \E p \in S : Rank(b, p) = r
  <2>1. f \in [S -> 1 .. n]
    BY <1>6
  <2>2. ASSUME NEW x \in S, NEW p \in S, f[x] = f[p]
        PROVE  x = p
    <3>1. f[x] = Rank(b, x) /\ f[p] = Rank(b, p)
      OBVIOUS
    <3>2. Rank(b, x) = Rank(b, p)
      BY <2>2, <3>1
    <3>3. Rank(b, x) \in Nat
      BY <1>6
    <3>4. ~(x < p) /\ ~(p < x)
      BY <1>7, <3>2, <3>3
    <3> QED  BY <1>5, <3>4
  <2>3. f \in Injection(S, 1 .. n)
    <3> HIDE DEF f
    <3> QED  BY <2>1, <2>2 DEF Injection, IsInjective
  <2>4. IsFiniteSet(1 .. n) /\ Cardinality(1 .. n) = n
    BY <1>4, FS_Interval
  <2>5. f \in Surjection(S, 1 .. n)
    <3> HIDE DEF f, n
    <3>1. Cardinality(S) = Cardinality(1 .. n)
      BY <2>4 DEF n
    <3> QED  BY <2>3, <2>4, <3>1, FS_Injection
  <2>6. PICK p \in S : f[p] = r
    <3> HIDE DEF f
    <3> QED  BY <2>5 DEF Surjection
  <2> QED  BY <2>6
<1> QED  BY <1>4, <1>6, <1>7, <1>8 DEF S

(* The level at a rank is the one that has it, so the levels are in order. *)
LEMMA LevelsAt ==
  ASSUME NEW b \in Books
  PROVE  /\ AllLevels(b) \in Seq(Levels)
         /\ Len(AllLevels(b)) = Cardinality(Present(b))
         /\ \A p \in Present(b) :
              AllLevels(b)[Rank(b, p)] = [price |-> p, quantity |-> b[p]]
         /\ \A k, l \in 1 .. Len(AllLevels(b)) :
              k < l => AllLevels(b)[k].price < AllLevels(b)[l].price
<1> DEFINE n    == Cardinality(Present(b))
           c(r) == CHOOSE p \in Present(b) : Rank(b, p) = r
           all  == [r \in 1 .. n |-> [price |-> c(r), quantity |-> b[c(r)]]]
<1>1. AllLevels(b) = all
  BY DEF AllLevels
<1>2. /\ n \in Nat
      /\ \A p \in Present(b) : Rank(b, p) \in 1 .. n
      /\ \A x, p \in Present(b) : x < p => Rank(b, x) < Rank(b, p)
      /\ \A r \in 1 .. n : \E p \in Present(b) : Rank(b, p) = r
  BY RankFacts
<1>3. \A p \in Present(b) : p \in Nat /\ p \in Prices /\ b[p] \in Quantities
  <2>1. ASSUME NEW p \in Present(b)
        PROVE  p \in Nat /\ p \in Prices /\ b[p] \in Quantities
    <3>1. p \in Prices /\ b[p] # 0 /\ b[p] \in 0 .. MaxQuantity
      BY DEF Present, Books
    <3> QED  BY <3>1, BookAssumption
  <2> QED  BY <2>1
<1>4. ASSUME NEW r \in 1 .. n
      PROVE  c(r) \in Present(b) /\ Rank(b, c(r)) = r
  <2>1. \E p \in Present(b) : Rank(b, p) = r
    BY <1>2
  <2> QED  BY <2>1
<1>5. ASSUME NEW p \in Present(b)
      PROVE  c(Rank(b, p)) = p
  <2>1. Rank(b, p) \in 1 .. n
    BY <1>2
  <2>2. c(Rank(b, p)) \in Present(b) /\ Rank(b, c(Rank(b, p))) = Rank(b, p)
    BY <1>4, <2>1
  <2> DEFINE x == c(Rank(b, p))
  <2>3. x \in Present(b) /\ Rank(b, x) = Rank(b, p)
    BY <2>2
  <2> HIDE DEF x, c
  <2>4. ~(x < p) /\ ~(p < x)
    BY <1>2, <2>1, <2>3
  <2>5. x = p
    BY <1>3, <2>3, <2>4
  <2> QED  BY <2>5 DEF x
<1> HIDE DEF c, n
<1>6. ASSUME NEW r \in 1 .. n
      PROVE  [price |-> c(r), quantity |-> b[c(r)]] \in Levels
  BY <1>3, <1>4 DEF Levels
<1>7. all \in Seq(Levels) /\ Len(all) = n
  BY <1>2, <1>6
<1>8. ASSUME NEW p \in Present(b)
      PROVE  all[Rank(b, p)] = [price |-> p, quantity |-> b[p]]
  <2>1. Rank(b, p) \in 1 .. n
    BY <1>2
  <2> QED  BY <1>5, <2>1
<1>9. ASSUME NEW k \in 1 .. n, NEW l \in 1 .. n, k < l
      PROVE  all[k].price < all[l].price
  <2>1. /\ c(k) \in Present(b) /\ c(l) \in Present(b)
        /\ Rank(b, c(k)) = k /\ Rank(b, c(l)) = l
    BY <1>4
  <2>2. c(k) \in Nat /\ c(l) \in Nat
    BY <1>3, <2>1
  <2>3. c(k) # c(l)
    BY <1>9, <2>1
  <2>4. ~(c(l) < c(k))
    BY <1>2, <1>9, <2>1
  <2>5. c(k) < c(l)
    BY <2>2, <2>3, <2>4
  <2> QED  BY <2>5
<1> HIDE DEF all
<1>10. Len(all) = Cardinality(Present(b))
  BY <1>7 DEF n
<1> QED  BY <1>1, <1>7, <1>8, <1>9, <1>10

(* A list of the right length with every level at its rank is the book.    *)
LEMMA LevelsUnique ==
  ASSUME NEW b \in Books, NEW s \in Seq(Levels), Len(s) = Cardinality(Present(b)),
         \A p \in Present(b) : s[Rank(b, p)] = [price |-> p, quantity |-> b[p]]
  PROVE  s = AllLevels(b)
<1>1. ASSUME NEW k \in 1 .. Len(s)
      PROVE  s[k] = AllLevels(b)[k]
  <2>1. PICK p \in Present(b) : Rank(b, p) = k
    BY RankFacts
  <2> QED  BY <2>1, LevelsAt
<1>2. AllLevels(b) \in Seq(Levels) /\ Len(AllLevels(b)) = Len(s)
  BY LevelsAt
<1> QED  BY <1>1, <1>2, SeqEqual

\* What is at least as good as p in a book.
UpTo(b, p) == {y \in Present(b) : y <= p}

LEMMA RankIsCount ==
  ASSUME NEW b \in Books, NEW p
  PROVE  /\ Rank(b, p) = Cardinality(UpTo(b, p))
         /\ IsFiniteSet(UpTo(b, p)) /\ Rank(b, p) \in Nat
<1>1. UpTo(b, p) \in SUBSET Present(b)
  BY DEF UpTo
<1>2. IsFiniteSet(UpTo(b, p))
  BY <1>1, RankFacts, FS_Subset
<1>3. Cardinality(UpTo(b, p)) \in Nat
  BY <1>2, FS_CardinalityType
<1>4. Rank(b, p) = Cardinality(UpTo(b, p))
  BY DEF Rank, UpTo
<1> QED  BY <1>2, <1>3, <1>4

(* A new level raises the rank of those behind it.                         *)
LEMMA InsertRanks ==
  ASSUME NEW b \in Books, NEW p \in Prices, b[p] = 0, NEW q \in Quantities
  PROVE  LET c == [b EXCEPT ![p] = q]
         IN  /\ c \in Books /\ c[p] = q /\ \A x \in Prices \ {p} : c[x] = b[x]
             /\ Present(c) = Present(b) \cup {p} /\ p \notin Present(b)
             /\ Cardinality(Present(c)) = Cardinality(Present(b)) + 1
             /\ \A x \in Present(b) :
                  Rank(c, x) = IF x < p THEN Rank(b, x) ELSE Rank(b, x) + 1
<1> DEFINE c == [b EXCEPT ![p] = q]
<1>1. MaxQuantity \in Nat /\ q \in 1 .. MaxQuantity /\ \A x \in Prices : x \in Nat
  BY BookAssumption
<1>2. c \in Books /\ c[p] = q /\ \A x \in Prices \ {p} : c[x] = b[x]
  BY <1>1 DEF Books
<1> HIDE DEF c
<1>3. Present(c) = Present(b) \cup {p} /\ p \notin Present(b)
  BY <1>1, <1>2 DEF Present
<1>4. Cardinality(Present(c)) = Cardinality(Present(b)) + 1
  BY <1>3, RankFacts, FS_AddElement
<1>5. ASSUME NEW x \in Present(b)
      PROVE  Rank(c, x) = IF x < p THEN Rank(b, x) ELSE Rank(b, x) + 1
  <2>1. x \in Nat /\ p \in Nat /\ x # p
    BY <1>1, <1>3 DEF Present
  <2>2. UpTo(c, x) = IF x < p THEN UpTo(b, x) ELSE UpTo(b, x) \cup {p}
    BY <1>3, <2>1 DEF UpTo
  <2>3. p \notin UpTo(b, x)
    BY <1>3 DEF UpTo
  <2>4. /\ Rank(b, x) = Cardinality(UpTo(b, x)) /\ IsFiniteSet(UpTo(b, x))
        /\ Rank(c, x) = Cardinality(UpTo(c, x))
    BY <1>2, RankIsCount
  <2>5. Cardinality(UpTo(b, x) \cup {p}) = Cardinality(UpTo(b, x)) + 1
    BY <2>3, <2>4, FS_AddElement
  <2> QED  BY <2>2, <2>4, <2>5
<1> QED  BY <1>2, <1>3, <1>4, <1>5 DEF c

(* The levels of the book are then those it had, and the new one at its    *)
(* rank.                                                                   *)
LEMMA InsertLevels ==
  ASSUME NEW b \in Books, NEW p \in Prices, b[p] = 0, NEW q \in Quantities
  PROVE  LET c == [b EXCEPT ![p] = q]
         IN  /\ Rank(c, p) \in 1 .. Len(AllLevels(b)) + 1
             /\ AllLevels(c) = InsertAt(AllLevels(b), Rank(c, p),
                                        [price |-> p, quantity |-> q])
<1> DEFINE c   == [b EXCEPT ![p] = q]
           n   == Rank(c, p)
           old == AllLevels(b)
           new == [price |-> p, quantity |-> q]
           s   == InsertAt(old, n, new)
<1>1. /\ c \in Books /\ c[p] = q /\ \A x \in Prices \ {p} : c[x] = b[x]
      /\ Present(c) = Present(b) \cup {p} /\ p \notin Present(b)
      /\ Cardinality(Present(c)) = Cardinality(Present(b)) + 1
      /\ \A x \in Present(b) :
           Rank(c, x) = IF x < p THEN Rank(b, x) ELSE Rank(b, x) + 1
  BY InsertRanks
<1> HIDE DEF c
<1>2. /\ old \in Seq(Levels) /\ Len(old) = Cardinality(Present(b))
      /\ \A x \in Present(b) : old[Rank(b, x)] = [price |-> x, quantity |-> b[x]]
  BY LevelsAt
<1>3. /\ \A x \in Present(b) : Rank(b, x) \in 1 .. Len(old)
      /\ \A x \in Present(c) : Rank(c, x) \in 1 .. Len(old) + 1
      /\ \A x, y \in Present(c) : x < y => Rank(c, x) < Rank(c, y)
  BY <1>1, <1>2, RankFacts
<1>4. n \in 1 .. Len(old) + 1 /\ new \in Levels
  BY <1>1, <1>3 DEF Levels
<1> HIDE DEF n, old, new
<1>5. /\ s \in Seq(Levels) /\ Len(s) = Len(old) + 1
      /\ \A k \in 1 .. Len(old) + 1 :
           s[k] = IF k < n THEN old[k] ELSE IF k = n THEN new ELSE old[k - 1]
  <2>1. old \in Seq(Levels) /\ n \in 1 .. Len(old) + 1 /\ new \in Levels
    BY <1>2, <1>4
  <2>2. /\ InsertAt(old, n, new) \in Seq(Levels)
        /\ Len(InsertAt(old, n, new)) = Len(old) + 1
        /\ \A k \in 1 .. Len(old) + 1 :
             InsertAt(old, n, new)[k] = IF k < n THEN old[k]
                                        ELSE IF k = n THEN new ELSE old[k - 1]
    <3> HIDE DEF s
    <3> QED  BY <2>1, InsertedAt
  <2> QED  BY <2>2
<1> HIDE DEF s
<1>6. ASSUME NEW x \in Present(c)
      PROVE  s[Rank(c, x)] = [price |-> x, quantity |-> c[x]]
  <2>1. CASE x = p
    <3>1. Rank(c, x) = n /\ s[n] = new
      BY <1>4, <1>5, <2>1 DEF n
    <3> QED  BY <1>1, <2>1, <3>1 DEF new
  <2>2. CASE x # p
    <3>1. x \in Present(b) /\ c[x] = b[x] /\ x \in Nat /\ p \in Nat
      BY <1>1, <2>2, BookAssumption DEF Present
    <3>2. CASE x < p
      <4>1. Rank(c, x) = Rank(b, x) /\ Rank(b, x) < n /\ Rank(b, x) \in 1 .. Len(old) + 1
        BY <1>1, <1>3, <3>1, <3>2 DEF n
      <4>2. s[Rank(c, x)] = old[Rank(b, x)]
        BY <1>5, <4>1
      <4> QED  BY <1>2, <3>1, <4>2
    <3>3. CASE ~(x < p)
      <4>1. Rank(c, x) = Rank(b, x) + 1 /\ Rank(b, x) \in 1 .. Len(old)
        BY <1>1, <1>3, <3>1, <3>3
      <4>2. n < Rank(c, x) /\ Rank(c, x) \in 1 .. Len(old) + 1
        BY <1>1, <1>3, <3>1, <3>3, <2>2 DEF n
      <4>3. s[Rank(c, x)] = old[Rank(c, x) - 1]
        BY <1>4, <1>5, <4>2
      <4>4. Rank(c, x) - 1 = Rank(b, x)
        BY <4>1
      <4> QED  BY <1>2, <3>1, <4>3, <4>4
    <3> QED  BY <3>2, <3>3
  <2> QED  BY <2>1, <2>2
<1>7. s = AllLevels(c)
  <2>1. c \in Books /\ s \in Seq(Levels) /\ Len(s) = Cardinality(Present(c))
    BY <1>1, <1>2, <1>5
  <2> QED  BY <1>6, <2>1, LevelsUnique
<1> QED  BY <1>4, <1>7 DEF c, n, old, new, s

LEMMA RemoveInserted ==
  ASSUME NEW S, NEW s \in Seq(S), NEW x \in S, NEW n \in 1 .. Len(s) + 1
  PROVE  RemoveAt(InsertAt(s, n, x), n) = s
<1> DEFINE t == InsertAt(s, n, x)
<1>1. /\ t \in Seq(S) /\ Len(t) = Len(s) + 1
      /\ \A k \in 1 .. Len(s) + 1 :
           t[k] = IF k < n THEN s[k] ELSE IF k = n THEN x ELSE s[k - 1]
  BY InsertedAt
<1> HIDE DEF t
<1>2. n \in 1 .. Len(t) /\ Len(t) - 1 = Len(s)
  BY <1>1
<1>3. /\ RemoveAt(t, n) \in Seq(S) /\ Len(RemoveAt(t, n)) = Len(s)
      /\ \A k \in 1 .. Len(s) : RemoveAt(t, n)[k] = IF k < n THEN t[k] ELSE t[k + 1]
  <2>1. /\ RemoveAt(t, n) \in Seq(S) /\ Len(RemoveAt(t, n)) = Len(t) - 1
        /\ \A k \in 1 .. Len(t) - 1 :
             RemoveAt(t, n)[k] = IF k < n THEN t[k] ELSE t[k + 1]
    BY <1>1, <1>2, RemovedAt
  <2> QED  BY <1>2, <2>1
<1>4. ASSUME NEW k \in 1 .. Len(s)
      PROVE  RemoveAt(t, n)[k] = s[k]
  <2>1. k \in 1 .. Len(s) + 1 /\ k + 1 \in 1 .. Len(s) + 1 /\ (k + 1) - 1 = k
    OBVIOUS
  <2> QED  BY <1>1, <1>3, <2>1
<1> QED  BY <1>3, <1>4, SeqEqual DEF t

(* A level that goes, seen the other way round.                            *)
LEMMA WithdrawLevels ==
  ASSUME NEW b \in Books, NEW p \in Present(b)
  PROVE  LET c == [b EXCEPT ![p] = 0]
         IN  /\ c \in Books
             /\ Rank(b, p) \in 1 .. Len(AllLevels(b))
             /\ AllLevels(b)[Rank(b, p)].price = p
             /\ AllLevels(c) = RemoveAt(AllLevels(b), Rank(b, p))
<1> DEFINE c == [b EXCEPT ![p] = 0]
           q == b[p]
<1>1. p \in Prices /\ q # 0 /\ q \in 0 .. MaxQuantity /\ MaxQuantity \in Nat
  BY BookAssumption DEF Present, Books
<1>2. q \in Quantities
  BY <1>1, BookAssumption
<1>3. c \in Books /\ c[p] = 0 /\ [c EXCEPT ![p] = q] = b
  <2>1. c \in Books /\ c[p] = 0
    BY <1>1 DEF Books
  <2>2. b \in [Prices -> 0 .. MaxQuantity]
    BY DEF Books
  <2>3. b = [x \in Prices |-> b[x]]
    BY <2>2
  <2>4. [c EXCEPT ![p] = q] = [x \in Prices |-> b[x]]
    BY <1>1, <2>2
  <2> QED  BY <2>1, <2>3, <2>4
<1>4. Rank(b, p) \in 1 .. Len(AllLevels(b)) /\ AllLevels(b)[Rank(b, p)].price = p
  <2>1. Rank(b, p) \in 1 .. Cardinality(Present(b))
    BY RankFacts
  <2>2. /\ Len(AllLevels(b)) = Cardinality(Present(b))
        /\ AllLevels(b)[Rank(b, p)] = [price |-> p, quantity |-> b[p]]
    BY LevelsAt
  <2> QED  BY <2>1, <2>2
<1> HIDE DEF c, q
<1>5. /\ Rank(b, p) \in 1 .. Len(AllLevels(c)) + 1
      /\ AllLevels(b) = InsertAt(AllLevels(c), Rank(b, p),
                                 [price |-> p, quantity |-> q])
  BY <1>1, <1>2, <1>3, InsertLevels
<1>6. AllLevels(c) \in Seq(Levels) /\ [price |-> p, quantity |-> q] \in Levels
  BY <1>1, <1>2, <1>3, LevelsAt DEF Levels
<1>7. RemoveAt(AllLevels(b), Rank(b, p)) = AllLevels(c)
  BY <1>5, <1>6, RemoveInserted
<1> QED  BY <1>3, <1>4, <1>7 DEF c

(* A level with another quantity keeps its rank.                           *)
LEMMA AmendLevels ==
  ASSUME NEW b \in Books, NEW p \in Present(b), NEW q \in Quantities,
         NEW c \in Books, c[p] = q, \A x \in Prices \ {p} : c[x] = b[x],
         NEW level \in Levels, level.price = p, level.quantity = q
  PROVE  /\ Rank(c, p) \in 1 .. Len(AllLevels(b))
         /\ AllLevels(b)[Rank(c, p)].price = p
         /\ AllLevels(b)[Rank(c, p)].quantity = b[p]
         /\ AllLevels(c) \in Seq(Levels) /\ Len(AllLevels(c)) = Len(AllLevels(b))
         /\ \A k \in 1 .. Len(AllLevels(b)) :
              AllLevels(c)[k] = IF k = Rank(c, p) THEN level ELSE AllLevels(b)[k]
<1> DEFINE n   == Rank(c, p)
           old == AllLevels(b)
           s   == [old EXCEPT ![n] = level]
<1>1. MaxQuantity \in Nat /\ q \in 1 .. MaxQuantity /\ p \in Prices
  BY BookAssumption DEF Present
<1>2. c \in Books /\ c[p] = q /\ \A x \in Prices \ {p} : c[x] = b[x]
  OBVIOUS
<1>3. Present(c) = Present(b)
  BY <1>1, <1>2 DEF Present
<1>4. ASSUME NEW x
      PROVE  Rank(c, x) = Rank(b, x)
  BY <1>3 DEF Rank
<1>5. /\ old \in Seq(Levels) /\ Len(old) = Cardinality(Present(b))
      /\ \A x \in Present(b) : old[Rank(b, x)] = [price |-> x, quantity |-> b[x]]
  BY LevelsAt
<1>6. /\ \A x \in Present(b) : Rank(b, x) \in 1 .. Len(old)
      /\ \A x, y \in Present(b) : x < y => Rank(b, x) < Rank(b, y)
  BY <1>5, RankFacts
<1>7. n = Rank(b, p) /\ n \in 1 .. Len(old) /\ level \in Levels
  BY <1>4, <1>6
<1> HIDE DEF n, old
<1>8. /\ s \in Seq(Levels) /\ Len(s) = Len(old)
      /\ \A k \in 1 .. Len(old) : s[k] = IF k = n THEN level ELSE old[k]
  BY <1>5, <1>7
<1> HIDE DEF s
<1>9. ASSUME NEW x \in Present(c)
      PROVE  s[Rank(c, x)] = [price |-> x, quantity |-> c[x]]
  <2>1. x \in Present(b) /\ x \in Prices /\ Rank(c, x) = Rank(b, x)
        /\ Rank(b, x) \in 1 .. Len(old)
    BY <1>3, <1>4, <1>6 DEF Present
  <2>2. CASE x = p
    <3>1. level = [price |-> p, quantity |-> q]
      BY DEF Levels
    <3> QED  BY <1>2, <1>7, <1>8, <2>1, <2>2, <3>1
  <2>3. CASE x # p
    <3>1. x \in Nat /\ p \in Nat
      BY <1>1, <2>1, BookAssumption
    <3>2. x < p \/ p < x
      BY <2>3, <3>1
    <3>3. Rank(b, x) # n
      BY <1>6, <1>7, <2>1, <3>2
    <3>4. c[x] = b[x]
      BY <1>2, <2>1, <2>3
    <3> QED  BY <1>5, <1>8, <2>1, <3>3, <3>4
  <2> QED  BY <2>2, <2>3
<1>10. s = AllLevels(c)
  <2>1. c \in Books /\ s \in Seq(Levels) /\ Len(s) = Cardinality(Present(c))
    BY <1>2, <1>3, <1>5, <1>8
  <2> QED  BY <1>9, <2>1, LevelsUnique
<1>11. old[n].price = p /\ old[n].quantity = b[p]
  <2>1. old[n] = [price |-> p, quantity |-> b[p]]
    BY <1>5, <1>7
  <2> QED  BY <2>1
<1> QED  BY <1>7, <1>8, <1>10, <1>11 DEF n, old

(* The best n levels of a book are those up to the level of rank n; when   *)
(* they go, the others move up by n.                                       *)
LEMMA SweepLevels ==
  ASSUME NEW b \in Books, NEW n \in 1 .. Len(AllLevels(b))
  PROVE  LET c == [p \in Prices |-> IF Rank(b, p) <= n THEN 0 ELSE b[p]]
         IN  /\ c \in Books
             /\ AllLevels(c) = SubSeq(AllLevels(b), n + 1, Len(AllLevels(b)))
<1> DEFINE c   == [p \in Prices |-> IF Rank(b, p) <= n THEN 0 ELSE b[p]]
           all == AllLevels(b)
           s   == SubSeq(all, n + 1, Len(all))
<1>1. /\ all \in Seq(Levels) /\ Len(all) = Cardinality(Present(b)) /\ Len(all) \in Nat
      /\ \A x \in Present(b) : all[Rank(b, x)] = [price |-> x, quantity |-> b[x]]
  BY LevelsAt
<1>2. /\ IsFiniteSet(Present(b))
      /\ \A x \in Present(b) : Rank(b, x) \in 1 .. Len(all)
      /\ \A x, y \in Present(b) : x < y => Rank(b, x) < Rank(b, y)
  BY <1>1, RankFacts
<1>3. PICK z \in Present(b) : Rank(b, z) = n
  BY <1>1, RankFacts
<1>4. \A x \in Present(b) : x \in Nat /\ x \in Prices /\ b[x] # 0
  BY BookAssumption DEF Present
<1>5. c \in Books
  BY BookAssumption DEF Books
<1>6. ASSUME NEW x \in Present(b)
      PROVE  Rank(b, x) <= n <=> x <= z
  <2>1. x < z => Rank(b, x) < n
    BY <1>2, <1>3
  <2>2. z < x => n < Rank(b, x)
    BY <1>2, <1>3
  <2>3. Rank(b, x) \in Nat /\ n \in Nat /\ x \in Nat /\ z \in Nat
    BY <1>1, <1>2, <1>4
  <2> QED  BY <1>3, <2>1, <2>2, <2>3
<1>7. Present(c) = Present(b) \ UpTo(b, z) /\ \A x \in Present(c) : c[x] = b[x]
  <2>1. ASSUME NEW x \in Present(c)
        PROVE  x \in Present(b) \ UpTo(b, z) /\ c[x] = b[x]
    <3>1. x \in Prices /\ c[x] # 0
      BY DEF Present
    <3>2. c[x] = b[x] /\ ~(Rank(b, x) <= n)
      BY <3>1
    <3>3. x \in Present(b)
      BY <3>1, <3>2 DEF Present
    <3>4. ~(x <= z)
      BY <1>6, <3>2, <3>3
    <3> QED  BY <3>2, <3>3, <3>4 DEF UpTo
  <2>2. ASSUME NEW x \in Present(b) \ UpTo(b, z)
        PROVE  x \in Present(c)
    <3>1. x \in Present(b) /\ ~(x <= z)
      BY DEF UpTo
    <3>2. ~(Rank(b, x) <= n)
      BY <1>6, <3>1
    <3>3. c[x] = b[x] /\ b[x] # 0 /\ x \in Prices
      BY <1>4, <3>1, <3>2
    <3> QED  BY <3>3 DEF Present
  <2> QED  BY <2>1, <2>2
<1> HIDE DEF c
<1>8. /\ IsFiniteSet(UpTo(b, z)) /\ Cardinality(UpTo(b, z)) = n
      /\ UpTo(b, z) \subseteq Present(b)
  BY <1>3, RankIsCount DEF UpTo
<1>9. Cardinality(Present(c)) = Len(all) - n
  <2>1. Cardinality(Present(b) \ UpTo(b, z))
          = Cardinality(Present(b)) - Cardinality(Present(b) \cap UpTo(b, z))
    BY <1>2, FS_Difference
  <2>2. Present(b) \cap UpTo(b, z) = UpTo(b, z)
    BY <1>8
  <2> QED  BY <1>1, <1>7, <1>8, <2>1, <2>2
<1>10. ASSUME NEW x \in Present(c)
       PROVE  Rank(c, x) = Rank(b, x) - n /\ Rank(b, x) \in n + 1 .. Len(all)
  <2>1. x \in Present(b) /\ z < x
    BY <1>4, <1>7 DEF UpTo
  <2>2. UpTo(c, x) = UpTo(b, x) \ UpTo(b, z)
    BY <1>7 DEF UpTo
  <2>3. UpTo(b, x) \cap UpTo(b, z) = UpTo(b, z)
    BY <1>4, <2>1 DEF UpTo
  <2>4. /\ Rank(b, x) = Cardinality(UpTo(b, x)) /\ IsFiniteSet(UpTo(b, x))
        /\ Rank(c, x) = Cardinality(UpTo(c, x))
    BY <1>5, RankIsCount
  <2>5. Cardinality(UpTo(b, x) \ UpTo(b, z))
          = Cardinality(UpTo(b, x)) - Cardinality(UpTo(b, x) \cap UpTo(b, z))
    BY <2>4, FS_Difference
  <2>6. n < Rank(b, x) /\ Rank(b, x) \in 1 .. Len(all)
    BY <1>2, <1>3, <2>1
  <2>7. Rank(c, x) = Rank(b, x) - n
    BY <1>8, <2>2, <2>3, <2>4, <2>5
  <2> QED  BY <1>1, <2>6, <2>7
<1>11. /\ s \in Seq(Levels) /\ Len(s) = Len(all) - n
       /\ \A k \in 1 .. Len(all) - n : s[k] = all[n + k]
  <2>1. n \in 1 .. Len(all)
    OBVIOUS
  <2> HIDE DEF all
  <2> QED  BY <1>1, <2>1
<1> HIDE DEF s, all
<1>12. ASSUME NEW x \in Present(c)
       PROVE  s[Rank(c, x)] = [price |-> x, quantity |-> c[x]]
  <2>1. x \in Present(b) /\ c[x] = b[x]
    BY <1>7
  <2>2. Rank(c, x) \in 1 .. Len(all) - n /\ n + Rank(c, x) = Rank(b, x)
    BY <1>1, <1>10
  <2> QED  BY <1>1, <1>11, <2>1, <2>2
<1>13. s = AllLevels(c)
  BY <1>5, <1>9, <1>11, <1>12, LevelsUnique
<1> QED  BY <1>5, <1>13 DEF c, s, all

(* When the levels from rank n on go, the others stay where they are.      *)
LEMMA CutLevels ==
  ASSUME NEW b \in Books, NEW n \in 1 .. Len(AllLevels(b))
  PROVE  LET c == [p \in Prices |-> IF Rank(b, p) >= n THEN 0 ELSE b[p]]
         IN  /\ c \in Books
             /\ AllLevels(c) = SubSeq(AllLevels(b), 1, n - 1)
<1> DEFINE c   == [p \in Prices |-> IF Rank(b, p) >= n THEN 0 ELSE b[p]]
           all == AllLevels(b)
           s   == SubSeq(all, 1, n - 1)
<1>1. /\ all \in Seq(Levels) /\ Len(all) = Cardinality(Present(b)) /\ Len(all) \in Nat
      /\ \A x \in Present(b) : all[Rank(b, x)] = [price |-> x, quantity |-> b[x]]
  BY LevelsAt
<1>2. /\ IsFiniteSet(Present(b))
      /\ \A x \in Present(b) : Rank(b, x) \in 1 .. Len(all)
      /\ \A x, y \in Present(b) : x < y => Rank(b, x) < Rank(b, y)
  BY <1>1, RankFacts
<1>3. PICK z \in Present(b) : Rank(b, z) = n
  BY <1>1, RankFacts
<1>4. \A x \in Present(b) : x \in Nat /\ x \in Prices /\ b[x] # 0
  BY BookAssumption DEF Present
<1>5. c \in Books
  BY BookAssumption DEF Books
<1>6. ASSUME NEW x \in Present(b)
      PROVE  Rank(b, x) >= n <=> ~(x < z)
  <2>1. x < z => Rank(b, x) < n
    BY <1>2, <1>3
  <2>2. z < x => n < Rank(b, x)
    BY <1>2, <1>3
  <2>3. Rank(b, x) \in Nat /\ n \in Nat /\ x \in Nat /\ z \in Nat
    BY <1>1, <1>2, <1>4
  <2> QED  BY <1>3, <2>1, <2>2, <2>3
<1>7. /\ Present(c) = {x \in Present(b) : x < z}
      /\ \A x \in Present(c) : c[x] = b[x]
  <2>1. ASSUME NEW x \in Present(c)
        PROVE  x \in Present(b) /\ x < z /\ c[x] = b[x]
    <3>1. x \in Prices /\ c[x] # 0
      BY DEF Present
    <3>2. c[x] = b[x] /\ ~(Rank(b, x) >= n)
      BY <3>1
    <3>3. x \in Present(b)
      BY <3>1, <3>2 DEF Present
    <3> QED  BY <1>6, <3>2, <3>3
  <2>2. ASSUME NEW x \in Present(b), x < z
        PROVE  x \in Present(c)
    <3>1. ~(Rank(b, x) >= n)
      BY <1>6, <2>2
    <3>2. c[x] = b[x] /\ b[x] # 0 /\ x \in Prices
      BY <1>4, <3>1
    <3> QED  BY <3>2 DEF Present
  <2> QED  BY <2>1, <2>2
<1> HIDE DEF c
<1>8. /\ IsFiniteSet(UpTo(b, z)) /\ Cardinality(UpTo(b, z)) = n
      /\ z \in UpTo(b, z)
  BY <1>3, <1>4, RankIsCount DEF UpTo
<1>9. Cardinality(Present(c)) = n - 1
  <2>1. Present(c) = UpTo(b, z) \ {z}
    BY <1>4, <1>7 DEF UpTo
  <2> QED  BY <1>8, <2>1, FS_RemoveElement
<1>10. ASSUME NEW x \in Present(c)
       PROVE  Rank(c, x) = Rank(b, x) /\ Rank(b, x) \in 1 .. n - 1
  <2>1. x \in Present(b) /\ x < z
    BY <1>7
  <2>2. UpTo(c, x) = UpTo(b, x)
    BY <1>4, <1>7, <2>1 DEF UpTo
  <2>3. Rank(b, x) = Cardinality(UpTo(b, x)) /\ Rank(c, x) = Cardinality(UpTo(c, x))
    BY <1>5, RankIsCount
  <2>4. Rank(b, x) < n /\ Rank(b, x) \in 1 .. Len(all)
    BY <1>2, <1>3, <2>1
  <2> QED  BY <1>1, <2>2, <2>3, <2>4
<1>11. /\ s \in Seq(Levels) /\ Len(s) = n - 1
       /\ \A k \in 1 .. n - 1 : s[k] = all[k]
  <2>1. n \in 1 .. Len(all)
    OBVIOUS
  <2> HIDE DEF all
  <2> QED  BY <1>1, <2>1
<1> HIDE DEF s, all
<1>12. ASSUME NEW x \in Present(c)
       PROVE  s[Rank(c, x)] = [price |-> x, quantity |-> c[x]]
  <2>1. x \in Present(b) /\ c[x] = b[x]
    BY <1>7
  <2> QED  BY <1>1, <1>10, <1>11, <2>1
<1>13. s = AllLevels(c)
  BY <1>5, <1>9, <1>11, <1>12, LevelsUnique
<1> QED  BY <1>5, <1>13 DEF c, s, all

(* An empty book has no levels.                                            *)
LEMMA NoLevelsAtAll == NoLevels \in Books /\ Visible(NoLevels) = Clear
<1>1. NoLevels \in Books
  BY BookAssumption DEF NoLevels, Books
<1>2. Present(NoLevels) = {}
  BY DEF Present, NoLevels
<1>3. AllLevels(NoLevels) \in Seq(Levels) /\ Len(AllLevels(NoLevels)) = 0
  BY <1>1, <1>2, LevelsAt, FS_EmptySet
<1>4. AllLevels(NoLevels) = << >>
  BY <1>3
<1> QED  BY <1>1, <1>4, DepthAssumption DEF Visible, Best, Clear
-----------------------------------------------------------------------------
(* The handlers.  The entries that are published and not handled yet are   *)
(* the way from the lists to what the exchange shows: a course of the      *)
(* books, one step per entry, on which every list is in order and every    *)
(* entry changes its list.                                                 *)

SortedLists ==
  {list \in Lists : \A k, l \in 1 .. Len(list) : k < l => list[k].price < list[l].price}

Takes(before, e, after) ==
  IF e = BookReset THEN after = ClearState
  ELSE /\ e.type \in EntryTypes
       /\ after = [before EXCEPT ![e.type] = Edit(@, e)]
       /\ after[e.type] # before[e.type]

Course(bs, es, first, last) ==
  /\ bs \in [0 .. Len(es) -> [EntryTypes -> SortedLists]]
  /\ bs[0] = first /\ bs[Len(es)] = last
  /\ \A k \in 1 .. Len(es) : Takes(bs[k - 1], es[k], bs[k])

\* The same for the list of one type of entry.
ListCourse(ls, es, first, last) ==
  /\ ls \in [0 .. Len(es) -> SortedLists]
  /\ ls[0] = first /\ ls[Len(es)] = last
  /\ \A k \in 1 .. Len(es) : ls[k] = Edit(ls[k - 1], es[k]) /\ ls[k] # ls[k - 1]

Shown == [t \in EntryTypes |-> Visible(full[t])]

OnCourse == \E bs : Course(bs, entries, lists, Shown)

BookInv == TypeOK /\ OnCourse

EntriesOf(t) == {e \in Entries : e.type = t}

LEMMA EntryIsNoReset ==
  ASSUME NEW e \in Entries
  PROVE  e # BookReset
<1>1. e.type \in {"Bid", "Offer", "ImpliedBid", "ImpliedOffer"}
  BY BookAssumption DEF Entries
<1>2. BookReset.type = "BookReset"
  BY DEF BookReset, Entry
<1> QED  BY <1>1, <1>2

\* What is shown of a book is in order.
LEMMA VisibleSorted ==
  ASSUME NEW b \in Books
  PROVE  /\ Visible(b) \in SortedLists /\ Visible(b) \in Lists
         /\ Visible(b) \in Seq(Levels) /\ Len(Visible(b)) \in Nat
         /\ Len(Visible(b)) <= Depth /\ Len(Visible(b)) <= Len(AllLevels(b))
         /\ Len(Visible(b)) = IF Len(AllLevels(b)) > Depth THEN Depth
                              ELSE Len(AllLevels(b))
         /\ \A k \in 1 .. Len(Visible(b)) : Visible(b)[k] = AllLevels(b)[k]
<1> DEFINE all  == AllLevels(b)
           list == Visible(b)
<1> USE DepthAssumption
<1>1. /\ all \in Seq(Levels) /\ Len(all) \in Nat
      /\ \A k, l \in 1 .. Len(all) : k < l => all[k].price < all[l].price
  BY LevelsAt
<1> HIDE DEF all
<1>2. /\ list \in Seq(Levels)
      /\ Len(list) = IF Len(all) > Depth THEN Depth ELSE Len(all)
      /\ \A k \in 1 .. Len(list) : list[k] = all[k]
  BY <1>1, BestAt DEF Visible, all
<1> HIDE DEF list
<1>3. Len(list) \in Nat /\ Len(list) <= Depth /\ Len(list) <= Len(all)
  BY <1>1, <1>2
<1>4. list \in Lists
  BY <1>2, <1>3 DEF Lists
<1>5. \A k, l \in 1 .. Len(list) : k < l => list[k].price < list[l].price
  BY <1>1, <1>2, <1>3
<1>6. list \in SortedLists
  BY <1>4, <1>5 DEF SortedLists
<1> QED  BY <1>2, <1>3, <1>4, <1>6 DEF all, list

\* The beginning of a list in order is in order.
LEMMA PrefixSorted ==
  ASSUME NEW s \in SortedLists, NEW n \in 0 .. Len(s)
  PROVE  SubSeq(s, 1, n) \in SortedLists /\ Len(SubSeq(s, 1, n)) = n
<1> USE DepthAssumption
<1> DEFINE t == SubSeq(s, 1, n)
<1>1. /\ s \in Seq(Levels) /\ Len(s) \in Nat /\ Len(s) <= Depth
      /\ \A k, l \in 1 .. Len(s) : k < l => s[k].price < s[l].price
  BY DEF SortedLists, Lists
<1>2. t \in Seq(Levels) /\ Len(t) = n /\ \A k \in 1 .. n : t[k] = s[k]
  BY <1>1
<1> HIDE DEF t
<1>3. t \in Lists
  BY <1>1, <1>2 DEF Lists
<1>4. \A k, l \in 1 .. Len(t) : k < l => t[k].price < t[l].price
  BY <1>1, <1>2
<1>5. t \in SortedLists
  BY <1>3, <1>4 DEF SortedLists
<1> QED  BY <1>2, <1>5 DEF t

(* Publishing entries of one type makes the course longer at its end.      *)
LEMMA CourseGrows ==
  ASSUME NEW es \in Seq(Entries \cup {BookReset}), NEW bs, NEW first, NEW shown,
         Course(bs, es, first, shown),
         NEW t \in EntryTypes, NEW new \in Seq(EntriesOf(t)), NEW ls, NEW last,
         ListCourse(ls, new, shown[t], last)
  PROVE  \E cs : Course(cs, es \o new, first, [shown EXCEPT ![t] = last])
<1> DEFINE n  == Len(es)
           m  == Len(new)
           all == es \o new
           end == [shown EXCEPT ![t] = last]
           cs == [k \in 0 .. n + m |->
                    IF k <= n THEN bs[k] ELSE [shown EXCEPT ![t] = ls[k - n]]]
<1>1. /\ bs \in [0 .. n -> [EntryTypes -> SortedLists]]
      /\ bs[0] = first /\ bs[n] = shown
      /\ \A k \in 1 .. n : Takes(bs[k - 1], es[k], bs[k])
  BY DEF Course
<1>2. /\ ls \in [0 .. m -> SortedLists] /\ ls[0] = shown[t] /\ ls[m] = last
      /\ \A k \in 1 .. m : ls[k] = Edit(ls[k - 1], new[k]) /\ ls[k] # ls[k - 1]
  BY DEF ListCourse
<1>3. /\ n \in Nat /\ m \in Nat /\ Len(all) = n + m
      /\ \A k \in 1 .. n : all[k] = es[k]
      /\ \A k \in 1 .. m : all[n + k] = new[k]
  BY DEF EntriesOf
<1>4. \A k \in 1 .. m : new[k] \in Entries /\ new[k].type = t /\ new[k] # BookReset
  <2>1. ASSUME NEW k \in 1 .. m
        PROVE  new[k] \in Entries /\ new[k].type = t
    BY DEF EntriesOf
  <2> QED  BY <2>1, EntryIsNoReset
<1> HIDE DEF n, m, all
<1>5. shown \in [EntryTypes -> SortedLists]
  BY <1>1, <1>3
<1>6. cs \in [0 .. n + m -> [EntryTypes -> SortedLists]]
  <2>1. ASSUME NEW k \in 0 .. n + m
        PROVE  cs[k] \in [EntryTypes -> SortedLists]
    <3>1. CASE k <= n
      BY <1>1, <1>3, <3>1
    <3>2. CASE k > n
      <4>1. k - n \in 0 .. m
        BY <1>3, <3>2
      <4>2. ls[k - n] \in SortedLists
        BY <1>2, <4>1
      <4>3. cs[k] = [shown EXCEPT ![t] = ls[k - n]]
        BY <1>3, <3>2
      <4> QED  BY <1>5, <4>2, <4>3
    <3> QED  BY <1>3, <3>1, <3>2
  <2> QED  BY <2>1
<1>7. \A k \in 0 .. n : cs[k] = bs[k]
  BY <1>3
<1>8. ASSUME NEW j \in 0 .. m
      PROVE  cs[n + j] = [shown EXCEPT ![t] = ls[j]]
  <2>1. CASE j = 0
    <3>1. cs[n] = shown /\ n + j = n
      BY <1>1, <1>3, <1>7, <2>1
    <3>2. [shown EXCEPT ![t] = shown[t]] = shown
      BY <1>5
    <3> QED  BY <1>2, <2>1, <3>1, <3>2
  <2>2. CASE j # 0
    <3>1. n + j \in 0 .. n + m /\ ~(n + j <= n) /\ (n + j) - n = j
      BY <1>3, <2>2
    <3> QED  BY <3>1
  <2> QED  BY <2>1, <2>2
<1> HIDE DEF cs
<1>9. cs[0] = first /\ cs[n + m] = end
  BY <1>1, <1>2, <1>3, <1>7, <1>8
<1>10. ASSUME NEW k \in 1 .. n + m
       PROVE  Takes(cs[k - 1], all[k], cs[k])
  <2>1. CASE k <= n
    <3>1. k \in 1 .. n /\ k - 1 \in 0 .. n /\ k \in 0 .. n
      BY <1>3, <2>1
    <3> QED  BY <1>1, <1>3, <1>7, <3>1
  <2>2. CASE k > n
    <3>1. PICK j \in 1 .. m : k = n + j
      <4>1. k - n \in 1 .. m /\ k = n + (k - n)
        BY <1>3, <2>2
      <4> QED  BY <4>1
    <3>2. /\ j - 1 \in 0 .. m /\ j \in 0 .. m /\ k - 1 = n + (j - 1)
      BY <1>3, <3>1
    <3>3. /\ cs[k] = [shown EXCEPT ![t] = ls[j]]
          /\ cs[k - 1] = [shown EXCEPT ![t] = ls[j - 1]]
          /\ all[k] = new[j]
      BY <1>3, <1>8, <3>1, <3>2
    <3>4. ls[j] = Edit(ls[j - 1], new[j]) /\ ls[j] # ls[j - 1]
      BY <1>2
    <3>5. new[j].type = t /\ new[j] # BookReset
      BY <1>4
    <3>6. /\ cs[k][t] = ls[j] /\ cs[k - 1][t] = ls[j - 1]
          /\ cs[k] = [cs[k - 1] EXCEPT ![t] = ls[j]]
      BY <1>5, <3>3
    <3> QED  BY <3>3, <3>4, <3>5, <3>6 DEF Takes
  <2> QED  BY <1>3, <2>1, <2>2
<1>11. Course(cs, all, first, end)
  BY <1>3, <1>6, <1>9, <1>10 DEF Course
<1> QED  BY <1>11 DEF all

(* Handling an entry makes it shorter at its beginning.                    *)
LEMMA CourseShrinks ==
  ASSUME NEW es \in Seq(Entries \cup {BookReset}), es # << >>,
         NEW bs, NEW first, NEW last, Course(bs, es, first, last)
  PROVE  /\ Takes(first, Head(es), bs[1])
         /\ \E cs : Course(cs, Tail(es), bs[1], last)
<1> DEFINE n  == Len(es)
           cs == [k \in 0 .. n - 1 |-> bs[k + 1]]
<1>1. /\ bs \in [0 .. n -> [EntryTypes -> SortedLists]]
      /\ bs[0] = first /\ bs[n] = last
      /\ \A k \in 1 .. n : Takes(bs[k - 1], es[k], bs[k])
  BY DEF Course
<1>2. /\ n \in Nat /\ n > 0 /\ Head(es) = es[1] /\ Len(Tail(es)) = n - 1
      /\ \A k \in 1 .. n - 1 : Tail(es)[k] = es[k + 1]
  OBVIOUS
<1> HIDE DEF n
<1>3. Takes(first, Head(es), bs[1])
  <2>1. 1 \in 1 .. n /\ 1 - 1 = 0
    BY <1>2
  <2>2. Takes(bs[1 - 1], es[1], bs[1])
    BY <1>1, <2>1
  <2> QED  BY <1>1, <1>2, <2>1, <2>2
<1>4. cs \in [0 .. n - 1 -> [EntryTypes -> SortedLists]]
  <2>1. ASSUME NEW k \in 0 .. n - 1
        PROVE  bs[k + 1] \in [EntryTypes -> SortedLists]
    <3>1. k + 1 \in 0 .. n
      BY <1>2
    <3> QED  BY <1>1, <3>1
  <2> QED  BY <2>1
<1>5. cs[0] = bs[1] /\ cs[n - 1] = last
  BY <1>1, <1>2
<1>6. ASSUME NEW k \in 1 .. n - 1
      PROVE  Takes(cs[k - 1], Tail(es)[k], cs[k])
  <2>1. k + 1 \in 1 .. n /\ (k + 1) - 1 = k /\ (k - 1) + 1 = k
        /\ k - 1 \in 0 .. n - 1 /\ k \in 0 .. n - 1
    BY <1>2
  <2>2. cs[k - 1] = bs[k] /\ cs[k] = bs[k + 1] /\ Tail(es)[k] = es[k + 1]
    BY <1>2, <2>1
  <2>3. Takes(bs[(k + 1) - 1], es[k + 1], bs[k + 1])
    BY <1>1, <2>1
  <2> QED  BY <2>1, <2>2, <2>3
<1> HIDE DEF cs
<1>7. Course(cs, Tail(es), bs[1], last)
  BY <1>2, <1>4, <1>5, <1>6 DEF Course
<1> QED  BY <1>3, <1>7

\* An entry's action says which operation of DepthList edits the list.
LEMMA EditIs ==
  ASSUME NEW list, NEW e
  PROVE  /\ e.action = "New" => Edit(list, e) = Add(list, e.level, e.price, e.quantity)
         /\ e.action = "Change" => Edit(list, e) = Update(list, e.level, e.price, e.quantity)
         /\ e.action = "Delete" => Edit(list, e) = Delete(list, e.level, e.price)
         /\ e.action = "DeleteFrom" => Edit(list, e) = DeleteFrom(list, e.level)
         /\ e.action = "DeleteThru" => Edit(list, e) = DeleteThru(list, e.level)
  BY DEF Edit

\* The entries an exchange publishes about the list of one type.
LEMMA EntryOf ==
  ASSUME NEW t \in EntryTypes, NEW action \in Actions, NEW level \in 1 .. Depth,
         NEW price \in 0 .. MaxPrice, NEW quantity \in 0 .. MaxQuantity
  PROVE  LET e == Entry(t, action, level, price, quantity)
         IN  /\ e \in EntriesOf(t) /\ e.type = t /\ e.action = action
             /\ e.level = level /\ e.price = price /\ e.quantity = quantity
  BY DEF EntriesOf, Entries, Entry

\* A change of the book that nobody sees, and one that is one entry.
LEMMA SilentCourse ==
  ASSUME NEW list \in SortedLists, NEW t
  PROVE  << >> \in Seq(EntriesOf(t)) /\ \E ls : ListCourse(ls, << >>, list, list)
<1> DEFINE ls == [k \in 0 .. 0 |-> list]
<1>1. ls \in [0 .. 0 -> SortedLists] /\ ls[0] = list
  OBVIOUS
<1> HIDE DEF ls
<1>2. ListCourse(ls, << >>, list, list)
  BY <1>1 DEF ListCourse
<1> QED  BY <1>2

LEMMA SingleCourse ==
  ASSUME NEW list \in SortedLists, NEW t, NEW e \in EntriesOf(t),
         Edit(list, e) \in SortedLists, Edit(list, e) # list
  PROVE  /\ <<e>> \in Seq(EntriesOf(t))
         /\ \E ls : ListCourse(ls, <<e>>, list, Edit(list, e))
<1> DEFINE next == Edit(list, e)
           ls   == [k \in 0 .. 1 |-> IF k = 0 THEN list ELSE next]
           es   == <<e>>
<1>1. ls \in [0 .. 1 -> SortedLists] /\ ls[0] = list /\ ls[1] = next
  OBVIOUS
<1>2. Len(es) = 1 /\ es[1] = e
  OBVIOUS
<1> HIDE DEF ls, es
<1>3. \A k \in 1 .. 1 : ls[k] = Edit(ls[k - 1], es[k]) /\ ls[k] # ls[k - 1]
  <2>1. ls[1 - 1] = list
    BY <1>1
  <2>2. ls[1] = Edit(ls[1 - 1], es[1]) /\ ls[1] # ls[1 - 1]
    BY <1>1, <1>2, <2>1
  <2> QED  BY <2>2
<1>4. ListCourse(ls, es, list, next)
  BY <1>1, <1>2, <1>3 DEF ListCourse
<1> QED  BY <1>4 DEF es

(* A deletion and the entries for the levels that move up: each of them    *)
(* is added behind the last, until all that is shown is there.             *)
LEMMA RefillCourse ==
  ASSUME NEW b \in Books, NEW c \in Books, NEW t \in EntryTypes,
         NEW e \in EntriesOf(t), NEW kept \in 0 .. Len(Visible(c)),
         kept < Len(Visible(b)), Edit(Visible(b), e) = SubSeq(Visible(c), 1, kept)
  PROVE  LET new == <<e>> \o Refill(t, c, kept)
         IN  /\ new \in Seq(EntriesOf(t))
             /\ \E ls : ListCourse(ls, new, Visible(b), Visible(c))
<1> DEFINE old  == Visible(b)
           seen == Visible(c)
           fill == Refill(t, c, kept)
           new  == <<e>> \o fill
           m    == Len(seen) - kept
           ls   == [k \in 0 .. m + 1 |->
                      IF k = 0 THEN old ELSE SubSeq(seen, 1, kept + k - 1)]
<1>1. /\ old \in SortedLists /\ Len(old) \in Nat
      /\ seen \in SortedLists /\ seen \in Lists /\ seen \in Seq(Levels)
      /\ Len(seen) \in Nat /\ Len(seen) <= Depth
  BY VisibleSorted
<1>2. kept \in Nat /\ kept <= Len(seen) /\ kept < Len(old)
  BY <1>1
<1>3. /\ fill \in Seq(EntriesOf(t)) /\ Len(fill) = m
      /\ \A k \in 1 .. m : fill[k] = Entry(t, "New", kept + k, seen[kept + k].price,
                                           seen[kept + k].quantity)
  <2>1. fill = [k \in 1 .. m |-> Entry(t, "New", kept + k, seen[kept + k].price,
                                       seen[kept + k].quantity)]
    BY DEF Refill
  <2> HIDE DEF seen, fill
  <2>2. ASSUME NEW k \in 1 .. m
        PROVE  Entry(t, "New", kept + k, seen[kept + k].price, seen[kept + k].quantity)
                 \in EntriesOf(t)
    <3>1. kept + k \in 1 .. Len(seen) /\ kept + k \in 1 .. Depth
      BY <1>1, <1>2, DepthAssumption
    <3>2. seen[kept + k] \in Levels
      BY <1>1, <3>1
    <3>3. /\ seen[kept + k].price \in 0 .. MaxPrice
          /\ seen[kept + k].quantity \in 0 .. MaxQuantity
      BY <3>2, BookAssumption DEF Levels
    <3> QED  BY <3>1, <3>3, EntryOf DEF Actions
  <2>3. m \in Nat
    BY <1>1, <1>2
  <2> QED  BY <2>1, <2>2, <2>3
<1> HIDE DEF fill
<1>4. /\ new \in Seq(EntriesOf(t)) /\ Len(new) = m + 1 /\ new[1] = e
      /\ \A k \in 1 .. m : new[k + 1] = fill[k]
  <2>1. /\ <<e>> \in Seq(EntriesOf(t)) /\ Len(<<e>>) = 1 /\ <<e>>[1] = e
    OBVIOUS
  <2>2. m \in Nat
    BY <1>1, <1>2
  <2> HIDE DEF m
  <2>3. new \in Seq(EntriesOf(t)) /\ Len(new) = m + 1 /\ new[1] = e
    BY <1>3, <2>1, <2>2
  <2>4. ASSUME NEW k \in 1 .. m
        PROVE  new[k + 1] = fill[k]
    BY <1>3, <2>1, <2>2
  <2> QED  BY <2>3, <2>4
<1> HIDE DEF new, seen, old
<1>5. \A k \in 1 .. m + 1 : SubSeq(seen, 1, kept + k - 1) \in SortedLists
                            /\ Len(SubSeq(seen, 1, kept + k - 1)) = kept + k - 1
  <2>1. ASSUME NEW k \in 1 .. m + 1
        PROVE  SubSeq(seen, 1, kept + k - 1) \in SortedLists
               /\ Len(SubSeq(seen, 1, kept + k - 1)) = kept + k - 1
    <3>1. kept + k - 1 \in 0 .. Len(seen)
      BY <1>1, <1>2
    <3> QED  BY <1>1, <3>1, PrefixSorted
  <2> QED  BY <2>1
<1>6. ls \in [0 .. m + 1 -> SortedLists]
  <2>1. m \in Nat
    BY <1>1, <1>2
  <2> HIDE DEF m
  <2>2. ASSUME NEW k \in 0 .. m + 1
        PROVE  (IF k = 0 THEN old ELSE SubSeq(seen, 1, kept + k - 1)) \in SortedLists
    <3>1. k # 0 => k \in 1 .. m + 1
      BY <2>1
    <3> QED  BY <1>1, <1>5, <3>1
  <2> QED  BY <2>2
<1>7. /\ m \in Nat /\ ls[0] = old
      /\ \A k \in 1 .. m + 1 : ls[k] = SubSeq(seen, 1, kept + k - 1)
  BY <1>1, <1>2
<1>8. ls[m + 1] = seen
  <2>1. kept + (m + 1) - 1 = Len(seen) /\ m + 1 \in 1 .. m + 1
    BY <1>1, <1>2
  <2>2. ls[m + 1] = SubSeq(seen, 1, Len(seen))
    BY <1>7, <2>1
  <2>3. SubSeq(seen, 1, Len(seen)) = seen
    BY <1>1
  <2> QED  BY <2>2, <2>3
<1> HIDE DEF ls
<1>9. ls[1] = Edit(ls[0], e) /\ ls[1] # ls[0]
  <2>1. kept + 1 - 1 = kept /\ 1 \in 1 .. m + 1
    BY <1>2, <1>7
  <2>2. ls[1] = SubSeq(seen, 1, kept)
    BY <1>7, <2>1
  <2>3. Len(ls[1]) = kept
    BY <1>5, <2>1, <2>2
  <2>4. Edit(old, e) = SubSeq(seen, 1, kept)
    BY DEF old, seen
  <2> QED  BY <1>1, <1>2, <1>7, <2>2, <2>3, <2>4
<1>10. ASSUME NEW k \in 1 .. m
       PROVE  ls[k + 1] = Edit(ls[k], fill[k]) /\ ls[k + 1] # ls[k]
  <2> DEFINE n == kept + k
             x == Entry(t, "New", n, seen[n].price, seen[n].quantity)
  <2>1. /\ n \in 1 .. Len(seen) /\ kept + k - 1 = n - 1 /\ kept + (k + 1) - 1 = n
        /\ k \in 1 .. m + 1 /\ k + 1 \in 1 .. m + 1 /\ n - 1 # n
    BY <1>1, <1>2
  <2>2. ls[k] = SubSeq(seen, 1, n - 1) /\ ls[k + 1] = SubSeq(seen, 1, n)
    BY <1>7, <2>1
  <2>3. Len(ls[k]) = n - 1 /\ Len(ls[k + 1]) = n
    BY <1>5, <2>1, <2>2
  <2>4. fill[k] = x
    BY <1>3
  <2>5. Edit(ls[k], x) = Add(ls[k], n, seen[n].price, seen[n].quantity)
    BY EditIs DEF Entry
  <2> HIDE DEF n, x
  <2>6. Add(SubSeq(seen, 1, n - 1), n, seen[n].price, seen[n].quantity)
          = SubSeq(seen, 1, n)
    BY <1>1, <2>1, AddNext
  <2> QED  BY <2>1, <2>2, <2>3, <2>4, <2>5, <2>6
<1>11. ASSUME NEW k \in 1 .. m + 1
       PROVE  ls[k] = Edit(ls[k - 1], new[k]) /\ ls[k] # ls[k - 1]
  <2>1. CASE k = 1
    BY <1>4, <1>9, <2>1
  <2>2. CASE k # 1
    <3>1. k - 1 \in 1 .. m /\ (k - 1) + 1 = k
      BY <1>7, <2>2
    <3>2. ls[(k - 1) + 1] = Edit(ls[k - 1], fill[k - 1]) /\ ls[(k - 1) + 1] # ls[k - 1]
      BY <1>10, <3>1
    <3>3. new[(k - 1) + 1] = fill[k - 1]
      BY <1>4, <3>1
    <3> QED  BY <3>1, <3>2, <3>3
  <2> QED  BY <2>1, <2>2
<1>12. ListCourse(ls, new, old, seen)
  BY <1>4, <1>6, <1>7, <1>8, <1>11 DEF ListCourse
<1> QED  BY <1>4, <1>12 DEF new, old, seen, fill

LEMMA BeyondDepth ==
  ASSUME NEW s \in Seq(Levels), NEW t \in Seq(Levels),
         Len(s) >= Depth, Len(t) >= Depth, \A k \in 1 .. Depth : s[k] = t[k]
  PROVE  Best(s) = Best(t)
<1> USE DepthAssumption
<1>1. /\ Best(s) \in Seq(Levels) /\ Best(t) \in Seq(Levels)
      /\ Len(Best(s)) = IF Len(s) > Depth THEN Depth ELSE Len(s)
      /\ Len(Best(t)) = IF Len(t) > Depth THEN Depth ELSE Len(t)
      /\ \A k \in 1 .. Len(Best(s)) : Best(s)[k] = s[k]
      /\ \A k \in 1 .. Len(Best(t)) : Best(t)[k] = t[k]
  BY BestAt
<1>2. Len(s) \in Nat /\ Len(t) \in Nat
  OBVIOUS
<1>3. Len(Best(s)) = Depth /\ Len(Best(t)) = Depth
  BY <1>1, <1>2
<1>4. ASSUME NEW k \in 1 .. Depth
      PROVE  Best(s)[k] = Best(t)[k]
  BY <1>1, <1>3
<1> QED  BY <1>1, <1>3, <1>4, SeqEqual

(* Each action of the exchange publishes a course from what it showed to   *)
(* what it shows.  A new level: ...                                        *)
LEMMA InsertCourse ==
  ASSUME NEW b \in Books, NEW p \in Prices, b[p] = 0, NEW q \in Quantities,
         NEW t \in EntryTypes
  PROVE  LET c   == [b EXCEPT ![p] = q]
             new == IF Rank(c, p) > Depth THEN << >>
                    ELSE <<Entry(t, "New", Rank(c, p), p, q)>>
         IN  /\ c \in Books /\ new \in Seq(EntriesOf(t))
             /\ \E ls : ListCourse(ls, new, Visible(b), Visible(c))
<1> DEFINE c     == [b EXCEPT ![p] = q]
           n     == Rank(c, p)
           all   == AllLevels(b)
           level == [price |-> p, quantity |-> q]
           grown == InsertAt(all, n, level)
           e     == Entry(t, "New", n, p, q)
<1>1. c \in Books
  BY InsertRanks
<1>2. n \in 1 .. Len(all) + 1 /\ AllLevels(c) = grown
  <2>1. /\ Rank([b EXCEPT ![p] = q], p) \in 1 .. Len(AllLevels(b)) + 1
        /\ AllLevels([b EXCEPT ![p] = q])
             = InsertAt(AllLevels(b), Rank([b EXCEPT ![p] = q], p),
                        [price |-> p, quantity |-> q])
    <3> HIDE DEF c, n, all, level, grown, e
    <3> QED  BY InsertLevels
  <2> QED  BY <2>1
<1>3. all \in Seq(Levels) /\ Len(all) \in Nat /\ level \in Levels
  <2>1. all \in Seq(Levels) /\ Len(all) \in Nat
    BY LevelsAt
  <2>2. level \in Levels
    BY DEF Levels
  <2> QED  BY <2>1, <2>2
<1>4. /\ p \in 0 .. MaxPrice /\ q \in 0 .. MaxQuantity /\ Depth \in Nat
  BY BookAssumption, DepthAssumption
<1>5. Visible(b) = Best(all) /\ Visible(c) = Best(grown)
  BY <1>2 DEF Visible
<1>6. /\ Visible(b) \in SortedLists /\ Visible(c) \in SortedLists
  BY <1>1, VisibleSorted
<1> HIDE DEF c, n, all, level
<1>7. /\ grown \in Seq(Levels) /\ Len(grown) = Len(all) + 1
      /\ \A k \in 1 .. Len(all) + 1 :
           grown[k] = IF k < n THEN all[k] ELSE IF k = n THEN level ELSE all[k - 1]
  <2>1. /\ InsertAt(all, n, level) \in Seq(Levels)
        /\ Len(InsertAt(all, n, level)) = Len(all) + 1
        /\ \A k \in 1 .. Len(all) + 1 :
             InsertAt(all, n, level)[k]
               = IF k < n THEN all[k] ELSE IF k = n THEN level ELSE all[k - 1]
    <3> HIDE DEF grown
    <3> QED  BY <1>2, <1>3, InsertedAt
  <2> QED  BY <2>1
<1> HIDE DEF grown
<1>8. CASE n > Depth
  <2>1. Len(all) >= Depth /\ Len(grown) >= Depth
    BY <1>2, <1>3, <1>4, <1>7, <1>8
  <2>2. \A k \in 1 .. Depth : all[k] = grown[k]
    BY <1>2, <1>3, <1>4, <1>7, <1>8
  <2>3. Visible(c) = Visible(b)
    BY <1>3, <1>5, <1>7, <2>1, <2>2, BeyondDepth
  <2> QED  BY <1>1, <1>6, <1>8, <2>3, SilentCourse DEF c, n
<1>9. CASE ~(n > Depth)
  <2>1. n \in 1 .. Depth
    BY <1>2, <1>3, <1>4, <1>9
  <2>2. /\ e \in EntriesOf(t) /\ e.action = "New" /\ e.level = n
        /\ e.price = p /\ e.quantity = q
    BY <1>4, <2>1, EntryOf DEF Actions
  <2> HIDE DEF e
  <2>3. Edit(Visible(b), e) = Add(Visible(b), n, p, q)
    BY <2>2, EditIs
  <2>4. Add(Best(all), n, p, q) = Best(grown)
    <3>1. n <= Depth
      BY <2>1, <1>4
    <3> QED  BY <1>2, <1>3, <3>1, AddMirrors DEF grown, level
  <2>5. Edit(Visible(b), e) = Visible(c)
    BY <1>5, <2>3, <2>4
  <2>6. Visible(c) # Visible(b)
    <3>1. SUFFICES ASSUME Visible(c) = Visible(b)
                   PROVE  FALSE
      OBVIOUS
    <3>2. n \in 1 .. Len(Best(grown)) /\ Best(grown)[n] = grown[n]
      BY <1>2, <1>3, <1>4, <1>7, <2>1, BestAt
    <3>3. Best(grown)[n].price = p
      BY <1>2, <1>3, <1>7, <3>2 DEF level
    <3>4. n \in 1 .. Len(Visible(b)) /\ Visible(b)[n].price = p
      BY <1>5, <3>1, <3>2, <3>3
    <3>5. n \in 1 .. Len(all) /\ all[n].price = p
      BY <3>4, VisibleSorted DEF all
    <3>6. PICK x \in Present(b) : Rank(b, x) = n
      BY <3>5, RankFacts, LevelsAt DEF all
    <3>7. all[n] = [price |-> x, quantity |-> b[x]]
      BY <3>6, LevelsAt DEF all
    <3> QED  BY <3>5, <3>7 DEF Present
  <2>7. <<e>> \in Seq(EntriesOf(t)) /\ \E ls : ListCourse(ls, <<e>>, Visible(b), Visible(c))
    BY <1>6, <2>2, <2>5, <2>6, SingleCourse
  <2> QED  BY <1>1, <1>9, <2>7 DEF c, n, e
<1> QED  BY <1>8, <1>9

(* ... another quantity, ...                                               *)
LEMMA AmendCourse ==
  ASSUME NEW b \in Books, NEW p \in Present(b), NEW q \in Quantities, b[p] # q,
         NEW t \in EntryTypes,
         NEW c \in Books, c[p] = q, \A x \in Prices \ {p} : c[x] = b[x]
  PROVE  LET new == IF Rank(c, p) > Depth THEN << >>
                    ELSE <<Entry(t, "Change", Rank(c, p), p, q)>>
         IN  /\ new \in Seq(EntriesOf(t))
             /\ \E ls : ListCourse(ls, new, Visible(b), Visible(c))
<1> DEFINE n     == Rank(c, p)
           all   == AllLevels(b)
           e     == Entry(t, "Change", n, p, q)
<1>0. PICK level \in Levels : level.price = p /\ level.quantity = q
  <2>1. p \in Prices
    BY DEF Present
  <2>2. [price |-> p, quantity |-> q] \in Levels
    BY <2>1 DEF Levels
  <2> QED  BY <2>2
<1> DEFINE other == [all EXCEPT ![n] = level]
<1>1. /\ n \in 1 .. Len(all)
      /\ all[n].price = p /\ all[n].quantity = b[p] /\ AllLevels(c) = other
  <2>1. all \in Seq(Levels)
    BY LevelsAt
  <2>2. /\ Rank(c, p) \in 1 .. Len(AllLevels(b))
        /\ AllLevels(b)[Rank(c, p)].price = p
        /\ AllLevels(b)[Rank(c, p)].quantity = b[p]
        /\ AllLevels(c) \in Seq(Levels) /\ Len(AllLevels(c)) = Len(AllLevels(b))
        /\ \A k \in 1 .. Len(AllLevels(b)) :
             AllLevels(c)[k] = IF k = Rank(c, p) THEN level ELSE AllLevels(b)[k]
    <3> HIDE DEF n, all, e, other
    <3> QED  BY <1>0, AmendLevels
  <2> HIDE DEF n, all, e, other
  <2>3. /\ n \in 1 .. Len(all) /\ all[n].price = p /\ all[n].quantity = b[p]
        /\ AllLevels(c) \in Seq(Levels) /\ Len(AllLevels(c)) = Len(all)
        /\ \A k \in 1 .. Len(all) : AllLevels(c)[k] = IF k = n THEN level ELSE all[k]
    BY <2>2, Zenon DEF n, all
  <2>4. /\ other \in Seq(Levels) /\ Len(other) = Len(all)
        /\ \A k \in 1 .. Len(all) : other[k] = IF k = n THEN level ELSE all[k]
    <3>1. n \in 1 .. Len(all)
      BY <2>3
    <3> QED  BY <1>0, <2>1, <3>1 DEF other
  <2>5. AllLevels(c) = other
    <3>1. ASSUME NEW k \in 1 .. Len(other)
          PROVE  AllLevels(c)[k] = other[k]
      BY <2>3, <2>4
    <3>2. AllLevels(c) \in Seq(Levels) /\ other \in Seq(Levels) /\ Len(AllLevels(c)) = Len(other)
      BY <2>3, <2>4
    <3> QED  BY <3>1, <3>2, SeqEqual
  <2> QED  BY <2>3, <2>5
<1>2. all \in Seq(Levels) /\ Len(all) \in Nat /\ p \in Prices /\ level \in Levels
  <2>1. all \in Seq(Levels) /\ Len(all) \in Nat
    BY LevelsAt
  <2>2. p \in Prices
    BY DEF Present
  <2> QED  BY <1>0, <2>1, <2>2
<1>3. p \in 0 .. MaxPrice /\ q \in 0 .. MaxQuantity /\ Depth \in Nat
  BY <1>2, BookAssumption, DepthAssumption
<1>4. Visible(b) = Best(all) /\ Visible(c) = Best(other)
  BY <1>1 DEF Visible
<1>5. Visible(b) \in SortedLists /\ Visible(c) \in SortedLists
  BY <1>1, VisibleSorted
<1> HIDE DEF n, all
<1>6. /\ other \in Seq(Levels) /\ Len(other) = Len(all)
      /\ \A k \in 1 .. Len(all) : other[k] = IF k = n THEN level ELSE all[k]
  BY <1>1, <1>2
<1> HIDE DEF other
<1>7. CASE n > Depth
  <2>1. Len(all) >= Depth /\ Len(other) >= Depth
    BY <1>1, <1>2, <1>3, <1>6, <1>7
  <2>2. \A k \in 1 .. Depth : all[k] = other[k]
    BY <1>1, <1>2, <1>3, <1>6, <1>7
  <2>3. Visible(c) = Visible(b)
    BY <1>2, <1>4, <1>6, <2>1, <2>2, BeyondDepth
  <2> QED  BY <1>1, <1>5, <1>7, <2>3, SilentCourse DEF n
<1>8. CASE ~(n > Depth)
  <2>1. n \in 1 .. Depth
    BY <1>1, <1>2, <1>3, <1>8
  <2>2. /\ e \in EntriesOf(t) /\ e.action = "Change" /\ e.level = n
        /\ e.price = p /\ e.quantity = q
    BY <1>3, <2>1, EntryOf DEF Actions
  <2> HIDE DEF e
  <2>3. /\ n \in 1 .. Len(Best(all)) /\ Best(all)[n] = all[n]
        /\ n \in 1 .. Len(Best(other)) /\ Best(other)[n] = other[n]
    BY <1>1, <1>2, <1>3, <1>6, <2>1, BestAt
  <2>4. Edit(Visible(b), e) = Update(Best(all), n, p, q)
    BY <1>4, <2>2, EditIs
  <2>5. all[n].price = p
    BY <1>1
  <2>6. Update(Best(all), n, p, q) = Best(other)
    <3>1. level = [price |-> all[n].price, quantity |-> q]
      BY <1>0, <2>5 DEF Levels
    <3>2. Update(Best(all), n, all[n].price, q)
            = Best([all EXCEPT ![n] = [price |-> all[n].price, quantity |-> q]])
      <4>1. n \in 1 .. Len(Best(all)) /\ all \in Seq(Levels) /\ q \in Quantities
        BY <1>2, <2>3
      <4> HIDE DEF other
      <4> QED  BY <4>1, UpdateMirrors
    <3>3. other = [all EXCEPT ![n] = [price |-> all[n].price, quantity |-> q]]
      BY <3>1 DEF other
    <3> QED  BY <2>5, <3>2, <3>3
  <2>7. Edit(Visible(b), e) = Visible(c)
    BY <1>4, <2>4, <2>6
  <2>8. Best(all)[n].quantity = b[p] /\ Best(other)[n].quantity = q
    BY <1>0, <1>1, <1>6, <2>3
  <2>9. Visible(c) # Visible(b)
    BY <1>4, <2>8
  <2>10. <<e>> \in Seq(EntriesOf(t)) /\ \E ls : ListCourse(ls, <<e>>, Visible(b), Visible(c))
    BY <1>5, <2>2, <2>7, <2>9, SingleCourse
  <2> QED  BY <1>1, <1>8, <2>10 DEF n, e
<1> QED  BY <1>7, <1>8

(* ... a level that goes, ...                                              *)
LEMMA WithdrawCourse ==
  ASSUME NEW b \in Books, NEW p \in Present(b), NEW t \in EntryTypes
  PROVE  LET c   == [b EXCEPT ![p] = 0]
             r   == Rank(b, p)
             new == IF r > Depth THEN << >>
                    ELSE <<Entry(t, "Delete", r, p, 0)>>
                           \o Refill(t, c, Len(Visible(b)) - 1)
         IN  /\ c \in Books /\ new \in Seq(EntriesOf(t))
             /\ \E ls : ListCourse(ls, new, Visible(b), Visible(c))
<1> DEFINE c    == [b EXCEPT ![p] = 0]
           r    == Rank(b, p)
           all  == AllLevels(b)
           rest == RemoveAt(all, r)
           kept == Len(Visible(b)) - 1
           e    == Entry(t, "Delete", r, p, 0)
<1>1. /\ c \in Books /\ r \in 1 .. Len(all) /\ all[r].price = p
      /\ AllLevels(c) = rest
  BY WithdrawLevels
<1>2. all \in Seq(Levels) /\ Len(all) \in Nat
  BY LevelsAt
<1>3. p \in 0 .. MaxPrice /\ 0 \in 0 .. MaxQuantity /\ Depth \in Nat
  BY BookAssumption, DepthAssumption DEF Present
<1>4. Visible(b) = Best(all) /\ Visible(c) = Best(rest)
  BY <1>1 DEF Visible
<1>5. Visible(b) \in SortedLists /\ Visible(c) \in SortedLists
  BY <1>1, VisibleSorted
<1> HIDE DEF c, r, all
<1>6. /\ rest \in Seq(Levels) /\ Len(rest) = Len(all) - 1
      /\ \A k \in 1 .. Len(all) - 1 :
           rest[k] = IF k < r THEN all[k] ELSE all[k + 1]
  BY <1>1, <1>2, RemovedAt
<1>7. CASE r > Depth
  <2> HIDE DEF rest
  <2>1. Len(all) >= Depth /\ Len(rest) >= Depth
    BY <1>1, <1>2, <1>3, <1>6, <1>7
  <2>2. \A k \in 1 .. Depth : all[k] = rest[k]
    BY <1>1, <1>2, <1>3, <1>6, <1>7
  <2>3. Visible(c) = Visible(b)
    BY <1>2, <1>4, <1>6, <2>1, <2>2, BeyondDepth
  <2> QED  BY <1>1, <1>5, <1>7, <2>3, SilentCourse DEF c, r
<1>8. CASE ~(r > Depth)
  <2>1. r \in 1 .. Depth
    BY <1>1, <1>2, <1>3, <1>8
  <2>2. e \in EntriesOf(t) /\ e.action = "Delete" /\ e.level = r /\ e.price = p
    BY <1>3, <2>1, EntryOf DEF Actions
  <2> HIDE DEF e
  <2>3. Edit(Visible(b), e) = Delete(Best(all), r, all[r].price)
    BY <1>1, <1>4, <2>2, EditIs
  <2>4. r \in 1 .. Len(Best(all))
    BY <1>1, <1>2, <1>3, <2>1, BestAt
  <2>5. /\ kept \in 0 .. Len(Visible(c))
        /\ Delete(Best(all), r, all[r].price) = SubSeq(Visible(c), 1, kept)
    BY <1>2, <1>4, <2>4, DeleteKeeps
  <2>6. kept < Len(Visible(b))
    BY VisibleSorted
  <2> HIDE DEF kept
  <2>7. /\ <<e>> \o Refill(t, c, kept) \in Seq(EntriesOf(t))
        /\ \E ls : ListCourse(ls, <<e>> \o Refill(t, c, kept), Visible(b), Visible(c))
    BY <1>1, <2>2, <2>3, <2>5, <2>6, RefillCourse
  <2> QED  BY <1>1, <1>8, <2>7 DEF c, r, e, kept
<1> QED  BY <1>7, <1>8

(* ... the best levels that go, ...                                        *)
LEMMA SweepCourse ==
  ASSUME NEW b \in Books, NEW n \in 1 .. Len(Visible(b)), NEW t \in EntryTypes
  PROVE  LET c   == [p \in Prices |-> IF Rank(b, p) <= n THEN 0 ELSE b[p]]
             new == <<Entry(t, "DeleteFrom", n, 0, 0)>>
                      \o Refill(t, c, Len(Visible(b)) - n)
         IN  /\ c \in Books /\ new \in Seq(EntriesOf(t))
             /\ \E ls : ListCourse(ls, new, Visible(b), Visible(c))
<1> DEFINE c    == [p \in Prices |-> IF Rank(b, p) <= n THEN 0 ELSE b[p]]
           all  == AllLevels(b)
           kept == Len(Visible(b)) - n
           e    == Entry(t, "DeleteFrom", n, 0, 0)
<1>1. /\ Visible(b) = Best(all) /\ Len(Visible(b)) \in Nat
      /\ Len(Visible(b)) <= Len(all) /\ Len(Visible(b)) <= Depth
  BY VisibleSorted DEF Visible
<1>2. all \in Seq(Levels) /\ Len(all) \in Nat
  BY LevelsAt
<1>3. n \in 1 .. Len(all) /\ n \in 1 .. Depth /\ n \in 1 .. Len(Best(all))
  BY <1>1, <1>2, DepthAssumption
<1>4. c \in Books /\ AllLevels(c) = SubSeq(all, n + 1, Len(all))
  BY <1>3, SweepLevels
<1> HIDE DEF c, all
<1>5. Visible(c) = Best(SubSeq(all, n + 1, Len(all)))
  BY <1>4 DEF Visible
<1>6. e \in EntriesOf(t) /\ e.action = "DeleteFrom" /\ e.level = n
  <2>1. 0 \in 0 .. MaxPrice /\ 0 \in 0 .. MaxQuantity
    BY BookAssumption
  <2> QED  BY <1>3, <2>1, EntryOf DEF Actions
<1> HIDE DEF e
<1>7. Edit(Visible(b), e) = DeleteFrom(Best(all), n)
  BY <1>1, <1>6, EditIs
<1>8. /\ kept \in 0 .. Len(Visible(c))
      /\ DeleteFrom(Best(all), n) = SubSeq(Visible(c), 1, kept)
  BY <1>1, <1>2, <1>3, <1>5, DeleteFromMirrors
<1>9. kept < Len(Visible(b))
  BY <1>1
<1> HIDE DEF kept
<1>10. /\ <<e>> \o Refill(t, c, kept) \in Seq(EntriesOf(t))
       /\ \E ls : ListCourse(ls, <<e>> \o Refill(t, c, kept), Visible(b), Visible(c))
  BY <1>4, <1>6, <1>7, <1>8, <1>9, RefillCourse
<1> QED  BY <1>4, <1>10 DEF c, e, kept

(* ... and the levels from one on.                                         *)
LEMMA CutCourse ==
  ASSUME NEW b \in Books, NEW n \in 1 .. Len(Visible(b)), NEW t \in EntryTypes
  PROVE  LET c   == [p \in Prices |-> IF Rank(b, p) >= n THEN 0 ELSE b[p]]
             new == <<Entry(t, "DeleteThru", n, 0, 0)>>
         IN  /\ c \in Books /\ new \in Seq(EntriesOf(t))
             /\ \E ls : ListCourse(ls, new, Visible(b), Visible(c))
<1> DEFINE c    == [p \in Prices |-> IF Rank(b, p) >= n THEN 0 ELSE b[p]]
           all  == AllLevels(b)
           e    == Entry(t, "DeleteThru", n, 0, 0)
<1>1. /\ Visible(b) = Best(all) /\ Len(Visible(b)) \in Nat
      /\ Len(Visible(b)) <= Len(all) /\ Len(Visible(b)) <= Depth
      /\ Visible(b) \in SortedLists
  BY VisibleSorted DEF Visible
<1>2. all \in Seq(Levels) /\ Len(all) \in Nat
  BY LevelsAt
<1>3. n \in 1 .. Len(all) /\ n \in 1 .. Depth /\ n \in 1 .. Len(Best(all))
  BY <1>1, <1>2, DepthAssumption
<1>4. c \in Books /\ AllLevels(c) = SubSeq(all, 1, n - 1)
  BY <1>3, CutLevels
<1> HIDE DEF c, all
<1>5. Visible(c) = Best(SubSeq(all, 1, n - 1)) /\ Visible(c) \in SortedLists
      /\ Len(Visible(c)) <= Len(AllLevels(c))
  BY <1>4, VisibleSorted DEF Visible
<1>6. e \in EntriesOf(t) /\ e.action = "DeleteThru" /\ e.level = n
  <2>1. 0 \in 0 .. MaxPrice /\ 0 \in 0 .. MaxQuantity
    BY BookAssumption
  <2> QED  BY <1>3, <2>1, EntryOf DEF Actions
<1> HIDE DEF e
<1>7. Edit(Visible(b), e) = Visible(c)
  BY <1>1, <1>2, <1>3, <1>5, <1>6, EditIs, DeleteThruMirrors
<1>8. Visible(c) # Visible(b)
  <2>1. Len(SubSeq(all, 1, n - 1)) = n - 1
    BY <1>2, <1>3
  <2>2. Len(Visible(c)) \in Nat /\ Len(Visible(c)) <= n - 1
    BY <1>4, <1>5, <2>1, VisibleSorted
  <2>3. Len(Visible(c)) < Len(Visible(b))
    BY <1>1, <2>2
  <2> QED  BY <1>1, <2>2, <2>3
<1>9. <<e>> \in Seq(EntriesOf(t)) /\ \E ls : ListCourse(ls, <<e>>, Visible(b), Visible(c))
  BY <1>1, <1>5, <1>6, <1>7, <1>8, SingleCourse
<1> QED  BY <1>4, <1>9 DEF c, e

(* Induction over the natural numbers for a set, from the well-foundedness *)
(* of their order.                                                         *)
LEMMA NatSetInduction ==
  ASSUME NEW S, 0 \in S, \A n \in Nat : n \in S => n + 1 \in S
  PROVE  Nat \subseteq S
<1> DEFINE T == Nat \ S
           R == {ss \in Nat \X Nat : ss[1] < ss[2]}
<1>1. IsWellFoundedOn(R, Nat)
  BY NatLessThanWellFounded DEF OpToRel
<1> SUFFICES ASSUME T # {} PROVE FALSE
  OBVIOUS
<1>2. PICK x \in T : \A y \in T : ~(<<y, x>> \in R)
  <2> HIDE DEF R, T
  <2>1. T \subseteq Nat
    BY DEF T
  <2> QED  BY <1>1, <2>1, WFMin
<1>3. x # 0 /\ x \in Nat
  OBVIOUS
<1>4. x - 1 \in Nat /\ <<x - 1, x>> \in R
  BY <1>3
<1>5. x - 1 \in S
  BY <1>2, <1>4
<1>6. (x - 1) + 1 \in S
  BY <1>4, <1>5
<1> QED  BY <1>2, <1>3, <1>6

(* Loading a list level by level loads the whole of it.                    *)
LEMMA LoadIsAll ==
  ASSUME NEW seen \in Lists
  PROVE  Load(seen) = seen
<1> DEFINE m      == Len(seen)
           Fun(f) == [n \in 0 .. m |->
                        IF n = 0 THEN Clear
                        ELSE Add(f[n - 1], n, seen[n].price, seen[n].quantity)]
           g      == [n \in 0 .. m |-> SubSeq(seen, 1, n)]
<1>1. /\ m \in Nat /\ SubSeq(seen, 1, 0) = Clear /\ SubSeq(seen, 1, m) = seen
      /\ \A n \in 1 .. m : Add(SubSeq(seen, 1, n - 1), n, seen[n].price, seen[n].quantity)
                             = SubSeq(seen, 1, n)
  BY AddNext DEF Clear, Lists
<1>2. Load(seen) = (CHOOSE f : f = Fun(f))[m]
  BY DEF Load
<1> HIDE DEF m
<1>3. g = Fun(g)
  <2>1. ASSUME NEW n \in 0 .. m
        PROVE  g[n] = Fun(g)[n]
    <3>1. CASE n = 0
      BY <1>1, <3>1
    <3>2. CASE n # 0
      <4>1. n \in 1 .. m /\ n - 1 \in 0 .. m
        BY <1>1, <3>2
      <4>2. g[n - 1] = SubSeq(seen, 1, n - 1)
        BY <4>1
      <4> QED  BY <1>1, <3>2, <4>1, <4>2
    <3> QED  BY <3>1, <3>2
  <2> QED  BY <2>1
<1> HIDE DEF g
<1>4. PICK f : f = Fun(f) /\ Load(seen) = f[m]
  <2>1. \E f : f = Fun(f)
    BY <1>3
  <2> HIDE DEF Fun
  <2>2. Fun(CHOOSE f : f = Fun(f)) = (CHOOSE f : f = Fun(f))
    BY <2>1
  <2> QED  BY <1>2, <2>2
<1>5. f[0] = SubSeq(seen, 1, 0)
  BY <1>1, <1>4
<1>6. \A n \in 1 .. m : f[n] = Add(f[n - 1], n, seen[n].price, seen[n].quantity)
  BY <1>1, <1>4
<1> DEFINE S == {n \in Nat : n <= m => f[n] = SubSeq(seen, 1, n)}
<1>7. 0 \in S
  BY <1>5
<1>8. ASSUME NEW n \in Nat, n \in S
      PROVE  n + 1 \in S
  <2>1. CASE n + 1 <= m
    <3>1. n <= m /\ n + 1 \in 1 .. m /\ (n + 1) - 1 = n
      BY <1>1, <2>1
    <3>2. f[n + 1] = Add(f[n], n + 1, seen[n + 1].price, seen[n + 1].quantity)
      BY <1>6, <3>1
    <3>3. f[n] = SubSeq(seen, 1, (n + 1) - 1)
      BY <1>8, <3>1
    <3>4. f[n + 1] = SubSeq(seen, 1, n + 1)
      BY <1>1, <3>1, <3>2, <3>3
    <3> QED  BY <3>4
  <2> QED  BY <2>1
<1> HIDE DEF S
<1>9. m \in S
  BY <1>1, <1>7, <1>8, NatSetInduction
<1> QED  BY <1>1, <1>4, <1>9 DEF S

(* A change of one book that is published as a course of its list keeps    *)
(* the course of the books.                                                *)
LEMMA PublishKeeps ==
  ASSUME BookInv, NEW t \in EntryTypes, NEW b \in Books,
         NEW new \in Seq(EntriesOf(t)), NEW ls,
         ListCourse(ls, new, Visible(full[t]), Visible(b)),
         Publish(t, b, new)
  PROVE  BookInv'
<1> USE DEF BookInv
<1>1. PICK bs : Course(bs, entries, lists, Shown)
  BY DEF OnCourse
<1>2. /\ full \in [EntryTypes -> Books] /\ lists \in [EntryTypes -> Lists]
      /\ entries \in Seq(Entries \cup {BookReset})
  BY DEF TypeOK
<1>3. /\ Len(entries) + Len(new) <= MaxEntries
      /\ full' = [full EXCEPT ![t] = b] /\ entries' = entries \o new /\ lists' = lists
  BY DEF Publish
<1>4. Shown[t] = Visible(full[t])
  BY DEF Shown
<1>5. \E cs : Course(cs, entries \o new, lists, [Shown EXCEPT ![t] = Visible(b)])
  <2>1. PICK shown, first, es, last :
          /\ shown = Shown /\ first = lists /\ es = entries /\ last = Visible(b)
    OBVIOUS
  <2>2. /\ es \in Seq(Entries \cup {BookReset}) /\ Course(bs, es, first, shown)
        /\ ListCourse(ls, new, shown[t], last)
    BY <1>1, <1>2, <1>4, <2>1
  <2>3. \E cs : Course(cs, es \o new, first, [shown EXCEPT ![t] = last])
    BY <2>2, CourseGrows
  <2> QED  BY <2>1, <2>3
<1>6. Shown' = [Shown EXCEPT ![t] = Visible(b)]
  <2>1. \A u \in EntryTypes : Visible(full'[u]) = IF u = t THEN Visible(b) ELSE Visible(full[u])
    BY <1>2, <1>3
  <2>2. Shown' = [u \in EntryTypes |-> Visible(full'[u])]
    BY DEF Shown
  <2> QED  BY <2>1, <2>2 DEF Shown
<1>7. OnCourse'
  BY <1>3, <1>5, <1>6 DEF OnCourse
<1>8. TypeOK'
  <2>1. new \in Seq(Entries \cup {BookReset})
    BY DEF EntriesOf
  <2>2. entries' \in Seq(Entries \cup {BookReset}) /\ Len(entries') <= MaxEntries
    BY <1>2, <1>3, <2>1
  <2> QED  BY <1>2, <1>3, <2>2 DEF TypeOK
<1> QED  BY <1>7, <1>8
-----------------------------------------------------------------------------
(* The invariant, action by action.                                        *)

LEMMA InsertKeeps ==
  ASSUME BookInv, NEW t \in EntryTypes, NEW p \in Prices, NEW q \in Quantities,
         Insert(t, p, q)
  PROVE  BookInv'
<1> DEFINE b   == [full[t] EXCEPT ![p] = q]
           new == IF Rank(b, p) > Depth THEN << >>
                  ELSE <<Entry(t, "New", Rank(b, p), p, q)>>
<1>1. full[t] \in Books /\ full[t][p] = 0 /\ Publish(t, b, new)
  BY DEF Insert, BookInv, TypeOK
<1>2. PICK old : old = full[t]
  OBVIOUS
<1>3. /\ b \in Books /\ new \in Seq(EntriesOf(t))
      /\ \E ls : ListCourse(ls, new, Visible(full[t]), Visible(b))
  <2>1. old \in Books /\ old[p] = 0
    BY <1>1, <1>2
  <2>2. LET c == [old EXCEPT ![p] = q]
            es == IF Rank(c, p) > Depth THEN << >>
                  ELSE <<Entry(t, "New", Rank(c, p), p, q)>>
        IN  /\ c \in Books /\ es \in Seq(EntriesOf(t))
            /\ \E ls : ListCourse(ls, es, Visible(old), Visible(c))
    BY <2>1, InsertCourse
  <2> QED  BY <1>2, <2>2
<1> HIDE DEF b, new
<1> QED  BY <1>1, <1>3, PublishKeeps

LEMMA AmendKeeps ==
  ASSUME BookInv, NEW t \in EntryTypes, NEW p \in Prices, NEW q \in Quantities,
         Amend(t, p, q)
  PROVE  BookInv'
<1> DEFINE b   == [full[t] EXCEPT ![p] = q]
           new == IF Rank(b, p) > Depth THEN << >>
                  ELSE <<Entry(t, "Change", Rank(b, p), p, q)>>
<1>1. /\ full[t] \in Books /\ full[t][p] # 0 /\ full[t][p] # q /\ Publish(t, b, new)
  BY DEF Amend, BookInv, TypeOK
<1>2. PICK old, c : old = full[t] /\ c = b
  OBVIOUS
<1>3. /\ b \in Books /\ new \in Seq(EntriesOf(t))
      /\ \E ls : ListCourse(ls, new, Visible(full[t]), Visible(b))
  <2>1. old \in Books /\ p \in Present(old) /\ old[p] # q
    BY <1>1, <1>2 DEF Present
  <2>2. MaxQuantity \in Nat /\ q \in 0 .. MaxQuantity
    BY BookAssumption
  <2>3. c \in Books /\ c[p] = q /\ \A x \in Prices \ {p} : c[x] = old[x]
    BY <1>1, <1>2, <2>1, <2>2 DEF Books
  <2>4. LET es == IF Rank(c, p) > Depth THEN << >>
                  ELSE <<Entry(t, "Change", Rank(c, p), p, q)>>
        IN  /\ es \in Seq(EntriesOf(t))
            /\ \E ls : ListCourse(ls, es, Visible(old), Visible(c))
    <3> HIDE DEF b, new
    <3> QED  BY <2>1, <2>3, AmendCourse
  <2> QED  BY <1>2, <2>3, <2>4
<1> HIDE DEF b, new
<1> QED  BY <1>1, <1>3, PublishKeeps

LEMMA WithdrawKeeps ==
  ASSUME BookInv, NEW t \in EntryTypes, NEW p \in Prices, Withdraw(t, p)
  PROVE  BookInv'
<1> DEFINE b   == [full[t] EXCEPT ![p] = 0]
           r   == Rank(full[t], p)
           new == IF r > Depth THEN << >>
                  ELSE <<Entry(t, "Delete", r, p, 0)>>
                         \o Refill(t, b, Len(Visible(full[t])) - 1)
<1>1. /\ full[t] \in Books /\ full[t][p] # 0 /\ Publish(t, b, new)
  BY DEF Withdraw, BookInv, TypeOK
<1>2. PICK old : old = full[t]
  OBVIOUS
<1>3. /\ b \in Books /\ new \in Seq(EntriesOf(t))
      /\ \E ls : ListCourse(ls, new, Visible(full[t]), Visible(b))
  <2>1. old \in Books /\ p \in Present(old)
    BY <1>1, <1>2 DEF Present
  <2>2. LET c  == [old EXCEPT ![p] = 0]
            es == IF Rank(old, p) > Depth THEN << >>
                  ELSE <<Entry(t, "Delete", Rank(old, p), p, 0)>>
                         \o Refill(t, c, Len(Visible(old)) - 1)
        IN  /\ c \in Books /\ es \in Seq(EntriesOf(t))
            /\ \E ls : ListCourse(ls, es, Visible(old), Visible(c))
    BY <2>1, WithdrawCourse
  <2> QED  BY <1>2, <2>2
<1> HIDE DEF b, new
<1> QED  BY <1>1, <1>3, PublishKeeps

LEMMA SweepKeeps ==
  ASSUME BookInv, NEW t \in EntryTypes, NEW n, Sweep(t, n)
  PROVE  BookInv'
<1> DEFINE b   == [p \in Prices |-> IF Rank(full[t], p) <= n THEN 0 ELSE full[t][p]]
           new == <<Entry(t, "DeleteFrom", n, 0, 0)>>
                    \o Refill(t, b, Len(Visible(full[t])) - n)
<1>1. /\ full[t] \in Books /\ n \in 1 .. Len(Visible(full[t])) /\ Publish(t, b, new)
  BY DEF Sweep, BookInv, TypeOK
<1>2. PICK old : old = full[t]
  OBVIOUS
<1>3. /\ b \in Books /\ new \in Seq(EntriesOf(t))
      /\ \E ls : ListCourse(ls, new, Visible(full[t]), Visible(b))
  <2>1. old \in Books /\ n \in 1 .. Len(Visible(old))
    BY <1>1, <1>2
  <2>2. LET c  == [p \in Prices |-> IF Rank(old, p) <= n THEN 0 ELSE old[p]]
            es == <<Entry(t, "DeleteFrom", n, 0, 0)>>
                    \o Refill(t, c, Len(Visible(old)) - n)
        IN  /\ c \in Books /\ es \in Seq(EntriesOf(t))
            /\ \E ls : ListCourse(ls, es, Visible(old), Visible(c))
    BY <2>1, SweepCourse
  <2> QED  BY <1>2, <2>2
<1> HIDE DEF b, new
<1> QED  BY <1>1, <1>3, PublishKeeps

LEMMA CutOffKeeps ==
  ASSUME BookInv, NEW t \in EntryTypes, NEW n, CutOff(t, n)
  PROVE  BookInv'
<1> DEFINE b   == [p \in Prices |-> IF Rank(full[t], p) >= n THEN 0 ELSE full[t][p]]
           new == <<Entry(t, "DeleteThru", n, 0, 0)>>
<1>1. /\ full[t] \in Books /\ n \in 1 .. Len(Visible(full[t])) /\ Publish(t, b, new)
  BY DEF CutOff, BookInv, TypeOK
<1>2. PICK old : old = full[t]
  OBVIOUS
<1>3. /\ b \in Books /\ new \in Seq(EntriesOf(t))
      /\ \E ls : ListCourse(ls, new, Visible(full[t]), Visible(b))
  <2>1. old \in Books /\ n \in 1 .. Len(Visible(old))
    BY <1>1, <1>2
  <2>2. LET c  == [p \in Prices |-> IF Rank(old, p) >= n THEN 0 ELSE old[p]]
            es == <<Entry(t, "DeleteThru", n, 0, 0)>>
        IN  /\ c \in Books /\ es \in Seq(EntriesOf(t))
            /\ \E ls : ListCourse(ls, es, Visible(old), Visible(c))
    BY <2>1, CutCourse
  <2> QED  BY <1>2, <2>2
<1> HIDE DEF b, new
<1> QED  BY <1>1, <1>3, PublishKeeps

LEMMA ResetKeeps ==
  ASSUME BookInv, ResetBooks
  PROVE  BookInv'
<1> DEFINE n  == Len(entries)
           es == Append(entries, BookReset)
<1>1. PICK bs : Course(bs, entries, lists, Shown)
  BY DEF BookInv, OnCourse
<1>2. /\ lists \in [EntryTypes -> Lists] /\ MaxEntries \in Nat
      /\ entries \in Seq(Entries \cup {BookReset})
  BY BookAssumption DEF BookInv, TypeOK
<1>3. /\ n < MaxEntries /\ full' = [t \in EntryTypes |-> NoLevels]
      /\ entries' = es /\ lists' = lists
  BY DEF ResetBooks
<1>4. ClearState \in [EntryTypes -> SortedLists] /\ Shown' = ClearState
  <2>1. Clear \in SortedLists /\ Visible(NoLevels) = Clear
    BY NoLevelsAtAll, VisibleSorted
  <2>2. Shown' = [t \in EntryTypes |-> Visible(full'[t])]
    BY DEF Shown
  <2> QED  BY <1>3, <2>1, <2>2 DEF ClearState
<1>5. TypeOK'
  <2>1. full' \in [EntryTypes -> Books]
    BY <1>3, NoLevelsAtAll
  <2>2. es \in Seq(Entries \cup {BookReset}) /\ Len(es) <= MaxEntries
    BY <1>2, <1>3
  <2> QED  BY <1>2, <1>3, <2>1, <2>2 DEF TypeOK
<1> DEFINE cs == [k \in 0 .. n + 1 |-> IF k <= n THEN bs[k] ELSE ClearState]
<1>6. /\ n \in Nat /\ Len(es) = n + 1 /\ es[n + 1] = BookReset
      /\ \A k \in 1 .. n : es[k] = entries[k]
  BY <1>2
<1>7. /\ bs \in [0 .. n -> [EntryTypes -> SortedLists]] /\ bs[0] = lists
      /\ \A k \in 1 .. n : Takes(bs[k - 1], entries[k], bs[k])
  BY <1>1 DEF Course
<1> HIDE DEF n, es
<1>8. Course(cs, es, lists, ClearState)
  <2>1. cs \in [0 .. n + 1 -> [EntryTypes -> SortedLists]]
    <3>1. ASSUME NEW k \in 0 .. n + 1
          PROVE  cs[k] \in [EntryTypes -> SortedLists]
      <4>1. CASE k <= n
        BY <1>6, <1>7, <4>1
      <4>2. CASE ~(k <= n)
        BY <1>4, <4>2
      <4> QED  BY <4>1, <4>2
    <3> QED  BY <3>1
  <2>2. cs[0] = lists /\ cs[n + 1] = ClearState
    BY <1>6, <1>7
  <2>3. ASSUME NEW k \in 1 .. n + 1
        PROVE  Takes(cs[k - 1], es[k], cs[k])
    <3>1. CASE k <= n
      <4>1. k \in 1 .. n /\ cs[k] = bs[k] /\ cs[k - 1] = bs[k - 1] /\ es[k] = entries[k]
        BY <1>6, <3>1
      <4> QED  BY <1>7, <4>1
    <3>2. CASE ~(k <= n)
      <4>1. k = n + 1
        BY <1>6, <3>2
      <4> HIDE DEF cs
      <4> QED  BY <1>6, <2>2, <4>1 DEF Takes
    <3> QED  BY <3>1, <3>2
  <2> HIDE DEF cs
  <2> QED  BY <1>6, <2>1, <2>2, <2>3 DEF Course
<1>9. OnCourse'
  BY <1>3, <1>4, <1>8 DEF OnCourse
<1> QED  BY <1>5, <1>9 DEF BookInv

LEMMA IncrementalKeeps ==
  ASSUME BookInv, OnIncremental
  PROVE  BookInv' /\ Takes(lists, Head(entries), lists')
<1>1. PICK bs, es, shown, first :
        /\ es = entries /\ shown = Shown /\ first = lists
        /\ Course(bs, es, first, shown)
  BY DEF BookInv, OnCourse
<1>2. /\ full \in [EntryTypes -> Books] /\ lists \in [EntryTypes -> Lists]
      /\ entries \in Seq(Entries \cup {BookReset}) /\ Len(entries) <= MaxEntries
      /\ MaxEntries \in Nat
  BY BookAssumption DEF BookInv, TypeOK
<1>3. /\ entries # << >> /\ entries' = Tail(entries) /\ full' = full
      /\ lists' = IF Head(entries) = BookReset THEN ClearState
                  ELSE [lists EXCEPT ![Head(entries).type] = Edit(@, Head(entries))]
  BY DEF OnIncremental
<1>4. /\ Takes(first, Head(es), bs[1])
      /\ \E cs : Course(cs, Tail(es), bs[1], shown)
  BY <1>1, <1>2, <1>3, CourseShrinks
<1>5. bs[1] = lists' /\ Takes(lists, Head(entries), lists')
  BY <1>1, <1>3, <1>4 DEF Takes
<1>6. Shown' = Shown
  BY <1>3 DEF Shown
<1>7. OnCourse'
  BY <1>1, <1>3, <1>4, <1>5, <1>6 DEF OnCourse
<1>8. lists' \in [EntryTypes -> Lists]
  <2>1. Len(es) \in Nat /\ 1 \in 0 .. Len(es)
    BY <1>1, <1>2, <1>3
  <2>2. bs[1] \in [EntryTypes -> SortedLists]
    BY <1>1, <2>1 DEF Course
  <2> QED  BY <1>5, <2>2 DEF SortedLists
<1>9. TypeOK'
  <2>1. Tail(entries) \in Seq(Entries \cup {BookReset}) /\ Len(Tail(entries)) <= MaxEntries
    BY <1>2, <1>3
  <2> QED  BY <1>2, <1>3, <1>8, <2>1 DEF TypeOK
<1> QED  BY <1>5, <1>7, <1>9 DEF BookInv

\* Lists that show what the exchange shows, with nothing on the way.
LEMMA CourseOfNothing ==
  ASSUME full' \in [EntryTypes -> Books], entries' = << >>, lists' = Shown'
  PROVE  BookInv'
<1>1. Shown' = [t \in EntryTypes |-> Visible(full'[t])]
  BY DEF Shown
<1>2. Shown' \in [EntryTypes -> SortedLists]
  BY <1>1, VisibleSorted
<1>3. PICK shown : shown = Shown'
  OBVIOUS
<1> DEFINE bs == [k \in 0 .. 0 |-> shown]
<1>4. /\ bs \in [0 .. 0 -> [EntryTypes -> SortedLists]] /\ bs[0] = shown
      /\ Len(<< >>) = 0
  BY <1>2, <1>3
<1> HIDE DEF bs
<1>5. Course(bs, << >>, shown, shown)
  BY <1>4 DEF Course
<1>6. OnCourse'
  BY <1>3, <1>5 DEF OnCourse
<1>7. lists' \in [EntryTypes -> Lists]
  BY <1>2 DEF SortedLists
<1>8. << >> \in Seq(Entries \cup {BookReset}) /\ Len(<< >>) <= MaxEntries
  BY BookAssumption
<1> QED  BY <1>6, <1>7, <1>8 DEF BookInv, TypeOK

LEMMA SnapshotKeeps ==
  ASSUME BookInv, OnSnapshot
  PROVE  BookInv'
<1>1. full \in [EntryTypes -> Books]
  BY DEF BookInv, TypeOK
<1>2. /\ lists' = [t \in EntryTypes |-> Load(Visible(full[t]))]
      /\ entries' = << >> /\ full' = full
  BY DEF OnSnapshot
<1>3. \A t \in EntryTypes : Load(Visible(full[t])) = Visible(full[t])
  BY <1>1, VisibleSorted, LoadIsAll
<1>4. Shown' = [t \in EntryTypes |-> Visible(full[t])]
  BY <1>2 DEF Shown
<1>5. lists' = Shown'
  BY <1>2, <1>3, <1>4
<1> QED  BY <1>1, <1>2, <1>5, CourseOfNothing

LEMMA BookInvInit ==
  ASSUME Init
  PROVE  BookInv
<1>1. /\ full = [t \in EntryTypes |-> NoLevels] /\ entries = << >>
      /\ lists = [t \in EntryTypes |-> Clear]
  BY DEF Init, ClearState
<1>2. NoLevels \in Books /\ Visible(NoLevels) = Clear /\ Clear \in SortedLists
  BY NoLevelsAtAll, VisibleSorted
<1>3. lists = Shown /\ lists \in [EntryTypes -> SortedLists]
  BY <1>1, <1>2 DEF Shown
<1>4. PICK shown : shown = lists
  OBVIOUS
<1> DEFINE bs == [k \in 0 .. 0 |-> shown]
<1>5. /\ bs \in [0 .. 0 -> [EntryTypes -> SortedLists]] /\ bs[0] = shown
      /\ Len(<< >>) = 0
  BY <1>3, <1>4
<1> HIDE DEF bs
<1>6. Course(bs, << >>, shown, shown)
  BY <1>5 DEF Course
<1>7. OnCourse
  BY <1>1, <1>3, <1>4, <1>6 DEF OnCourse
<1>8. TypeOK
  <2>1. << >> \in Seq(Entries \cup {BookReset}) /\ Len(<< >>) <= MaxEntries
    BY BookAssumption
  <2>2. lists \in [EntryTypes -> Lists]
    BY <1>3 DEF SortedLists
  <2> QED  BY <1>1, <1>2, <2>1, <2>2 DEF TypeOK
<1> QED  BY <1>7, <1>8 DEF BookInv

LEMMA BookInvNext ==
  ASSUME BookInv, [Next]_vars
  PROVE  BookInv'
<1>1. CASE Exchange
  BY <1>1, InsertKeeps, AmendKeeps, WithdrawKeeps, SweepKeeps, CutOffKeeps, ResetKeeps
     DEF Exchange
<1>2. CASE OnIncremental
  BY <1>2, IncrementalKeeps
<1>3. CASE OnSnapshot
  BY <1>3, SnapshotKeeps
<1>4. CASE UNCHANGED vars
  BY <1>4 DEF vars, BookInv, TypeOK, OnCourse, Shown
<1> QED  BY <1>1, <1>2, <1>3, <1>4 DEF Next

(* The entries on the way always lead from the lists to what the exchange  *)
(* shows.                                                                  *)
THEOREM AlwaysOnCourse == Spec => []BookInv
<1>1. Init => BookInv
  BY BookInvInit
<1>2. BookInv /\ [Next]_vars => BookInv'
  BY BookInvNext
<1> QED  BY <1>1, <1>2, PTL DEF Spec
-----------------------------------------------------------------------------
(* The properties of the run.                                              *)

(* Every list holds at most Depth levels, whatever is published: the       *)
(* vectors DepthList reserves are never outgrown.                          *)
THEOREM DepthTypeCorrect == Spec => []TypeOK
<1>1. BookInv => TypeOK
  BY DEF BookInv
<1> QED  BY <1>1, AlwaysOnCourse, PTL

(* When every published entry is handled, each list is the best levels of  *)
(* the exchange's book.                                                    *)
THEOREM BooksMirrored == Spec => []MirrorsTheBook
<1>1. BookInv => MirrorsTheBook
  <2> SUFFICES ASSUME BookInv, entries = << >>, NEW t \in EntryTypes
               PROVE  lists[t] = Visible(full[t])
    BY DEF MirrorsTheBook
  <2>1. PICK bs : Course(bs, << >>, lists, Shown)
    BY DEF BookInv, OnCourse
  <2>2. lists = Shown
    <3>1. Len(<< >>) = 0
      OBVIOUS
    <3> QED  BY <2>1, <3>1 DEF Course
  <2> QED  BY <2>2 DEF Shown
<1> QED  BY <1>1, AlwaysOnCourse, PTL

(* Also half-way through a burst of entries the prices of a list are in    *)
(* order.                                                                  *)
THEOREM AlwaysInOrder == Spec => []AlwaysSorted
<1>1. BookInv => AlwaysSorted
  <2> SUFFICES ASSUME BookInv
               PROVE  AlwaysSorted
    OBVIOUS
  <2>1. PICK bs : Course(bs, entries, lists, Shown)
    BY DEF BookInv, OnCourse
  <2>2. Len(entries) \in Nat /\ 0 \in 0 .. Len(entries)
    BY DEF BookInv, TypeOK
  <2>3. lists \in [EntryTypes -> SortedLists]
    BY <2>1, <2>2 DEF Course
  <2> QED  BY <2>3 DEF AlwaysSorted, SortedLists
<1> QED  BY <1>1, AlwaysOnCourse, PTL

(* Every entry that is handled changes its list: none of the checks of     *)
(* Add, Update, Delete, DeleteFrom and DeleteThru ever refuses one.        *)
THEOREM EntriesTake == Spec => EveryEntryTakes
<1> DEFINE Step == OnIncremental /\ Head(entries) # BookReset
                     => lists'[Head(entries).type] # lists[Head(entries).type]
<1>1. BookInv /\ [Next]_vars => [Step]_vars
  <2> SUFFICES ASSUME BookInv, OnIncremental, Head(entries) # BookReset
               PROVE  lists'[Head(entries).type] # lists[Head(entries).type]
    OBVIOUS
  <2>1. Takes(lists, Head(entries), lists')
    BY IncrementalKeeps
  <2> QED  BY <2>1 DEF Takes
<1>2. EveryEntryTakes <=> [][Step]_vars
  BY DEF EveryEntryTakes
<1> HIDE DEF Step
<1> QED  BY <1>1, <1>2, AlwaysOnCourse, PTL DEF Spec
=============================================================================
