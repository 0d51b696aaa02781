-------------------------- MODULE UserBooks_proofs --------------------------
(***************************************************************************)
(* ResolvedHasEdition for every number of items, editions, user books,     *)
(* faults, syncs and changes by the reader.  What makes it true is that an *)
(* edition's cached user book may only be out of date once the book's user *)
(* book is cached too, and that item never asks by edition then.           *)
(***************************************************************************)
EXTENDS UserBooks, TLAPS

---------------------------------------------------------------------------
(* The invariant                                                           *)

Types ==
  /\ setup \in [run : Runs, edition : [Items -> Editions]]
  /\ shelf \in [Rows -> RowSet \cup {Free, Removed}]
  /\ byBook \in [Books -> Rows \cup {None, Unknown}]
  /\ byEdition \in [Editions -> Rows \cup {Unknown}]
  /\ item \in Items \cup {NoItem}
  /\ pc \in {"idle", "book", "load", "loadPlain", "correct", "edition",
             "insert", "recheck"}
  /\ pc = "idle" <=> item = NoItem
  /\ result \in [Items -> Rows \cup {"waiting", "wouldCreate", "failed"}]
  /\ touched \subseteq Rows

\* The caches name rows of their book, or removed ones; a row that was moved
\* to another edition is only named where the lookup by book comes first.
Caches ==
  /\ \A b \in Books :
       byBook[b] \in Rows => shelf[byBook[b]].book \in {b, "removed"}
  /\ \A e \in Editions :
       byEdition[e] \in Rows =>
         /\ shelf[byEdition[e]].book \in {BookOf[e], "removed"}
         /\ \/ byEdition[e] \in touched
            \/ shelf[byEdition[e]].edition = e
            \/ byBook[BookOf[e]] \in Rows

\* An item has the book's cached user book, or the book has none cached.
Position ==
  /\ pc \in {"load", "loadPlain", "correct"} =>
       found \in Rows /\ byBook[Book] = found
  /\ pc \in {"edition", "insert", "recheck"} => byBook[Book] \notin Rows

IInv == Types /\ Caches /\ Position

---------------------------------------------------------------------------
(* Rows                                                                    *)

\* The constants that the proofs compare.
LEMMA Distinct ==
  /\ "unknown" \notin Rows /\ None \notin Rows /\ NoItem \notin Items
  /\ "waiting" \notin Rows /\ "wouldCreate" \notin Rows /\ "failed" \notin Rows
  /\ \A e \in Editions : BookOf[e] \in Books /\ BookOf[e] # "free"
BY UserBooksAssumption DEF Books

\* The item at hand has an edition and a book.
LEMMA HasEdition ==
  ASSUME Types, pc # "idle"
  PROVE  item \in Items /\ Edition \in Editions /\ Book \in Books
BY Distinct DEF Types, Edition, Book

\* A row with an edition is a row of its book.
LEMMA EditionRow ==
  ASSUME Types, NEW e \in Editions, NEW id \in RowsWith(e)
  PROVE  id \in Rows /\ shelf[id].book = BookOf[e] /\ shelf[id].edition = e
BY UserBooksAssumption DEF RowsWith, Types, RowSet, Free, Removed

\* What an insertion that is applied does to the shelf.
LEMMA InsertedRow ==
  ASSUME Types, pc # "idle", NEW id \in Rows, Inserted(id)
  PROVE  /\ shelf' \in [Rows -> RowSet \cup {Free, Removed}]
         /\ shelf[id].book = "free" /\ shelf'[id].edition = Edition
         /\ \A x \in Rows \ {id} : shelf'[x] = shelf[x]
<1>1. [book |-> Book, edition |-> Edition] \in RowSet
  BY HasEdition DEF RowSet, Book
<1> QED BY <1>1 DEF Inserted, Types, Free

\* What a correction does to the shelf.
LEMMA CorrectedRow ==
  ASSUME Types, pc # "idle", found \in Rows, Exists(found),
         shelf[found].book \in {Book, "removed"}, shelf' = Corrected
  PROVE  /\ shelf' \in [Rows -> RowSet \cup {Free, Removed}]
         /\ shelf'[found].edition = Edition
         /\ shelf'[found].book = shelf[found].book
         /\ \A x \in Rows \ {found} : shelf'[x] = shelf[x]
<1>1. shelf[found] \in RowSet /\ Edition \in Editions
  BY HasEdition DEF Exists, Types
<1>2. shelf[found].book \in Books
  BY <1>1, UserBooksAssumption DEF RowSet
<1>3. shelf[found].book = Book BY <1>2, UserBooksAssumption
<1>4. shelf' = [shelf EXCEPT ![found] = [book |-> BookOf[Edition], edition |-> Edition]]
  <2>1. PICK e : shelf[found] = [book |-> Book, edition |-> e]
    <3>1. CASE \E b \in Books : shelf[found] = [book |-> b, edition |-> NoEdition]
      BY <1>3, <3>1
    <3>2. CASE \E x \in Editions : shelf[found] = [book |-> BookOf[x], edition |-> x]
      BY <1>3, <3>2
    <3> QED BY <1>1, <3>1, <3>2 DEF RowSet
  <2>2. [shelf[found] EXCEPT !.edition = Edition] = [book |-> Book, edition |-> Edition]
    BY <2>1
  <2> QED BY <2>2 DEF Corrected, Book
<1>5. [book |-> BookOf[Edition], edition |-> Edition] \in RowSet
  BY <1>1 DEF RowSet
<1> QED BY <1>3, <1>4, <1>5 DEF Types, Book

---------------------------------------------------------------------------
(* The steps                                                               *)

\* The invariant holds at first.
LEMMA InitIInv == Init => IInv
<1> SUFFICES ASSUME Init PROVE IInv OBVIOUS
<1>1. Types BY DEF Init, Types
<1>2. Caches /\ Position BY Distinct DEF Init, Caches, Position, Unknown
<1> QED BY <1>1, <1>2 DEF IInv

\* Types that an item's step keeps, where it changes neither row nor cache.
LEMMA StepTypes ==
  ASSUME IInv, [Next]_vars
  PROVE  Types'
<1> USE DEF IInv
<1>1. ASSUME NEW i \in Items, Start(i) PROVE Types'
  BY <1>1, Distinct DEF Start, Types
<1>2. ASSUME NEW i \in Items, FindGone(i) PROVE Types'
  BY <1>2 DEF FindGone, Types
<1>3. CASE LookupByBook
  <2>1. Book \in Books /\ item # NoItem BY <1>3, HasEdition DEF LookupByBook, Types
  <2>2. BookAnswers \subseteq Rows \cup {None}
    BY <2>1 DEF BookAnswers, Types, RowsOf
  <2> QED BY <1>3, <2>1, <2>2 DEF LookupByBook, Ask, Types
<1>4. CASE LookupByBookFails
  BY <1>4 DEF LookupByBookFails, Ask, Types
<1>5. CASE Load
  <2>1. item \in Items /\ found \in Rows BY <1>5, HasEdition DEF Load, Position
  <2> QED BY <1>5, <2>1 DEF Load, Ask, End, Quietly, Types
<1>6. CASE LoadFallsBack
  BY <1>6 DEF LoadFallsBack, Ask, Types
<1>7. CASE LoadPlain
  <2>1. item \in Items /\ found \in Rows BY <1>7, HasEdition DEF LoadPlain, Position
  <2> QED BY <1>7, <2>1 DEF LoadPlain, Ask, End, Quietly, Types
<1>8. CASE LoadFails
  <2>1. item \in Items BY <1>8, HasEdition DEF LoadFails
  <2> QED BY <1>8, <2>1 DEF LoadFails, End, Types
<1>9. CASE Correct \/ CorrectFails
  <2>1. item \in Items /\ found \in Rows /\ byBook[Book] = found /\ Book \in Books
        /\ pc # "idle"
    BY <1>9, HasEdition DEF Correct, CorrectFails, Position
  <2>2. shelf' = shelf \/ (shelf' = Corrected /\ Exists(found))
    BY <1>9 DEF Correct, CorrectFails
  <2>3. shelf' \in [Rows -> RowSet \cup {Free, Removed}]
    BY <2>1, <2>2, CorrectedRow DEF Caches, Types
  <2> QED BY <1>9, <2>1, <2>3 DEF Correct, CorrectFails, End, Types
<1>10. CASE LookupByEdition
  <2>1. item \in Items /\ Edition \in Editions BY <1>10, HasEdition DEF LookupByEdition
  <2>2. EditionAnswers \subseteq Rows \cup {None}
    BY <2>1 DEF EditionAnswers, Types, RowsWith
  <2>3. PICK id \in EditionAnswers :
          /\ byEdition' = IF id = None THEN byEdition
                                       ELSE [byEdition EXCEPT ![Edition] = id]
          /\ IF id # None THEN End(id)
             ELSE IF pc = "recheck" THEN End("failed")
             ELSE IF Dry THEN End("wouldCreate")
             ELSE Ask("insert") /\ Quietly
    BY <1>10 DEF LookupByEdition
  <2>4. byEdition' \in [Editions -> Rows \cup {Unknown}]
    BY <2>1, <2>2, <2>3 DEF Types
  <2>5. UNCHANGED <<shelf, byBook, setup, touched>>
    BY <1>10 DEF LookupByEdition, Ask, End
  <2>6. CASE id # None
    BY <2>1, <2>2, <2>3, <2>4, <2>5, <2>6 DEF End, Types
  <2>7. CASE id = None /\ (End("failed") \/ End("wouldCreate"))
    BY <2>1, <2>4, <2>5, <2>7 DEF End, Types
  <2>8. CASE id = None /\ Ask("insert")
    BY <1>10, <2>4, <2>5, <2>8 DEF LookupByEdition, Ask, Types
  <2> QED BY <2>3, <2>6, <2>7, <2>8
<1>11. CASE LookupByEditionFails
  <2>1. item \in Items BY <1>11, HasEdition DEF LookupByEditionFails
  <2> QED BY <1>11, <2>1 DEF LookupByEditionFails, End, Types
<1>12. CASE Insert
  <2>1. item \in Items /\ pc # "idle" BY <1>12, HasEdition DEF Insert
  <2>2. PICK id \in Rows : Inserted(id) /\ End(id) BY <1>12 DEF Insert
  <2> QED BY <1>12, <2>1, <2>2, InsertedRow DEF Insert, End, Types
<1>13. CASE InsertLost
  <2>1. shelf' \in [Rows -> RowSet \cup {Free, Removed}]
    BY <1>13, InsertedRow DEF InsertLost, Types
  <2> QED BY <1>13, <2>1 DEF InsertLost, Ask, Types
<1>14. CASE InsertRefused
  BY <1>14 DEF InsertRefused, Ask, Types
<1>15. CASE BeginRun
  BY <1>15 DEF BeginRun, Types
<1>16. CASE ReaderEdits
  BY <1>16 DEF ReaderEdits, Types
<1>17. CASE UNCHANGED vars
  BY <1>17 DEF vars, Types
<1> QED
  BY <1>1, <1>2, <1>3, <1>4, <1>5, <1>6, <1>7, <1>8, <1>9, <1>10, <1>11,
     <1>12, <1>13, <1>14, <1>15, <1>16, <1>17
  DEF Next, FindUserBook, Done

\* Only a correction, an insertion and the reader change rows.
LEMMA StepCaches ==
  ASSUME IInv, [Next]_vars
  PROVE  Caches'
<1> USE DEF IInv
<1>1. ASSUME UNCHANGED <<shelf, byBook, byEdition, touched>> PROVE Caches'
  BY <1>1 DEF Caches
<1>2. ASSUME byBook' = [b \in Books |-> Unknown], byEdition' = [e \in Editions |-> Unknown]
      PROVE  Caches'
  BY <1>2, Distinct DEF Caches, Unknown
<1>3. CASE LookupByBook
  <2>1. Book \in Books /\ UNCHANGED <<shelf, byEdition, touched>>
    BY <1>3, HasEdition DEF LookupByBook, Ask
  <2>2. PICK id \in BookAnswers : byBook' = [byBook EXCEPT ![Book] = id]
    BY <1>3 DEF LookupByBook
  <2>3. id \in Rows => shelf[id].book \in {Book, "removed"}
    BY <2>1, <2>2, Distinct DEF BookAnswers, RowsOf, Caches, Types
  <2>4. byBook[Book] \in Rows => id = byBook[Book]
    BY <2>2, Distinct DEF BookAnswers, Unknown
  <2>5. \A b \in Books : byBook'[b] = IF b = Book THEN id ELSE byBook[b]
    BY <2>1, <2>2 DEF Types
  <2> QED BY <2>1, <2>3, <2>4, <2>5, Distinct DEF Caches
<1>4. CASE Correct \/ CorrectFails
  <2>1. /\ found \in Rows /\ byBook[Book] = found /\ Book \in Books /\ pc # "idle"
        /\ UNCHANGED <<byBook, byEdition, touched>>
    BY <1>4, HasEdition DEF Correct, CorrectFails, Position, End
  <2>2. shelf' = shelf \/ (shelf' = Corrected /\ Exists(found))
    BY <1>4 DEF Correct, CorrectFails
  <2>3. CASE shelf' = shelf BY <1>1, <2>1, <2>3
  <2>4. CASE shelf' = Corrected /\ Exists(found)
    <3>1. /\ shelf'[found].book = shelf[found].book
          /\ \A x \in Rows \ {found} : shelf'[x] = shelf[x]
      BY <2>1, <2>4, CorrectedRow DEF Caches
    <3>2. shelf[found].book = Book
      <4>1. shelf[found] \in RowSet BY <2>1, <2>4 DEF Exists, Types
      <4>2. shelf[found].book \in Books BY <4>1, UserBooksAssumption DEF RowSet
      <4> QED BY <2>1, <4>2, UserBooksAssumption DEF Caches
    <3>3. ASSUME NEW e \in Editions, byEdition[e] = found
          PROVE  BookOf[e] = Book
      BY <2>1, <3>2, <3>3, UserBooksAssumption DEF Caches
    <3> QED BY <2>1, <3>1, <3>3 DEF Caches
  <2> QED BY <2>2, <2>3, <2>4
<1>5. CASE LookupByEdition
  <2>1. Edition \in Editions /\ UNCHANGED <<shelf, byBook, touched>>
    BY <1>5, HasEdition DEF LookupByEdition, Ask, End
  <2>2. PICK id \in EditionAnswers :
          byEdition' = IF id = None THEN byEdition ELSE [byEdition EXCEPT ![Edition] = id]
    BY <1>5 DEF LookupByEdition
  <2>3. CASE byEdition[Edition] # Unknown \/ id = None
    <3>1. byEdition' = byEdition BY <2>1, <2>2, <2>3 DEF EditionAnswers, Types
    <3> QED BY <1>1, <2>1, <3>1
  <2>4. CASE byEdition[Edition] = Unknown /\ id # None
    <3>1. id \in RowsWith(Edition) BY <2>2, <2>4 DEF EditionAnswers
    <3>2. shelf[id].book = BookOf[Edition] /\ shelf[id].edition = Edition
      BY <2>1, <3>1, EditionRow
    <3>3. \A e \in Editions : byEdition'[e] = IF e = Edition THEN id ELSE byEdition[e]
      BY <2>1, <2>2, <2>4 DEF Types
    <3> QED BY <2>1, <3>2, <3>3 DEF Caches
  <2> QED BY <2>3, <2>4
<1>6. ASSUME NEW id \in Rows, Inserted(id), pc = "insert",
             UNCHANGED <<byBook, byEdition, touched>>
      PROVE  Caches'
  <2>1. /\ shelf[id].book = "free"
        /\ \A x \in Rows \ {id} : shelf'[x] = shelf[x]
    BY <1>6, InsertedRow
  <2>2. \A b \in Books : byBook[b] # id
    BY <2>1, UserBooksAssumption DEF Caches
  <2>3. \A e \in Editions : byEdition[e] # id
    BY <2>1, Distinct DEF Caches
  <2> QED BY <1>6, <2>1, <2>2, <2>3 DEF Caches
<1>7. CASE Insert
  BY <1>6, <1>7 DEF Insert, End
<1>8. CASE InsertLost
  BY <1>1, <1>6, <1>8 DEF InsertLost, Ask
<1>9. CASE ReaderEdits
  <2>1. PICK id \in Rows, row \in RowSet \cup {Removed} :
          /\ \/ Exists(id) /\ row = Removed
             \/ Exists(id) /\ row.book = shelf[id].book /\ row # shelf[id]
             \/ shelf[id] = Free /\ row \in RowSet /\ RowsOf(row.book) = {}
          /\ shelf' = [shelf EXCEPT ![id] = row]
          /\ touched' = touched \cup {id}
    BY <1>9 DEF ReaderEdits
  <2>2. UNCHANGED <<byBook, byEdition>> BY <1>9 DEF ReaderEdits
  <2>3. /\ shelf'[id] = row
        /\ \A x \in Rows \ {id} : shelf'[x] = shelf[x]
    BY <2>1 DEF Types
  <2>4. CASE row.book \in {shelf[id].book, "removed"}
    BY <2>1, <2>2, <2>3, <2>4 DEF Caches
  <2>5. CASE shelf[id].book = "free"
    <3>1. \A b \in Books : byBook[b] # id
      BY <2>5, UserBooksAssumption DEF Caches
    <3>2. \A e \in Editions : byEdition[e] # id
      BY <2>5, Distinct DEF Caches
    <3> QED BY <2>1, <2>2, <2>3, <3>1, <3>2 DEF Caches
  <2> QED BY <2>1, <2>4, <2>5 DEF Removed, Free
<1>10. CASE Load \/ LoadPlain
  BY <1>1, <1>10 DEF Load, LoadPlain, Ask, End
<1>11. CASE \/ LookupByBookFails \/ LoadFallsBack \/ LoadFails
            \/ LookupByEditionFails \/ InsertRefused \/ UNCHANGED vars
            \/ \E i \in Items : Start(i)
  BY <1>1, <1>11 DEF LookupByBookFails, LoadFallsBack, LoadFails,
     LookupByEditionFails, InsertRefused, Start, Ask, End, vars
<1>12. CASE BeginRun \/ \E i \in Items : FindGone(i)
  BY <1>2, <1>12 DEF BeginRun, FindGone
<1> QED
  BY <1>3, <1>4, <1>5, <1>7, <1>8, <1>9, <1>10, <1>11, <1>12
  DEF Next, FindUserBook, Done

\* The lookup by edition begins only where no user book of the book is cached.
LEMMA StepPosition ==
  ASSUME IInv, [Next]_vars
  PROVE  Position'
<1> USE DEF IInv
<1>1. CASE LookupByBook
  <2>1. PICK id \in BookAnswers :
          /\ byBook' = [byBook EXCEPT ![Book] = id] /\ found' = id
          /\ pc' = IF id = None THEN "edition" ELSE "load"
          /\ UNCHANGED <<setup, item>>
    BY <1>1 DEF LookupByBook, Ask
  <2>2. Book \in Books BY <1>1, HasEdition DEF LookupByBook
  <2>3. BookAnswers \subseteq Rows \cup {None}
    BY <2>2 DEF BookAnswers, Types, RowsOf
  <2>4. Book' = Book BY <2>1 DEF Book, Edition
  <2>5. byBook'[Book'] = id BY <2>1, <2>2, <2>4 DEF Types
  <2> QED BY <2>1, <2>3, <2>5, Distinct DEF Position
<1>2. ASSUME UNCHANGED <<setup, item, byBook>> PROVE byBook'[Book'] = byBook[Book]
  BY <1>2 DEF Book, Edition
<1>3. CASE LookupByBookFails
  <2>1. byBook'[Book'] = Unknown /\ pc' = "edition"
    BY <1>2, <1>3 DEF LookupByBookFails, Ask
  <2> QED BY <2>1, Distinct DEF Position, Unknown
<1>4. CASE Load \/ LoadPlain \/ LoadFallsBack
  BY <1>2, <1>4 DEF Load, LoadPlain, LoadFallsBack, Ask, End, Quietly, Position
<1>5. CASE LookupByEdition \/ InsertLost \/ InsertRefused
  BY <1>2, <1>5 DEF LookupByEdition, InsertLost, InsertRefused, Ask, End,
     Quietly, Position
<1>6. ASSUME pc' = "idle" PROVE Position' BY <1>6 DEF Position
<1>7. CASE LoadFails \/ Correct \/ CorrectFails \/ LookupByEditionFails
           \/ Insert \/ BeginRun
  BY <1>6, <1>7 DEF LoadFails, Correct, CorrectFails, LookupByEditionFails,
     Insert, BeginRun, End
<1>8. CASE \E i \in Items : Start(i)
  BY <1>8 DEF Start, Position
<1>9. CASE \E i \in Items : FindGone(i)
  BY <1>6, <1>9 DEF FindGone, Types
<1>10. CASE ReaderEdits \/ UNCHANGED vars
  BY <1>2, <1>10 DEF ReaderEdits, vars, Position
<1> QED
  BY <1>1, <1>3, <1>4, <1>5, <1>7, <1>8, <1>9, <1>10
  DEF Next, FindUserBook, Done

\* A user book that an item ends with has the item's edition.
LEMMA StepResolved ==
  ASSUME IInv, [Next]_vars, NEW i \in Items,
         result'[i] # result[i], result'[i] \in Rows \ touched', ~Dry
  PROVE  shelf'[result'[i]].edition = setup.edition[i]
<1> USE DEF IInv
<1>1. ASSUME NEW outcome, End(outcome), pc # "idle"
      PROVE  i = item /\ result'[i] = outcome /\ UNCHANGED touched
  BY <1>1, HasEdition DEF End, Types
<1>2. CASE Load \/ LoadPlain
  <2>1. /\ shelf[found].edition = Edition /\ End(found) /\ pc # "idle"
        /\ UNCHANGED shelf
    BY <1>2 DEF Load, LoadPlain, Ask
  <2> QED BY <1>1, <2>1 DEF Edition
<1>3. CASE Correct
  <2>1. found \in Rows /\ shelf'[found].edition = Edition /\ End(found) /\ pc # "idle"
    BY <1>3, HasEdition, CorrectedRow DEF Correct, Caches, Position
  <2> QED BY <1>1, <2>1 DEF Edition
<1>4. CASE LookupByEdition
  <2>1. Edition \in Editions /\ pc # "idle" /\ byBook[Book] \notin Rows /\ UNCHANGED shelf
    BY <1>4, HasEdition DEF LookupByEdition, Position
  <2>2. PICK id \in EditionAnswers : End(id) /\ id # None
    BY <1>1, <1>4, <2>1, Distinct DEF LookupByEdition, Ask
  <2>3. i = item /\ result'[i] = id /\ UNCHANGED touched BY <1>1, <2>1, <2>2
  <2>4. CASE byEdition[Edition] # Unknown
    <3>1. id = byEdition[Edition] BY <2>2, <2>4 DEF EditionAnswers
    <3> QED BY <2>1, <2>3, <3>1 DEF Caches, Book, Edition
  <2>5. CASE byEdition[Edition] = Unknown
    <3>1. id \in RowsWith(Edition) BY <2>2, <2>5 DEF EditionAnswers
    <3> QED BY <2>1, <2>3, <3>1 DEF RowsWith, Edition
  <2> QED BY <2>4, <2>5
<1>5. CASE Insert
  <2>1. pc # "idle" BY <1>5 DEF Insert
  <2>2. PICK id \in Rows : Inserted(id) /\ End(id) BY <1>5 DEF Insert
  <2>3. shelf'[id].edition = Edition BY <2>1, <2>2, InsertedRow
  <2> QED BY <1>1, <2>1, <2>2, <2>3 DEF Edition
<1>6. CASE LoadFails \/ CorrectFails \/ LookupByEditionFails
  <2>1. End("failed") /\ pc # "idle"
    BY <1>6 DEF LoadFails, CorrectFails, LookupByEditionFails
  <2> QED BY <1>1, <2>1, Distinct
<1>7. CASE BeginRun
  BY <1>7, Distinct DEF BeginRun
<1>8. ASSUME NEW j \in Items, FindGone(j) PROVE FALSE
  BY <1>8, Distinct DEF FindGone, Types
<1>9. UNCHANGED result => FALSE OBVIOUS
<1> QED
  BY <1>2, <1>3, <1>4, <1>5, <1>6, <1>7, <1>8, <1>9
  DEF Next, FindUserBook, Done, Start, LookupByBook, LookupByBookFails,
      LoadFallsBack, InsertLost, InsertRefused, ReaderEdits, Ask, vars

\* Every step keeps the invariant.
LEMMA StepIInv == IInv /\ [Next]_vars => IInv'
BY StepTypes, StepCaches, StepPosition DEF IInv

\* No item goes on with a user book of another edition, unless the reader made
\* it so during the sync or the run is dry: for every order of the items, with
\* whatever the caches remember of the earlier ones and whichever requests
\* fail, are lost or are sent again.
THEOREM EditionsResolved == Spec => ResolvedHasEdition
<1>1. IInv /\ [Next]_vars =>
        [\A i \in Items :
           (result'[i] # result[i] /\ result'[i] \in Rows \ touched' /\ ~Dry)
             => shelf'[result'[i]].edition = setup.edition[i]]_vars
  BY StepResolved
<1> QED BY InitIInv, StepIInv, <1>1, PTL DEF Spec, ResolvedHasEdition
=============================================================================
