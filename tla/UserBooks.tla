---------------------------- MODULE UserBooks ----------------------------
(***************************************************************************)
(* How the items of a sync find their user books, one item after another:  *)
(* findOrCreateUserBookIDWithEdition (internal/sync/service.go) and the    *)
(* lookups, caches and mutations of internal/api/hardcover/client.go that  *)
(* it uses.                                                                *)
(*                                                                         *)
(* A user book is the reader's row for a book, and has one edition.  Two   *)
(* caches of the client last for a sync: by book, where "no user book" is  *)
(* kept too, and by edition.  Every request is a step, so the reader can   *)
(* change rows between any two.  What a row says of status and reads is    *)
(* the subject of FinishedReads and InProgressReads.                       *)
(***************************************************************************)
EXTENDS Naturals, FiniteSets

CONSTANTS Items, Editions,
          BookOf,    \* edition -> its book
          Rows,      \* ids of user books
          NoEdition, \* a row whose edition was never set
          NoItem,
          None,      \* the code's id 0: no user book
          Runs,      \* settings of a run: subsets of {"dry", "combined"}
          MaxSends,  \* times the client sends one request
          MaxRows,   \* bound on the rows before the first run
          MaxFaults, \* bound on the failing requests
          MaxStops,  \* bound on the syncs that are followed by another
          MaxEdits   \* bound on the changes by the reader

Books == {BookOf[e] : e \in Editions}

ASSUME UserBooksAssumption ==
  /\ BookOf \in [Editions -> Books] /\ NoEdition \notin Editions
  /\ NoItem \notin Items /\ None \notin Rows /\ None # "unknown"
  /\ Books \cap {"free", "removed"} = {}
  /\ Rows \cap {"unknown", "waiting", "wouldCreate", "failed"} = {}
  /\ MaxSends \in Nat \ {0} /\ {MaxRows, MaxFaults, MaxStops, MaxEdits} \subseteq Nat

Unknown == "unknown"  \* nothing cached
Free    == [book |-> "free", edition |-> NoEdition]     \* an id not used yet
Removed == [book |-> "removed", edition |-> NoEdition]  \* never used again

VARIABLES
  setup,     \* the run's settings, and the edition of every item
  shelf,     \* Hardcover: id -> row
  byBook,    \* userBookByBookIDCache
  byEdition, \* userBookIDCache
  item, pc,  \* the item being processed, and its next request
  found,     \* the user book the item has found so far
  sends,     \* times the current insertion was sent
  result,    \* item -> what became of it
  touched,   \* history: rows the reader changed during this sync
  budget     \* faults, syncs and edits so far

vars == <<setup, shelf, byBook, byEdition, item, pc, found, sends, result,
          touched, budget>>

Edition == setup.edition[item]
Book    == BookOf[Edition]
Dry     == "dry" \in setup.run

RowsOf(book)       == {id \in Rows : shelf[id].book = book}
RowsWith(edition)  == {id \in Rows : shelf[id].edition = edition}
Exists(id)         == shelf[id] \notin {Free, Removed}
RowSet == {[book |-> b, edition |-> NoEdition] : b \in Books}
            \cup {[book |-> BookOf[e], edition |-> e] : e \in Editions}

Init ==
  /\ \E run \in Runs, edition \in [Items -> Editions] :
       setup = [run |-> run, edition |-> edition]
  /\ shelf \in {s \in [Rows -> RowSet \cup {Free}] :
                  Cardinality({id \in Rows : s[id] # Free}) <= MaxRows}
  /\ byBook = [b \in Books |-> Unknown]
  /\ byEdition = [e \in Editions |-> Unknown]
  /\ item = NoItem /\ pc = "idle" /\ found = None /\ sends = 0
  /\ result = [i \in Items |-> "waiting"]
  /\ touched = {}
  /\ budget = [faults |-> 0, stops |-> 0, edits |-> 0]

Fault == /\ budget.faults < MaxFaults
         /\ budget' = [budget EXCEPT !.faults = @ + 1]

\* The item goes on with another request.
Ask(next) ==
  /\ pc' = next
  /\ UNCHANGED <<setup, item, result, touched>>

\* The item's part in this module ends.
End(outcome) ==
  /\ result' = [result EXCEPT ![item] = outcome]
  /\ item' = NoItem /\ pc' = "idle" /\ found' = None /\ sends' = 0
  /\ UNCHANGED <<setup, touched>>

Quietly == UNCHANGED <<found, sends>>

---------------------------------------------------------------------------
(* One item                                                                *)

\* The edition was matched, or GetEdition has it in its cache.
Start(i) ==
  /\ item = NoItem /\ result[i] = "waiting"
  /\ item' = i /\ pc' = "book"
  /\ UNCHANGED <<setup, shelf, byBook, byEdition, found, sends, result,
                 touched, budget>>

\* What the lookup by book is told: the cached answer, or one row of the book.
BookAnswers ==
  IF byBook[Book] # Unknown THEN {byBook[Book]}
  ELSE IF RowsOf(Book) = {} THEN {None} ELSE RowsOf(Book)

\* LookupUserBookByBookIDOnly keeps every answer, also that there is none.
LookupByBook ==
  /\ pc = "book"
  /\ \E id \in BookAnswers :
       /\ byBook' = [byBook EXCEPT ![Book] = id]
       /\ found' = id
       /\ Ask(IF id = None THEN "edition" ELSE "load")
  /\ UNCHANGED <<shelf, byEdition, sends, budget>>

\* An error of this lookup only leads to the next one.
LookupByBookFails ==
  /\ pc = "book" /\ byBook[Book] = Unknown
  /\ Fault
  /\ Ask("edition")
  /\ UNCHANGED <<shelf, byBook, byEdition, found, sends>>

\* With "combined" the reads come in the same answer; the plain request is
\* its fallback.  A user book the reader deleted is an error.
Load ==
  /\ pc = "load" /\ Exists(found)
  /\ IF shelf[found].edition = Edition \/ Dry
       THEN End(found)
       ELSE Ask("correct") /\ Quietly
  /\ UNCHANGED <<shelf, byBook, byEdition, budget>>

LoadFallsBack ==
  /\ pc = "load" /\ "combined" \in setup.run
  /\ Fault
  /\ Ask("loadPlain")
  /\ UNCHANGED <<shelf, byBook, byEdition, found, sends>>

LoadPlain ==
  /\ pc = "loadPlain" /\ Exists(found)
  /\ IF shelf[found].edition = Edition \/ Dry
       THEN End(found)
       ELSE Ask("correct") /\ Quietly
  /\ UNCHANGED <<shelf, byBook, byEdition, budget>>

LoadFails ==
  /\ \/ pc \in {"load", "loadPlain"} /\ ~Exists(found) /\ UNCHANGED budget
     \/ pc = "loadPlain" /\ Fault
     \/ pc = "load" /\ "combined" \notin setup.run /\ Fault
  /\ End("failed")
  /\ UNCHANGED <<shelf, byBook, byEdition>>

Corrected == [shelf EXCEPT ![found].edition = Edition]

\* UpdateUserBookEdition: one user book per book, whatever its edition was.
Correct ==
  /\ pc = "correct" /\ Exists(found)
  /\ shelf' = Corrected
  /\ End(found)
  /\ UNCHANGED <<byBook, byEdition, budget>>

\* Mutant: the item goes on with a user book that was not corrected.
Mut_CorrectFails ==
  /\ pc = "correct"
  /\ \/ ~Exists(found) /\ UNCHANGED <<shelf, budget>>
     \/ Exists(found) /\ Fault /\ shelf' \in {shelf, Corrected}
  /\ End(found)
  /\ UNCHANGED <<byBook, byEdition>>

CorrectFails ==
  /\ pc = "correct"
  /\ \/ ~Exists(found) /\ UNCHANGED <<shelf, budget>>
     \/ Exists(found) /\ Fault /\ shelf' \in {shelf, Corrected}
  /\ End("failed")
  /\ UNCHANGED <<byBook, byEdition>>

\* GetUserBookIDWithEdition keeps only ids; without one it asks again, by book
\* and edition, then by edition, which finds the same rows.
EditionAnswers ==
  IF byEdition[Edition] # Unknown THEN {byEdition[Edition]}
  ELSE IF RowsWith(Edition) = {} THEN {None} ELSE RowsWith(Edition)

LookupByEdition ==
  /\ pc \in {"edition", "recheck"}
  /\ \E id \in EditionAnswers :
       /\ byEdition' = IF id = None THEN byEdition
                                    ELSE [byEdition EXCEPT ![Edition] = id]
       /\ IF id # None THEN End(id)
          ELSE IF pc = "recheck" THEN End("failed")
          ELSE IF Dry THEN End("wouldCreate")
          ELSE Ask("insert") /\ Quietly
  /\ UNCHANGED <<shelf, byBook, budget>>

LookupByEditionFails ==
  /\ pc \in {"edition", "recheck"} /\ byEdition[Edition] = Unknown
  /\ Fault
  /\ End("failed")
  /\ UNCHANGED <<shelf, byBook, byEdition>>

---------------------------------------------------------------------------
(* The insertion                                                           *)

\* What Hardcover does with it: a conflict when the book has a row.
Inserted(id) ==
  /\ RowsOf(Book) = {} /\ shelf[id] = Free
  /\ shelf' = [shelf EXCEPT ![id] = [book |-> Book, edition |-> Edition]]

\* createUserBookWithEdition leaves both caches as they are.
Insert ==
  /\ pc = "insert"
  /\ \E id \in Rows : Inserted(id) /\ End(id)
  /\ UNCHANGED <<byBook, byEdition, budget>>

\* executeGraphQLOperation sends a request again when no answer came; the
\* mutation may have been applied.
InsertLost ==
  /\ pc = "insert"
  /\ Fault
  /\ UNCHANGED shelf \/ \E id \in Rows : Inserted(id)
  /\ sends' = sends + 1
  /\ Ask(IF sends + 1 < MaxSends THEN "insert" ELSE "recheck")
  /\ UNCHANGED <<byBook, byEdition, found>>

\* After an error that may hide an insertion, the edition is looked up again.
InsertRefused ==
  /\ pc = "insert" /\ RowsOf(Book) # {}
  /\ Ask("recheck")
  /\ UNCHANGED <<shelf, byBook, byEdition, found, sends, budget>>

---------------------------------------------------------------------------
(* The sync, and what happens around it                                    *)

\* discardDeletedUserBookRestoration: a later part of the item's processing
\* finds the user book gone, and forgets both caches.
FindGone(i) ==
  /\ item = NoItem /\ result[i] \in Rows /\ ~Exists(result[i])
  /\ result' = [result EXCEPT ![i] = "failed"]
  /\ byBook' = [b \in Books |-> Unknown]
  /\ byEdition' = [e \in Editions |-> Unknown]
  /\ UNCHANGED <<setup, shelf, item, pc, found, sends, touched, budget>>

\* A sync ends, is canceled or crashes, and another one begins: Sync and
\* syncBook clear the caches, and the client of a new run has its own.
BeginRun ==
  /\ budget.stops < MaxStops
  /\ budget' = [budget EXCEPT !.stops = @ + 1]
  /\ \E run \in Runs : setup' = [setup EXCEPT !.run = run]
  /\ byBook' = [b \in Books |-> Unknown]
  /\ byEdition' = [e \in Editions |-> Unknown]
  /\ item' = NoItem /\ pc' = "idle" /\ found' = None /\ sends' = 0
  /\ result' = [i \in Items |-> "waiting"]
  /\ touched' = {}
  /\ UNCHANGED shelf

\* On Hardcover the reader adds a book, removes one, or chooses an edition.
ReaderEdits ==
  /\ budget.edits < MaxEdits
  /\ budget' = [budget EXCEPT !.edits = @ + 1]
  /\ \E id \in Rows, row \in RowSet \cup {Removed} :
       /\ \/ Exists(id) /\ row = Removed
          \/ Exists(id) /\ row.book = shelf[id].book /\ row # shelf[id]
          \/ shelf[id] = Free /\ row \in RowSet /\ RowsOf(row.book) = {}
       /\ shelf' = [shelf EXCEPT ![id] = row]
       /\ touched' = touched \cup {id}
  /\ UNCHANGED <<setup, byBook, byEdition, item, pc, found, sends, result>>

FindUserBook ==
  \/ LookupByBook \/ LookupByBookFails
  \/ Load \/ LoadFallsBack \/ LoadPlain \/ LoadFails
  \/ Correct \/ CorrectFails
  \/ LookupByEdition \/ LookupByEditionFails

Done == /\ \A i \in Items : result[i] # "waiting"
        /\ item = NoItem
        /\ UNCHANGED vars

Next ==
  \/ \E i \in Items : Start(i) \/ FindGone(i)
  \/ FindUserBook
  \/ Insert \/ InsertLost \/ InsertRefused
  \/ BeginRun \/ ReaderEdits \/ Done

Spec == Init /\ [][Next]_vars

---------------------------------------------------------------------------
(* Properties                                                              *)

\* Progress and status are written to a user book that has the item's
\* edition: neither an id kept in a cache, which another item of the sync may
\* have moved to its own edition since, nor a correction that failed lets an
\* item go on with a row of another edition.  (A row the reader changed during
\* the sync may differ, and a dry run corrects nothing.)
ResolvedHasEdition ==
  [][\A i \in Items :
       (result'[i] # result[i] /\ result'[i] \in Rows \ touched' /\ ~Dry)
         => shelf'[result'[i]].edition = setup.edition[i]]_vars

\* service.go:1330: "This prevents creating multiple user books for the same
\* book with different editions".  An insertion is only asked for when the
\* book has no user book.
OneUserBookPerBook == pc = "insert" /\ sends = 0 => RowsOf(Book) = {}
=============================================================================
