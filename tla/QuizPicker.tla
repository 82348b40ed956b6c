----------------------------- MODULE QuizPicker -----------------------------
(***************************************************************************)
(* QuizSettingModal and its QuizSetSearchList: the host pages through the  *)
(* quiz sets, by react-query's useInfiniteQuery, and picks one for the     *)
(* room.  A page is read in up to three queries, between which the sets    *)
(* may be written.                                                         *)
(***************************************************************************)
EXTENDS QuizSets

CONSTANTS
  PageSize,   (* SEARCH_COUNT: 10                                            *)
  NoCursor    (* what the controller makes of an empty cursor: 1             *)

ASSUME PickerBounds == PageSize \in Nat \ {0} /\ NoCursor \in Nat

VARIABLES
  searching,  (* a word was typed, or the field is empty; one per behaviour  *)
  pages,      (* data.pages                                                  *)
  fetch,      (* the fetch that is running                                   *)
  picked,     (* selectedQuizSet and quizCount                               *)
  room,       (* quizSetId and quizCount of Room:<id>                        *)
  steady      (* history: sets the list should have shown all along          *)

picker == <<searching, pages, fetch, picked, room, steady>>

NoFetch == [at |-> "none", got |-> << >>, want |-> 0, found |-> {}, rows |-> << >>]
Nothing == [id |-> 0, max |-> 0, count |-> 0]

PickerInit ==
  /\ searching \in BOOLEAN
  /\ pages = << >> /\ fetch = NoFetch /\ picked = Nothing /\ room = [id |-> 0, count |-> 0]
  /\ steady = {id \in Ids : sets[id].live /\ (searching => sets[id].hit)}

(* With the catalog written by somebody else.                               *)
PickerWatches == steady' = {id \in steady : sets'[id].live /\ (searching => sets'[id].hit)}
                 /\ UNCHANGED <<searching, pages, fetch, picked, room>>

-----------------------------------------------------------------------------
(* useInfiniteQuery: a fetch that starts while one runs replaces it         *)

Fetch(got, want) ==
  /\ fetch' = [NoFetch EXCEPT !.at = IF searching THEN "search" ELSE "rows", !.got = got, !.want = want]
  /\ UNCHANGED <<searching, pages, picked, room, steady, catalog>>

(* The modal opens, or the window gets the focus: the pages shown are read  *)
(* again from the first.                                                    *)
Refetch == fetch = NoFetch /\ Fetch(<< >>, Max({1, Len(pages)}))

(* onIntersect.                                                             *)
ScrolledDown == pages # << >> /\ Last(pages).more /\ Fetch(pages, Len(pages) + 1)

-----------------------------------------------------------------------------
(* One page                                                                 *)

Search ==
  /\ fetch.at = "search"
  /\ fetch' = [fetch EXCEPT !.at = "rows", !.found = SearchTargets]
  /\ UNCHANGED <<searching, pages, picked, room, steady, catalog>>

Cursor == IF fetch.got = << >> THEN NoCursor ELSE Last(fetch.got).next
Page(rows, counts, next) == [rows |-> rows, counts |-> counts, next |-> next, more |-> next # 0]

(* The data of the list is replaced when the last page has come.            *)
Received(pg) ==
  LET got == Append(fetch.got, pg) IN
  IF Len(got) < fetch.want /\ pg.more
  THEN /\ fetch' = [fetch EXCEPT !.at = IF searching THEN "search" ELSE "rows", !.got = got,
                                 !.found = {}, !.rows = << >>]
       /\ UNCHANGED pages
  ELSE pages' = got /\ fetch' = NoFetch

(* One row more than a page, to know whether there is a next one.           *)
ReadRows ==
  LET rows == Rows(IF searching THEN fetch.found ELSE Ids, Cursor, PageSize + 1) IN
  /\ fetch.at = "rows"
  /\ IF rows = << >> THEN Received(Page(<< >>, << >>, 0))
     ELSE fetch' = [fetch EXCEPT !.at = "counts", !.rows = rows] /\ UNCHANGED pages
  /\ UNCHANGED <<searching, picked, room, steady, catalog>>

(* Fault: the cursor of the row that was read to look ahead.                *)
NextCursorAhead(rows) == IF Len(rows) > PageSize THEN Last(rows) ELSE 0
NextCursor(rows) == IF Len(rows) > PageSize THEN rows[PageSize] ELSE 0

ReadCounts ==
  LET kept == InFirst(fetch.rows, PageSize) IN
  /\ fetch.at = "counts"
  /\ Received(Page(kept, [i \in DOMAIN kept |-> QuizCount(kept[i])], NextCursor(fetch.rows)))
  /\ UNCHANGED <<searching, picked, room, steady, catalog>>

FetchSteps == Search \/ ReadRows \/ ReadCounts

-----------------------------------------------------------------------------
(* Picking                                                                  *)

(* A click offers all quizzes the set had when its page was read, ...       *)
Select(p, i) ==
  /\ i \in DOMAIN pages[p].rows
  /\ picked' = [id |-> pages[p].rows[i], max |-> pages[p].counts[i], count |-> pages[p].counts[i]]
  /\ UNCHANGED <<searching, pages, fetch, room, steady, catalog>>

(* ... the slider fewer, ...                                                *)
Slide(n) ==
  /\ n \in 1..picked.max /\ picked' = [picked EXCEPT !.count = n]
  /\ UNCHANGED <<searching, pages, fetch, room, steady, catalog>>

(* ... and handleChangeSetting has updateRoomQuizset store it in the room.  *)
(* The modal closes with what it held.                                      *)
Confirm ==
  /\ picked.id # 0
  /\ room' = [id |-> picked.id, count |-> picked.count] /\ picked' = Nothing
  /\ UNCHANGED <<searching, pages, fetch, steady, catalog>>

Picking ==
  \/ Refetch \/ ScrolledDown \/ Confirm
  \/ \E p \in DOMAIN pages : \E i \in DOMAIN pages[p].rows : Select(p, i)
  \/ \E n \in 1..picked.max : Slide(n)

-----------------------------------------------------------------------------
PageRows == [rows : Seq(1..MaxSets), counts : Seq(Nat), next : 0..MaxSets, more : BOOLEAN]
PickerTypeOK ==
  /\ searching \in BOOLEAN /\ pages \in Seq(PageRows) /\ fetch.got \in Seq(PageRows)
  /\ fetch.at \in {"none", "search", "rows", "counts"}
  /\ picked.id \in 0..MaxSets /\ picked.count \in 0..picked.max
  /\ room.id \in 0..MaxSets /\ room.count \in Nat
  /\ steady \subseteq 1..MaxSets
=============================================================================
