----------------------------- MODULE Lists -----------------------------
(***************************************************************************)
(* The booking lists beside the calls that change the bookings: an admin's *)
(* client turns the pages of GET /bookings/list, each page a COUNT and a   *)
(* SELECT outside any transaction, and users ask for GET /bookings/my,     *)
(* while Bookings creates and cancels.                                     *)
(***************************************************************************)
EXTENDS Bookings, SequencesExt

CONSTANTS
    Readers,    \* clients that read lists
    Asks,       \* what they may ask for
    IdOrder,    \* the order of the bookings' ids, which are random
    Word        \* bound: the number of values of an int, 2^64 in the code

(* pageSize beyond maxBookingsPageSize is module Transport's. *)
MineRequests == [op : {"mine"}, actor : Actors]
PageRequests == [op : {"list"}, actor : Actors, page : Nat, pageSize : Nat]

ASSUME ReadersAssumption ==
    /\ Asks \subseteq MineRequests \cup PageRequests
    /\ IdOrder \in [Calls -> Nat]
    /\ \A c, d \in Calls : IdOrder[c] = IdOrder[d] => c = d
    /\ Word \in Nat \ {0}
    /\ \A a \in Asks : a.op = "list" => 2 * a.page < Word /\ 2 * a.pageSize < Word

VARIABLES
    ask,        \* what each reader asks for; its page moves on
    rpc,        \* the next statement of each reader's call
    readAt,     \* local variable now of ListMine
    total,      \* the COUNT of the page
    shown,      \* the rows the reader has been answered with
    lastPage,   \* how many of them the last page had
    told,       \* what the reader's last call was answered with
    known       \* the rows there were when the reader's first call arrived

readerVars == <<ask, rpc, readAt, total, shown, lastPage, told, known>>
allVars == <<vars, readerVars>>

ListsInit ==
    /\ Init
    /\ ask \in [Readers -> Asks]
    /\ rpc = [r \in Readers |-> "received"]
    /\ readAt = [r \in Readers |-> 0]
    /\ total = [r \in Readers |-> 0]
    /\ shown = [r \in Readers |-> {}]
    /\ lastPage = [r \in Readers |-> 0]
    /\ told = [r \in Readers |-> "none"]
    /\ known = [r \in Readers |-> {}]

----------------------------------------------------------------------------
(* The queries. *)

(* Variant: ORDER BY created_at DESC alone. *)
ListedBeforeByTime(a, b) == a.createdAt >= b.createdAt

(* ORDER BY created_at DESC, id DESC *)
ListedBefore(a, b) ==
    \/ a.createdAt > b.createdAt
    \/ a.createdAt = b.createdAt /\ IdOrder[a.id] > IdOrder[b.id]

(* The rows in an order that the ORDER BY admits. *)
Listings(rows) ==
    {seq \in SetToSeqs(rows) : \A i, j \in DOMAIN seq : i < j => ListedBefore(seq[i], seq[j])}

(* Variant: the page shows active bookings only, the total counts all. *)
RowsOfListActive == {b \in bookings : IsActive(b)}

RowsOfList == bookings

(* An int wraps around: a page that is large enough has a negative offset  *)
(* or that of another page.                                                *)
Offset(a) ==
    LET n == ((a.page - 1) * a.pageSize) % Word IN IF 2 * n < Word THEN n ELSE n - Word

Smaller(m, n) == IF m < n THEN m ELSE n

(* LIMIT pageSize OFFSET (page - 1) * pageSize *)
Page(seq, a) == SubSeq(seq, Offset(a) + 1, Smaller(Offset(a) + a.pageSize, Len(seq)))

(* Variant: cancelled bookings are left out. *)
ListByUserFutureActive(user, at) ==
    {b \in bookings : b.user = user /\ StartAt[b.slot] > Stored(at) /\ IsActive(b)}

(* Cancelled bookings are listed too; the order they come in is left out. *)
ListByUserFuture(user, at) ==
    {b \in bookings : b.user = user /\ StartAt[b.slot] > Stored(at)}

----------------------------------------------------------------------------
ReaderGoto(r, label) == rpc' = [rpc EXCEPT ![r] = label]

Answer(r, a) == ReaderGoto(r, "answered") /\ told' = [told EXCEPT ![r] = a]

(* A reader that begins at the beginning remembers what there was. *)
Arrive(r) ==
    known' = [known EXCEPT ![r] =
        IF told[r] = "none" /\ (ask[r].op = "mine" \/ ask[r].page = 1) THEN bookings ELSE @]

ListMine(r) ==
    LET role == RequireRole(ask[r].actor, "user") IN
    /\ rpc[r] = "received" /\ ask[r].op = "mine"
    /\ Arrive(r)
    /\ \/ role # "ok" /\ Answer(r, role) /\ UNCHANGED readAt
       \/ /\ role = "ok"
          /\ readAt' = [readAt EXCEPT ![r] = clock]
          /\ ReaderGoto(r, "selectMine")
          /\ UNCHANGED told
    /\ UNCHANGED <<vars, ask, total, shown, lastPage>>

SelectMine(r) ==
    /\ rpc[r] = "selectMine"
    /\ shown' = [shown EXCEPT ![r] = ListByUserFuture(ask[r].actor, readAt[r])]
    /\ Answer(r, "ok")
    /\ UNCHANGED <<vars, ask, readAt, total, lastPage, known>>

List(r) ==
    LET a == ask[r]
        role == RequireRole(a.actor, "admin")
        error == CASE role # "ok" -> role
                   [] role = "ok" /\ a.page < 1 -> "ErrInvalidPage"
                   [] OTHER -> "ErrInvalidPageSize"
    IN
    /\ rpc[r] = "received" /\ a.op = "list"
    /\ Arrive(r)
    /\ \/ (role # "ok" \/ a.page < 1 \/ a.pageSize < 1) /\ Answer(r, error)
       \/ /\ role = "ok" /\ a.page >= 1 /\ a.pageSize >= 1
          /\ ReaderGoto(r, "count")
          /\ UNCHANGED told
    /\ UNCHANGED <<vars, ask, readAt, total, shown, lastPage>>

Count(r) ==
    /\ rpc[r] = "count"
    /\ total' = [total EXCEPT ![r] = Cardinality(bookings)]
    /\ ReaderGoto(r, "selectPage")
    /\ UNCHANGED <<vars, ask, readAt, shown, lastPage, told, known>>

SelectPage(r) ==
    /\ rpc[r] = "selectPage" /\ Offset(ask[r]) >= 0
    /\ \E seq \in Listings(RowsOfList) :
         LET page == Page(seq, ask[r]) IN
         /\ shown' = [shown EXCEPT ![r] = @ \cup ToSet(page)]
         /\ lastPage' = [lastPage EXCEPT ![r] = Len(page)]
    /\ Answer(r, "ok")
    /\ UNCHANGED <<vars, ask, readAt, total, known>>

(* OFFSET must not be negative. *)
SelectPageRefused(r) ==
    /\ rpc[r] = "selectPage" /\ Offset(ask[r]) < 0
    /\ Answer(r, "internal")
    /\ UNCHANGED <<vars, ask, readAt, total, shown, lastPage, known>>

(* The client asks for the next page until one is not full. *)
TurnPage(r) ==
    /\ rpc[r] = "answered" /\ told[r] = "ok"
    /\ ask[r].op = "list" /\ lastPage[r] = ask[r].pageSize
    /\ ask' = [ask EXCEPT ![r].page = @ + 1]
    /\ ReaderGoto(r, "received")
    /\ UNCHANGED <<vars, readAt, total, shown, lastPage, told, known>>

ReaderInFlight(r) == rpc[r] \notin {"received", "answered"}

ReadFails(r) ==
    /\ ReaderInFlight(r)
    /\ Answer(r, "internal")
    /\ UNCHANGED <<vars, ask, readAt, total, shown, lastPage, known>>

(* The server stops: writers and readers are cut off together. *)
ServerStops ==
    /\ \/ Crash
       \/ ~(\E c \in Calls : InFlight(c)) /\ (\E r \in Readers : ReaderInFlight(r))
                                          /\ UNCHANGED vars
    /\ rpc' = [r \in Readers |-> IF ReaderInFlight(r) THEN "answered" ELSE rpc[r]]
    /\ told' = [r \in Readers |-> IF ReaderInFlight(r) THEN "lost" ELSE told[r]]
    /\ UNCHANGED <<ask, readAt, total, shown, lastPage, known>>

----------------------------------------------------------------------------
Read(r) ==
    \/ ListMine(r) \/ SelectMine(r)
    \/ List(r) \/ Count(r) \/ SelectPage(r) \/ SelectPageRefused(r)

ListsNext ==
    \/ \E c \in Calls : (Handle(c) \/ CommitUnacknowledged(c) \/ Fail(c)) /\ UNCHANGED readerVars
    \/ Tick /\ UNCHANGED readerVars
    \/ \E r \in Readers : Read(r) \/ TurnPage(r) \/ ReadFails(r)
    \/ ServerStops

ListsSpec ==
    /\ ListsInit /\ [][ListsNext]_allVars
    /\ \A c \in Calls : WF_allVars(Handle(c) /\ UNCHANGED readerVars)

----------------------------------------------------------------------------
(* A client that turns the pages until one is not full has seen every      *)
(* booking there was when it began, whatever is booked and cancelled       *)
(* meanwhile: rows are never deleted and never move up in the order of     *)
(* created_at and id, so a page that moves on can repeat, never skip.      *)
PagesSkipNothing ==
    \A r \in Readers :
        rpc[r] = "answered" /\ told[r] = "ok" /\ ask[r].op = "list"
        /\ lastPage[r] < ask[r].pageSize
            => {b.id : b \in known[r]} \subseteq {b.id : b \in shown[r]}

(* A page holds no fewer bookings than the total beside it says there are  *)
(* on it, although the COUNT is an earlier statement of no transaction.    *)
PageAgreesWithTotal ==
    \A r \in Readers :
        rpc[r] = "answered" /\ told[r] = "ok" /\ ask[r].op = "list"
            => lastPage[r] >= Smaller(ask[r].pageSize,
                                      total[r] - (ask[r].page - 1) * ask[r].pageSize)

(* GET /bookings/my shows the user's own bookings and no others, none of a *)
(* slot that had begun: each one made before the call arrived of a slot to *)
(* come is there, as it was or cancelled since.  (Of the instant at which  *)
(* a slot begins, see StartingNowIsMine.)                                  *)
MineIsUpToDate ==
    \A r \in Readers :
        rpc[r] = "answered" /\ told[r] = "ok" /\ ask[r].op = "mine" =>
            /\ \A b \in shown[r] : b.user = ask[r].actor /\ StartAt[b.slot] >= readAt[r]
            /\ \A b \in known[r] :
                 b.user = ask[r].actor /\ StartAt[b.slot] > readAt[r] =>
                     b \in shown[r] \/ Cancelled(b) \in shown[r]

(* What api.yaml:699 says of GET /bookings/my: bookings of slots with      *)
(* start >= now, hence also those of a slot that begins at that instant.   *)
StartingNowIsMine ==
    \A r \in Readers :
        rpc[r] = "answered" /\ told[r] = "ok" /\ ask[r].op = "mine" =>
            \A b \in known[r] :
                b.user = ask[r].actor /\ StartAt[b.slot] >= readAt[r] =>
                    b \in shown[r] \/ Cancelled(b) \in shown[r]

----------------------------------------------------------------------------
(* Why they hold: the parts of an inductive invariant. *)

(* Variables have their types; requests are the readers' or follow from    *)
(* them by turning pages.                                                  *)
ReadersTypeOK ==
    /\ ask \in [Readers -> MineRequests \cup PageRequests]
    /\ rpc \in [Readers -> {"received", "selectMine", "count", "selectPage", "answered"}]
    /\ readAt \in [Readers -> Nat]
    /\ total \in [Readers -> Nat]
    /\ shown \in [Readers -> SUBSET Booking]
    /\ lastPage \in [Readers -> Nat]
    /\ told \in [Readers -> {"none", "ok", "ErrUnauthorized", "ErrForbidden", "internal",
                              "lost", "ErrInvalidPage", "ErrInvalidPageSize"}]
    /\ known \in [Readers -> SUBSET Booking]

(* What a reader's next statement and last answer say of its request.      *)
AskInv ==
    \A r \in Readers :
        /\ rpc[r] = "selectMine" => ask[r].op = "mine"
        /\ rpc[r] \in {"count", "selectPage"} => ask[r].op = "list"
        /\ rpc[r] = "received" => told[r] \in {"none", "ok"}
        /\ rpc[r] = "received" /\ told[r] = "ok" => ask[r].op = "list"
        /\ rpc[r] = "received" /\ told[r] = "none" => known[r] = {} /\ shown[r] = {}
        /\ ask[r].op = "list" => 2 * ask[r].pageSize < Word
        /\ ask[r].op = "list" /\ (told[r] = "ok" \/ rpc[r] \in {"count", "selectPage"}) =>
             ask[r].page >= 1 /\ ask[r].pageSize >= 1

(* The table is finite, and nothing in it is lost to a reader.             *)
KnownStays ==
    /\ IsFiniteSet(bookings)
    /\ \A r \in Readers : \A b \in known[r] : b \in bookings \/ Cancelled(b) \in bookings

(* COUNT may be out of date, but rows are never deleted.                   *)
TotalInv ==
    \A r \in Readers : rpc[r] = "selectPage" => total[r] <= Cardinality(bookings)

(* The rows that stand before a booking in the list. *)
Before(b) == {x \in bookings : ListedBefore(x, b)}

(* The rows on the pages before the one a reader asks for. *)
Skipped(r) == (ask[r].page - 1) * ask[r].pageSize

(* The rows on the pages a reader is done with. *)
Turned(r) == IF rpc[r] = "answered" THEN Skipped(r) + ask[r].pageSize ELSE Skipped(r)

(* What a reader has not been shown stands below the pages it is done with, *)
(* and a reader that began at the first page asks for no offset that wraps *)
(* to one that is not negative.                                            *)
UnseenInv ==
    \A r \in Readers : ask[r].op = "list" /\ (rpc[r] = "answered" => told[r] = "ok") =>
        \A b \in known[r] :
            /\ IF rpc[r] = "answered" THEN 2 * Skipped(r) < Word ELSE Skipped(r) < Word
            /\ b.id \notin {x.id : x \in shown[r]} => Cardinality(Before(b)) >= Turned(r)

ListsInv ==
    /\ BookingsInv
    /\ ReadersTypeOK
    /\ AskInv
    /\ KnownStays
    /\ TotalInv
    /\ UnseenInv
    /\ PagesSkipNothing
    /\ PageAgreesWithTotal
    /\ MineIsUpToDate
=============================================================================
