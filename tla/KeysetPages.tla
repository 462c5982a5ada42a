---------------------------- MODULE KeysetPages ----------------------------
(***************************************************************************)
(* The paged listings of the administration: ingests and media newest      *)
(* first, a media lookup, posts by schedule.  A page is one statement; the *)
(* client returns the cursor of a page to get the next one, and rows are   *)
(* inserted, edited, rescheduled and hidden in between.  The key of a new  *)
(* or edited row is the time its transaction started, which may lie before *)
(* rows that were committed earlier.                                       *)
(***************************************************************************)
EXTENDS Naturals, Sequences, FiniteSets, SequencesExt

CONSTANTS
    Listings,   \* the listings to look at
    Rows,       \* numbers: the order of the identifiers
    Times,      \* timestamps in nanoseconds
    Matching,   \* the media rows a lookup finds
    Limits,     \* what the client asks for
    None

PagesAssumption == Rows \subseteq Nat /\ Times \subseteq Nat /\ Limits \subseteq Nat

VARIABLES
    listing,    \* which table the rows are of
    key,        \* created_at, updated_at or scheduled_at; None before the insert
    hidden,     \* published or cancelled posts
    walk,       \* the client: where it is, the cursor it holds, the rows it got
    touched     \* history: inserted or changed since the first page

vars == <<listing, key, hidden, walk, touched>>

Init ==
    /\ listing \in Listings
    /\ key = [r \in Rows |-> None]
    /\ hidden = {}
    /\ walk = [pc |-> "idle", cursor |-> None, todo |-> <<>>, listed |-> <<>>]
    /\ touched = {}

-----------------------------------------------------------------------------
(* Cursors and pages.                                                      *)

\* Mutant: the cursor keeps seconds (of two nanoseconds).
EncodeSeconds(r) == [nanos |-> (key[r] \div 2) * 2, id |-> r]

Encode(r) == [nanos |-> key[r], id |-> r]
Decode(cursor) == <<cursor.nanos, cursor.id>>

Before(a, b) == a[1] < b[1] \/ (a[1] = b[1] /\ a[2] < b[2])
Place(r) == <<key[r], r>>

NewestFirst(a, b) == Before(Place(b), Place(a))
OldestFirst(a, b) == Before(Place(a), Place(b))

\* The four statements: which rows, in which order, from where.
ListAdmin(cursor) ==
    LET found == {r \in Rows : key[r] # None /\ (cursor = None \/ Before(Place(r), Decode(cursor)))}
    IN  SetToSortSeq(found, NewestFirst)

SearchMedia(cursor) ==
    LET found == {r \in Rows : key[r] # None /\ (cursor = None \/ Before(Place(r), Decode(cursor)))}
    IN  SetToSortSeq(found, NewestFirst)

LookupMedia(cursor) ==
    LET found == {r \in Matching : key[r] # None /\ (cursor = None \/ Before(Place(r), Decode(cursor)))}
    IN  SetToSortSeq(found, NewestFirst)

ListPosts(cursor) ==
    LET found == {r \in Rows \ hidden : key[r] # None /\ (cursor = None \/ Before(Decode(cursor), Place(r)))}
    IN  SetToSortSeq(found, OldestFirst)

Query(cursor) ==
    CASE listing = "ingests" -> ListAdmin(cursor)
      [] listing = "media" -> SearchMedia(cursor)
      [] listing = "lookup" -> LookupMedia(cursor)

\* LIMIT limit + 1: the row too many only says that there is a next page.
Page(rows, limit) == SubSeq(rows, 1, IF Len(rows) < limit THEN Len(rows) ELSE limit)
NextCursor(rows, limit) == IF Len(rows) > limit THEN Encode(rows[limit]) ELSE None

\* A limit out of range is refused.
GetPage(limit) ==
    /\ listing # "posts" /\ walk.pc \in {"idle", "walking"} /\ limit \in 1 .. 50
    /\ LET rows == Query(walk.cursor)
           next == NextCursor(rows, limit)
       IN  walk' = [walk EXCEPT !.pc = IF next = None THEN "done" ELSE "walking",
                      !.cursor = next, !.listed = @ \o Page(rows, limit)]
    /\ UNCHANGED <<listing, key, hidden, touched>>

\* The schedule: first the identifiers, then the cards one by one.
GetPostPage(limit) ==
    /\ listing = "posts" /\ walk.pc \in {"idle", "walking"} /\ limit \in 1 .. 50
    /\ LET rows == ListPosts(walk.cursor)
       IN  walk' = [walk EXCEPT !.pc = IF rows = <<>> THEN "done" ELSE "cards",
                      !.cursor = NextCursor(rows, limit), !.todo = Page(rows, limit)]
    /\ UNCHANGED <<listing, key, hidden, touched>>

LoadPostListItem ==
    /\ walk.pc = "cards"
    /\ LET rest == Tail(walk.todo)
       IN  walk' = [walk EXCEPT !.listed = Append(@, Head(walk.todo)), !.todo = rest,
                      !.pc = IF rest # <<>> THEN "cards" ELSE IF walk.cursor = None THEN "done" ELSE "walking"]
    /\ UNCHANGED <<listing, key, hidden, touched>>

-----------------------------------------------------------------------------
(* The rows.                                                               *)

Touch(r) == touched' = IF walk.pc = "idle" THEN touched ELSE touched \cup {r}

\* A transaction that started at t commits.
Insert(r, t) ==
    /\ key[r] = None /\ walk.pc # "done"
    /\ key' = [key EXCEPT ![r] = t]
    /\ Touch(r)
    /\ UNCHANGED <<listing, hidden, walk>>

\* Media are edited, posts rescheduled; created_at never changes.
ChangeKey(r, t) ==
    /\ listing # "ingests" /\ key[r] \notin {None, t} /\ r \notin hidden /\ walk.pc # "done"
    /\ key' = [key EXCEPT ![r] = t]
    /\ Touch(r)
    /\ UNCHANGED <<listing, hidden, walk>>

\* A post is published or cancelled.
HidePost(r) ==
    /\ listing = "posts" /\ key[r] # None /\ r \notin hidden /\ walk.pc # "done"
    /\ hidden' = hidden \cup {r}
    /\ Touch(r)
    /\ UNCHANGED <<listing, key, walk>>

Next ==
    \/ \E limit \in Limits : GetPage(limit) \/ GetPostPage(limit)
    \/ LoadPostListItem
    \/ \E r \in Rows : HidePost(r) \/ \E t \in Times : Insert(r, t) \/ ChangeKey(r, t)

Spec == Init /\ [][Next]_vars

-----------------------------------------------------------------------------

\* The rows the listing is about.
Listed(r) == key[r] # None /\ r \notin hidden /\ (listing = "lookup" => r \in Matching)

(* A client that follows the cursors to the last page has got every row    *)
(* that nobody inserted or changed meanwhile, and got it once, also among  *)
(* rows with the same timestamp (list_admin, search_media, lookup_media,   *)
(* list_posts: the cursor is the pair of timestamp and identifier).        *)
UntouchedListedOnce ==
    walk.pc = "done" =>
        \A r \in Rows : Listed(r) /\ r \notin touched =>
            Cardinality({i \in DOMAIN walk.listed : walk.listed[i] = r}) = 1

(* No ingest is listed twice, whatever is inserted between the pages       *)
(* (list_admin: the creation time is immutable).                           *)
NoIngestTwice ==
    listing = "ingests" => \A i, j \in DOMAIN walk.listed : walk.listed[i] = walk.listed[j] => i = j

(* An ingest inserted after the first page is not on a later one.          *)
InsertsDoNotShift ==
    walk.pc = "walking" /\ listing = "ingests" =>
        \A r \in touched : ~Before(Place(r), Decode(walk.cursor))

=============================================================================
