------------------------------ MODULE RowStores ------------------------------
(***************************************************************************)
(* The state stores behind the StateStore trait: the same upserts, lists   *)
(* and searches written three times, for SQLite, PostgreSQL and Redis.  An *)
(* SQL upsert is one statement; a Redis one writes the record and then its *)
(* place in a sorted set, and another broker or a failure may come between *)
(* the two.  A method is the sequence of the statements it sends, a        *)
(* statement a sequence of writes that take effect together.               *)
(***************************************************************************)
EXTENDS Integers, FiniteSets, Sequences, SequencesExt, Listings

CONSTANTS
    Keys,         \* the primary keys of the records: 1 .. n
    Labels,       \* what a record holds: a wing, a confidence, a word
    Writers,      \* the brokers that have the store open
    MaxTick,      \* bound on the writes of a behaviour
    DefaultLimit, \* page_limits::..._DEFAULT
    MinDiaryWindow,    \* Redis reads at least this many of the diary index (50)
    DiaryWindowFactor, \* ... and this many for each entry asked for (3)
    NoRow,        \* no record
    Unknown       \* a record that calls contended for

Backends == {"sqlite", "postgres", "redis"}
Families == {"source", "lesson", "diary", "approval"}
Row == [key: Keys, label: Labels, at: 1 .. MaxTick, born: 1 .. MaxTick]

ASSUME RowStoresAssumption ==
    /\ Keys \subseteq Nat \ {0} /\ IsFiniteSet(Keys)
    /\ Labels \subseteq Nat \ {0} /\ Labels # {}
    /\ {MaxTick, DefaultLimit, MinDiaryWindow, DiaryWindowFactor} \subseteq Nat \ {0}
    /\ NoRow \notin Row /\ Unknown \notin Row /\ NoRow # Unknown

Unlimited == -1   \* usize::MAX, as the isize it is cast to

VARIABLES
    backend,  \* the store the project is configured for
    family,   \* the records a behaviour is about
    db,       \* rows, zset: the sorted set by time, text: the FTS5 table
    call,     \* what each broker is doing
    tick,     \* the clock
    sure      \* history: what an acknowledged call left, Unknown once contended

rowVars == <<backend, family, db, call, tick, sure>>

Idle == [phase |-> "idle"]

RowTypeOK ==
    /\ backend \in Backends /\ family \in Families /\ tick \in 0 .. MaxTick
    /\ db.rows \in [Keys -> Row \union {NoRow}]
    /\ db.zset \in [Keys -> 0 .. MaxTick]
    /\ db.text \in [Keys -> Labels \union {0}]
    /\ \A w \in Writers : call[w].phase \in {"idle", "lookup", "write"}
    /\ sure \in [Keys -> Row \union {NoRow, Unknown}]

RowInit ==
    /\ backend \in Backends /\ family \in Families
    /\ db = [rows |-> [k \in Keys |-> NoRow], zset |-> [k \in Keys |-> 0],
             text |-> [k \in Keys |-> 0]]
    /\ call = [w \in Writers |-> Idle]
    /\ tick = 0
    /\ sure = [k \in Keys |-> NoRow]

-----------------------------------------------------------------------------
(* The writes.  "merge" is ON CONFLICT DO UPDATE without the creation time. *)
Write(does, row) == [does |-> does, row |-> row]

Run(d, w) ==
    LET k == w.row.key IN
    CASE w.does = "put"     -> [d EXCEPT !.rows[k] = w.row]
      [] w.does = "merge"   -> [d EXCEPT !.rows[k] = IF @ = NoRow THEN w.row
                                  ELSE [w.row EXCEPT !.born = d.rows[k].born]]
      [] w.does = "delete"  -> [d EXCEPT !.rows[k] = NoRow]
      [] w.does = "zadd"    -> [d EXCEPT !.zset[k] = w.row.at]
      [] w.does = "zrem"    -> [d EXCEPT !.zset[k] = 0]
      [] w.does = "unindex" -> [d EXCEPT !.text[k] = 0]
      [] w.does = "index"   -> [d EXCEPT !.text[k] = w.row.label]

Statement(does, row) == << <<Write(does, row)>> >>

SqliteUpsertSource(r) == Statement("put", r)
PostgresUpsertSource(r) == Statement("put", r)
RedisUpsertSource(r) == Statement("put", r) \o Statement("zadd", r)

SqliteUpsertLesson(r) == Statement("put", r)
PostgresUpsertLesson(r) == Statement("put", r)
RedisUpsertLesson(r) == Statement("put", r) \o Statement("zadd", r)

SqliteDeleteLesson(r) == Statement("delete", r)
PostgresDeleteLesson(r) == Statement("delete", r)
RedisDeleteLesson(r) == Statement("delete", r) \o Statement("zrem", r)

(* One transaction over the entry and its row of the FTS5 table.            *)
SqliteUpsertDiary(r) ==
    << <<Write("merge", r), Write("unindex", r), Write("index", r)>> >>
PostgresUpsertDiary(r) == Statement("merge", r)
RedisUpsertDiary(r) == Statement("put", r) \o Statement("zadd", r)

SqliteSetApproval(r, approved) == Statement("put", [r EXCEPT !.label = approved])
PostgresSetApproval(r, approved) == Statement("put", [r EXCEPT !.label = approved])
RedisSetApproval(r, approved) ==
    IF approved = 1 THEN Statement("put", [r EXCEPT !.label = 1]) ELSE Statement("delete", r)

UpsertRow(r) ==
    CASE family = "source"   -> [sqlite |-> SqliteUpsertSource(r), postgres |-> PostgresUpsertSource(r),
                                 redis |-> RedisUpsertSource(r)][backend]
      [] family = "lesson"   -> [sqlite |-> SqliteUpsertLesson(r), postgres |-> PostgresUpsertLesson(r),
                                 redis |-> RedisUpsertLesson(r)][backend]
      [] family = "diary"    -> [sqlite |-> SqliteUpsertDiary(r), postgres |-> PostgresUpsertDiary(r),
                                 redis |-> RedisUpsertDiary(r)][backend]
      [] family = "approval" -> [sqlite |-> SqliteSetApproval(r, r.label), postgres |-> PostgresSetApproval(r, r.label),
                                 redis |-> RedisSetApproval(r, r.label)][backend]

DeleteLesson(r) == [sqlite |-> SqliteDeleteLesson(r), postgres |-> PostgresDeleteLesson(r),
                    redis |-> RedisDeleteLesson(r)][backend]

-----------------------------------------------------------------------------
(* Reads.  SQL sorts the rows a WHERE selects and takes the first LIMIT of  *)
(* them; Redis takes a range of the sorted set, newest first, and reads the *)
(* records it names.                                                        *)
Rows == {db.rows[k] : k \in Keys} \ {NoRow}

Newest(r, s) == r.at > s.at \/ (r.at = s.at /\ r.key < s.key)
Surest(r, s) == r.label > s.label \/ (r.label = s.label /\ r.key < s.key)
Latest(r, s) == r.key > s.key   \* the key of a diary entry is its date
LastTouched(k, l) == db.zset[k] > db.zset[l] \/ (db.zset[k] = db.zset[l] /\ k > l)

Decode(limit) == IF limit = 0 THEN DefaultLimit ELSE limit   \* and an error above a maximum

MutRevRange(lo, hi) ==   \* the stop is taken for exclusive
    LET keys == InOrder({k \in Keys : db.zset[k] # 0}, LastTouched)
        stop == IF hi < 0 THEN Len(keys) + hi ELSE hi
    IN SubSeq(keys, lo + 1, IF stop < Len(keys) THEN stop ELSE Len(keys))

(* ZREVRANGE lo hi: both ends belong to it, a negative hi counts from the   *)
(* end.                                                                     *)
RevRange(lo, hi) ==
    LET keys == InOrder({k \in Keys : db.zset[k] # 0}, LastTouched)
        stop == IF hi < 0 THEN Len(keys) + hi ELSE hi
    IN SubSeq(keys, lo + 1, IF stop + 1 < Len(keys) THEN stop + 1 ELSE Len(keys))

Records(keys) == Among([i \in DOMAIN keys |-> db.rows[keys[i]]], Rows)   \* those that are still there

(* list_conversation_sources: SQL filters by palace, Redis does not look at *)
(* the filter; limit.max(1) against limit - 1 as an isize.                  *)
SqlLimit(limit) == IF limit = Unlimited THEN Cardinality(Keys) ELSE IF limit = 0 THEN 1 ELSE limit
SqliteListSources(wings, limit) ==
    First(SqlLimit(limit), InOrder({r \in Rows : r.label \in wings}, Newest))
PostgresListSources(wings, limit) ==
    First(SqlLimit(limit), InOrder({r \in Rows : r.label \in wings}, Newest))
RedisListSources(wings, limit) == Records(RevRange(0, limit - 1))

SqliteListLessons(limit) == First(Decode(limit), InOrder(Rows, Surest))
PostgresListLessons(limit) == First(Decode(limit), InOrder(Rows, Surest))
RedisListLessons(limit) == Records(RevRange(0, limit - 1))

InRange(from, to) == {r \in Rows : from <= r.key /\ r.key <= to}
SqliteListDiary(from, to, limit) == First(Decode(limit), InOrder(InRange(from, to), Latest))
PostgresListDiary(from, to, limit) == First(Decode(limit), InOrder(InRange(from, to), Latest))
Window(limit) ==
    IF limit * DiaryWindowFactor > MinDiaryWindow THEN limit * DiaryWindowFactor ELSE MinDiaryWindow
RedisListDiary(from, to, limit) ==
    First(limit, Among(Records(RevRange(0, Window(limit) - 1)), InRange(from, to)))

(* Searching the diary for a word: FTS5 joined with the entries, LIKE when  *)
(* FTS5 refuses the query; the tsvector is on the row, LIKE when it finds   *)
(* nothing; RediSearch indexes the hash as it is.                           *)
SqliteSearchFts(word) == {r \in Rows : db.text[r.key] = word}
SqliteSearchLike(word) == {r \in Rows : r.label = word}
SqliteSearch(word, parses) == IF parses THEN SqliteSearchFts(word) ELSE SqliteSearchLike(word)
PostgresSearchFts(word) == {r \in Rows : r.label = word}
PostgresSearchLike(word) == {r \in Rows : r.label = word}
PostgresSearch(word) ==
    IF PostgresSearchFts(word) = {} THEN PostgresSearchLike(word) ELSE PostgresSearchFts(word)
RedisSearch(word) == {r \in Rows : r.label = word}

SqliteIsApproved(k) == db.rows[k] # NoRow /\ db.rows[k].label = 1
PostgresIsApproved(k) == db.rows[k] # NoRow /\ db.rows[k].label = 1
RedisIsApproved(k) == db.rows[k] # NoRow

-----------------------------------------------------------------------------
Contend(k) == [w \in Writers |->
    IF call[w] # Idle /\ call[w].key = k THEN [call[w] EXCEPT !.alone = FALSE] ELSE call[w]]
Others(w, k) == {x \in Writers \ {w} : call[x] # Idle /\ call[x].key = k}

(* The entry is one that a lookup of this moment cannot find on Redis.      *)
Hidden(k) == /\ db.rows[k] # NoRow
             /\ \/ db.zset[k] # db.rows[k].at
                \/ Cardinality({l \in Keys : db.zset[l] > db.zset[k]}) >= Window(1)

Begin(w, phase, k, row, left, todo) ==
    /\ call[w] = Idle /\ tick < MaxTick
    /\ tick' = tick + 1
    /\ call' = [Contend(k) EXCEPT ![w] =
          [phase |-> phase, key |-> k, row |-> row, left |-> left, todo |-> todo, alone |-> Others(w, k) = {}, hidden |-> Hidden(k)]]
    /\ sure' = [sure EXCEPT ![k] = Unknown]
    /\ UNCHANGED <<backend, family, db>>

NewRow(k, label) == [key |-> k, label |-> label, at |-> tick + 1, born |-> tick + 1]

BeginUpsert(w, k, label) ==
    LET r == NewRow(k, label) IN
    family # "diary" /\ Begin(w, "write", k, r, r, UpsertRow(r))

BeginDelete(w, k) ==
    LET r == NewRow(k, CHOOSE l \in Labels : TRUE) IN
    family = "lesson" /\ Begin(w, "write", k, r, NoRow, DeleteLesson(r))

(* memory_diary_add looks the entry of the date up first.                   *)
BeginDiaryAdd(w, k, label) ==
    LET r == NewRow(k, label) IN family = "diary" /\ Begin(w, "lookup", k, r, r, <<>>)

MutDiaryLookup(w) ==   \* an edited entry counts as a new one
    LET k == call[w].key
        r == call[w].row
    IN /\ call[w].phase = "lookup"
       /\ call' = [call EXCEPT ![w].phase = "write", ![w].row = r, ![w].left = r, ![w].todo = UpsertRow(r),
                               ![w].hidden = Hidden(k)]
       /\ UNCHANGED <<backend, family, db, tick, sure>>

DiaryLookup(w) ==
    LET k == call[w].key
        found == [sqlite |-> SqliteListDiary(k, k, 1), postgres |-> PostgresListDiary(k, k, 1),
                  redis |-> RedisListDiary(k, k, 1)][backend]
        r == [call[w].row EXCEPT !.born = IF found = <<>> THEN @ ELSE found[1].born]
    IN /\ call[w].phase = "lookup"
       /\ call' = [call EXCEPT ![w].phase = "write", ![w].row = r, ![w].left = r, ![w].todo = UpsertRow(r),
                               ![w].hidden = Hidden(k)]
       /\ UNCHANGED <<backend, family, db, tick, sure>>

Execute(w) ==
    /\ call[w].phase = "write" /\ call[w].todo # <<>>
    /\ db' = FoldLeft(Run, db, Head(call[w].todo))
    /\ call' = [call EXCEPT ![w].todo = Tail(@)]
    /\ UNCHANGED <<backend, family, tick, sure>>

Answer(w) ==
    /\ call[w].phase = "write" /\ call[w].todo = <<>>
    /\ sure' = [sure EXCEPT ![call[w].key] = IF call[w].alone THEN call[w].left ELSE @]
    /\ call' = [call EXCEPT ![w] = Idle]
    /\ UNCHANGED <<backend, family, db, tick>>

(* The connection fails or the broker stops between two statements.         *)
Interrupt(w) ==
    /\ call[w] # Idle
    /\ call' = [call EXCEPT ![w] = Idle]
    /\ UNCHANGED <<backend, family, db, tick, sure>>

RowNext == \E w \in Writers :
    \/ \E k \in Keys, l \in Labels : BeginUpsert(w, k, l) \/ BeginDiaryAdd(w, k, l)
    \/ \E k \in Keys : BeginDelete(w, k)
    \/ DiaryLookup(w) \/ Execute(w) \/ Answer(w) \/ Interrupt(w)

RowSpec == RowInit /\ [][RowNext]_rowVars

-----------------------------------------------------------------------------
Taken == IF backend = "redis" THEN {k \in Keys : db.zset[k] # 0}
         ELSE {k \in Keys : db.rows[k] # NoRow}
ListSources(limit) == [sqlite |-> SqliteListSources(Labels, limit),
    postgres |-> PostgresListSources(Labels, limit), redis |-> RedisListSources(Labels, limit)][backend]
ListLessons(limit) == [sqlite |-> SqliteListLessons(limit),
    postgres |-> PostgresListLessons(limit), redis |-> RedisListLessons(limit)][backend]
Approved(k) == [sqlite |-> SqliteIsApproved(k), postgres |-> PostgresIsApproved(k),
    redis |-> RedisIsApproved(k)][backend]

(* Read your writes, over every backend: what an acknowledged call that no  *)
(* other broker overlapped has left is what the next read answers, whatever *)
(* failed before it.  An upserted source or lesson is in every list with    *)
(* room for what the index holds, a deleted lesson in none, and an approval *)
(* is the one set last.  (A half-done delete on Redis leaves an index entry *)
(* that takes up room.)                                                     *)
AcknowledgedIsRead ==
    \A k \in Keys :
        /\ family = "approval" /\ sure[k] # Unknown =>
              Approved(k) = (sure[k] # NoRow /\ sure[k].label = 1)
        /\ family \in {"source", "lesson"} /\ sure[k] # Unknown =>
              \A n \in 1 .. Cardinality(Keys) :
                 LET list == ToSet(IF family = "source" THEN ListSources(n) ELSE ListLessons(n)) IN
                 IF sure[k] = NoRow THEN \A r \in list : r.key # k
                                    ELSE Cardinality(Taken) <= n => sure[k] \in list

(* Hydration asks for usize::MAX sources.  SQL answers all of them; Redis   *)
(* casts the limit to -1 and asks for 0 to -2, all but the oldest.  An      *)
(* acknowledged source is missed in that case and in no other.              *)
HydrationMissesOnlyTheOldest ==
    family = "source" =>
        \A k \in Keys : sure[k] \in Row /\ sure[k] \notin ToSet(ListSources(Unlimited)) =>
            /\ backend = "redis"
            /\ db.zset[k] # 0
            /\ \A l \in Keys : db.zset[l] # 0 => db.zset[l] >= db.zset[k]

(* The FTS5 table and the entries are written by one transaction: whatever  *)
(* fails, a search that uses the table and one that falls back to LIKE find *)
(* the same entries, and those are what the other stores would find.        *)
DiarySearchesAgree ==
    family = "diary" /\ backend = "sqlite" =>
        \A word \in Labels : SqliteSearch(word, TRUE) = SqliteSearch(word, FALSE)

(* The three stores answer the same questions alike: what was acknowledged  *)
(* is read, hydration finds every source but for the limit Redis takes for  *)
(* -1, and both searches of the diary find the same entries.                *)
StoresAgree == AcknowledgedIsRead /\ HydrationMissesOnlyTheOldest /\ DiarySearchesAgree

(* Editing the entry of a day keeps the time it was created.  On Redis the  *)
(* time is lost only when another broker wrote the entry after the lookup,  *)
(* or the lookup missed it: its index entry is not there, for a write was   *)
(* interrupted, or it is behind the window that a lookup reads.             *)
CreationTimeIsKept ==
    [][\A k \in Keys :
        /\ db.rows[k] # NoRow /\ db'.rows[k] # NoRow
        /\ db.rows[k].born # db'.rows[k].born /\ family = "diary"
        => /\ backend = "redis"
           /\ \E w \in Writers : /\ call[w] # Idle /\ call[w].key = k
                                 /\ ~call[w].alone \/ call[w].hidden]_rowVars
=============================================================================
