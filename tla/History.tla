------------------------------- MODULE History -------------------------------
(***************************************************************************)
(* The places the editor can go back and forward to: HistorySession of     *)
(* src/src/history/editorhistory.py, with note_loc of koHistory.py and the *)
(* moves of chrome/komodo/content/library/history.js.                      *)
(*                                                                         *)
(* Every visit is a row of a database; a visit refers to the one that back *)
(* leads to from it.  The session keeps part of this chain in two deques   *)
(* and the visit it last went to between them.  They are rebuilt from the  *)
(* chain when the program starts and when a place has become obsolete, and *)
(* the back visits are replenished from it when they run short.            *)
(*                                                                         *)
(* All of it runs in the main thread.  A move to a file that is not open   *)
(* opens it in the background; if that fails, the move is undone then.     *)
(*                                                                         *)
(* The database is in memory and is written to disk when the program is    *)
(* closed, so a crash brings back what the last start loaded; that state   *)
(* is one the module already has.  There is one session and the preference *)
(* to restore the history is set.  A place stands for a URI, a line and a  *)
(* column.                                                                 *)
(*                                                                         *)
(* A definition marked [variant] is a faulty form of the one after it, to  *)
(* show which property notices the fault; no specification uses it.        *)
(***************************************************************************)
EXTENDS SequencesExt, Subsequences

CONSTANTS
    Places,         \* where the user can be
    Temporary,      \* the places that cannot be opened again once closed
    NoPlace,        \* there is no current view
    RecentLength,   \* RECENT_BACK_VISITS_LENGTH
    CacheLength,    \* RECENT_BACK_VISITS_CACHE_LENGTH
    Kept,           \* URIS_TO_KEEP: the visits written to disk
    MaxVisits,      \* bound: visits that are ever added
    MaxMove         \* bound: the length of a move

ASSUME HistoryAssumption ==
    /\ Temporary \subseteq Places
    /\ NoPlace \notin Places
    /\ {RecentLength, CacheLength, Kept, MaxVisits, MaxMove} \subseteq Nat \ {0}
    /\ 2 * RecentLength <= CacheLength

VARIABLES
    db,             \* history_visit: place, referer (0: none) and is_obsolete
    expired,        \* the rows 1..expired are no longer in it
    back,           \* recent_back_visits, the newest first
    forward,        \* forward_visits, the furthest first
    last,           \* _last_visit
    moving,         \* _history_move, while it meets places that are gone, or
                    \* what is saved while the program is closed
    opening,        \* the move that waits for a file to be opened
    gone            \* the temporary places that were closed

session == <<back, forward, last>>
vars == <<db, expired, session, moving, opening, gone>>

VisitsTo(n) == [id : 1..n, ref : 0..n]
NoVisit == [id |-> 0, ref |-> 0]
RowsTo(n) == [place : Places, referer : 0..n, obsolete : BOOLEAN]
Nothing == [at |-> "nothing"]

PlaceOf(v) == db[v.id].place
PlacesOf(s) == [i \in DOMAIN s |-> PlaceOf(s[i])]

Moves == [at : {"unloadable", "again"}, backwards : BOOLEAN, n : 1..MaxMove,
          curr : Places \cup {NoPlace}, hasId : BOOLEAN, explicit : BOOLEAN]
ClosingsTo(n) == [at : {"closed"}, top : 0..n, numForward : Nat]
OpeningsTo(n) == [at : {"opening"}, backwards : BOOLEAN, n : 1..MaxMove,
                  visit : VisitsTo(n), from : Places \cup {NoPlace},
                  back : Seq(Places), forward : Seq(Places),
                  undisturbed : BOOLEAN]

TypeOK ==
    /\ db \in Seq(RowsTo(Len(db)))
    /\ Len(db) <= MaxVisits
    /\ expired \in 0..Len(db)
    /\ back \in Seq(VisitsTo(Len(db)))
    /\ Len(back) <= CacheLength
    /\ forward \in Seq(VisitsTo(Len(db)))
    /\ last \in VisitsTo(Len(db)) \cup {NoVisit}
    /\ moving \in Moves \cup ClosingsTo(Len(db)) \cup {Nothing}
    /\ opening \in OpeningsTo(Len(db)) \cup {Nothing}
    /\ gone \subseteq Temporary
    /\ moving.at = "unloadable" => last # NoVisit /\ PlaceOf(last) \in gone

Init ==
    /\ db = <<>>
    /\ expired = 0
    /\ back = <<>>
    /\ forward = <<>>
    /\ last = NoVisit
    /\ moving = Nothing
    /\ opening = Nothing
    /\ gone = {}

------------------------------------------------------------------------------
(* The chain in the database d: the way back from the visit id.  It ends   *)
(* at 0, or at a row that is no longer there.  It has at most as many      *)
(* visits as the database.                                                 *)
Way(d, id) ==
    LET at[j \in 0..Len(d)] ==
            IF j = 0 THEN id
            ELSE IF at[j - 1] <= expired THEN 0 ELSE d[at[j - 1]].referer
    IN at

(* The rows that are there and whose places are not obsolete. *)
There(d) == {i \in expired + 1..Len(d) : ~ d[i].obsolete}

(* Those of the rows that are on the way, in its order. *)
Chain(d, id, rows) ==
    LET way == [k \in 1..Len(d) |-> Way(d, id)[k - 1]]
    IN Picked(way, {k \in 1..Len(d) : way[k] \in rows})

(* The way back from id ends at a row that was not kept. *)
Broken(d, id) == \E k \in 0..Len(d) : Way(d, id)[k] \in 1..expired

AtMost(s, n) == SubSeq(s, 1, IF n < Len(s) THEN n ELSE Len(s))

(* visit_from_id: without an id it is the latest visit. *)
Top(d, id) == IF id = 0 THEN Len(d) ELSE id

(* _load_recent_history_cache, of a database d: the first numForward       *)
(* visits are the forward ones, the next is the last visit.  Each refers   *)
(* to the next, the last one to none.                                      *)
LoadCache(d, top, numForward) ==
    LET ids == AtMost(Chain(d, Top(d, top), There(d)),
                      2 * RecentLength + 1 + numForward)
        n == Len(ids)
        visits == [i \in 1..n |->
                     [id |-> ids[i], ref |-> IF i = n THEN 0 ELSE ids[i + 1]]]
    IN [forward |-> AtMost(visits, numForward),
        last |-> IF n > numForward THEN visits[numForward + 1] ELSE NoVisit,
        back |-> SubSeq(visits, numForward + 2, n)]

SetSession(s) ==
    /\ forward' = s.forward
    /\ last' = s.last
    /\ back' = s.back

------------------------------------------------------------------------------
(* _replenish_recent_back_visits.  last_good_loc stays the visit that was  *)
(* the oldest one, and refers to the last visit read, or to none if the    *)
(* chain came to its end.                                                  *)
ToLoad == CacheLength - Len(back)

Oldest == back[Len(back)]

ReplenishWith(ids) ==
    LET read == AtMost(ids, ToLoad)
        ref == IF Len(ids) < ToLoad /\ ~ Broken(db, Oldest.ref) THEN 0
               ELSE IF read = <<>> THEN Oldest.ref ELSE read[Len(read)]
    IN [back EXCEPT ![Len(back)].ref = ref]
       \o [i \in DOMAIN read |-> [id |-> read[i], ref |-> db[read[i]].referer]]

(* [variant] the visits of obsolete places are read with the others *)
ReplenishedWithObsolete ==
    ReplenishWith(Chain(db, Oldest.ref, expired + 1..Len(db)))

Replenished == ReplenishWith(Chain(db, Oldest.ref, There(db)))

Depleted(n) ==
    /\ back # <<>>
    /\ n > Len(back) \/ Len(back) <= RecentLength + 2
    /\ Oldest.ref # 0

(* visit_from_id raises for a row that is not there, which is not caught   *)
(* as it is in _load_recent_history_cache.                                 *)
ReplenishRaises(n) ==
    /\ Depleted(n)
    /\ Broken(db, Oldest.ref)
    /\ Len(Chain(db, Oldest.ref, There(db))) < ToLoad

BackVisits(n) == IF Depleted(n) THEN Replenished ELSE back

------------------------------------------------------------------------------
(* add_loc, and update_referer_id of the nearest forward visit. *)
Added(place, v) ==
    Append(IF forward = <<>> THEN db
           ELSE [db EXCEPT ![forward[Len(forward)].id].referer = v.id],
           [place |-> place, referer |-> v.ref, obsolete |-> FALSE])

ReferTo(v) ==
    IF forward = <<>> THEN <<>>
    ELSE [forward EXCEPT ![Len(forward)].ref = v.id]

(* The current location is where the last move led. *)
IsLastVisit(curr) == last # NoVisit /\ curr = PlaceOf(last)

New(visits) ==
    [id |-> Len(db) + 1, ref |-> IF visits = <<>> THEN 0 ELSE visits[1].id]

(* The current location becomes a visit of its own: the user has moved on. *)
(* No visit is made without a view.                                        *)
Moved(curr) == curr # NoPlace /\ ~ IsLastVisit(curr)

(* The visit that is left at curr, which refers to the first of visits,    *)
(* and the forward visits, of which the nearest now refers to it.          *)
Here(curr, visits) ==
    IF curr = NoPlace THEN <<>>
    ELSE IF Moved(curr) THEN <<New(visits)>> ELSE <<last>>

Linked(curr, visits) == IF Moved(curr) THEN ReferTo(New(visits)) ELSE forward

(* add_loc asserts that the location it makes a visit of has no id yet. *)
Leave(curr, hasId, visits) ==
    /\ Moved(curr) => ~ hasId /\ Len(db) < MaxVisits
    /\ db' = IF Moved(curr) THEN Added(curr, New(visits)) ELSE db

CanGoBack(n) ==
    /\ n <= CacheLength
    /\ back # <<>>
    /\ ~ ReplenishRaises(n)
    /\ n <= Len(BackVisits(n))

(* [variant] the visit gone to is not taken from the back visits *)
GoBackPeeking(curr, hasId, n) ==
    /\ CanGoBack(n)
    /\ Leave(curr, hasId, BackVisits(n))
    /\ LET visits == BackVisits(n) IN
       /\ forward' = Linked(curr, visits) \o Here(curr, visits)
                     \o SubSeq(visits, 1, n - 1)
       /\ last' = visits[n]
       /\ back' = SubSeq(visits, n, Len(visits))

GoBack(curr, hasId, n) ==
    /\ CanGoBack(n)
    /\ Leave(curr, hasId, BackVisits(n))
    /\ LET visits == BackVisits(n) IN
       /\ forward' = Linked(curr, visits) \o Here(curr, visits)
                     \o SubSeq(visits, 1, n - 1)
       /\ last' = visits[n]
       /\ back' = SubSeq(visits, n + 1, Len(visits))

CanGoForward(n) == n <= Len(forward)

GoForward(curr, hasId, n) ==
    /\ CanGoForward(n)
    /\ Leave(curr, hasId, back)
    /\ LET visits == Linked(curr, back)
           m == Len(visits)
       IN /\ back' = AtMost(SubSeq(visits, m - n + 2, m) \o Here(curr, back)
                            \o back, CacheLength)
          /\ last' = visits[m - n + 1]
          /\ forward' = SubSeq(visits, 1, m - n)

Go(backwards, curr, hasId, n) ==
    \/ backwards /\ GoBack(curr, hasId, n)
    \/ ~ backwards /\ GoForward(curr, hasId, n)

(* go_back or go_forward raises: HistoryError, or the assertion of add_loc *)
(* after the back visits were replenished.                                 *)
Asserts(curr, hasId) == hasId /\ Moved(curr)

GoRaises(backwards, curr, hasId, n) ==
    /\ IF backwards THEN ~ CanGoBack(n) \/ Asserts(curr, hasId)
                    ELSE ~ CanGoForward(n) \/ Asserts(curr, hasId)
    /\ back' = IF backwards /\ n <= CacheLength /\ back # <<>>
               THEN BackVisits(n) ELSE back
    /\ UNCHANGED <<db, forward, last>>

------------------------------------------------------------------------------
(* The session is no longer what the move that waits has left. *)
Disturbed == IF opening = Nothing THEN Nothing
             ELSE [opening EXCEPT !.undisturbed = FALSE]

(* [variant] the deque has no limit *)
NoteUnlimited(place) ==
    /\ moving = Nothing
    /\ place \notin gone
    /\ ~ (back # <<>> /\ PlaceOf(back[1]) = place)
    /\ Len(db) < MaxVisits
    /\ db' = Append(db, [place |-> place, referer |-> New(back).ref,
                         obsolete |-> FALSE])
    /\ back' = <<New(back)>> \o back
    /\ forward' = <<>>
    /\ opening' = Disturbed
    /\ UNCHANGED <<expired, last, moving, gone>>

(* koHistory.note_loc and HistorySession.note_loc: the user was here.  A   *)
(* location on the line of the newest back visit is not noted.             *)
Note(place) ==
    /\ moving = Nothing
    /\ place \notin gone
    /\ ~ (back # <<>> /\ PlaceOf(back[1]) = place)
    /\ Len(db) < MaxVisits
    /\ db' = Append(db, [place |-> place, referer |-> New(back).ref,
                         obsolete |-> FALSE])
    /\ back' = AtMost(<<New(back)>> \o back, CacheLength)
    /\ forward' = <<>>
    /\ opening' = Disturbed
    /\ UNCHANGED <<expired, last, moving, gone>>

(* A buffer without a file is closed, or a debugger session ends. *)
CloseTemporary(place) ==
    /\ moving = Nothing
    /\ place \in Temporary \ gone
    /\ gone' = gone \cup {place}
    /\ UNCHANGED <<db, expired, session, moving, opening>>

(* What a move leads to, in _go_to_location: a place that cannot be        *)
(* opened, an open view, or a file to be opened, of which there is one at  *)
(* a time here.  It is recorded where the move started from.               *)
Arrive(backwards, curr, hasId, n, explicit) ==
    IF PlaceOf(last)' \in gone
    THEN /\ moving' = [at |-> "unloadable", backwards |-> backwards, n |-> n,
                       curr |-> curr, hasId |-> hasId \/ db' # db,
                       explicit |-> explicit]
         /\ opening' = Disturbed
    ELSE /\ moving' = Nothing
         /\ \/ opening' = Disturbed
            \/ /\ opening = Nothing
               /\ PlaceOf(last)' \notin Temporary
               /\ opening' = [at |-> "opening", backwards |-> backwards,
                              n |-> n, visit |-> last', from |-> curr,
                              back |-> PlacesOf(back),
                              forward |-> PlacesOf(forward),
                              undisturbed |-> TRUE]

(* history_back and history_forward: a command, or an explicit choice from *)
(* the list of recent locations.                                           *)
Move(backwards, curr, n, explicit) ==
    /\ moving = Nothing
    /\ curr \notin gone
    /\ explicit \/ n = 1
    /\ \/ /\ Go(backwards, curr, FALSE, n)
          /\ Arrive(backwards, curr, FALSE, n, explicit)
       \/ /\ GoRaises(backwards, curr, FALSE, n)
          /\ UNCHANGED <<moving, opening>>
    /\ UNCHANGED <<expired, gone>>

(* The number of visits that reload_recent_history_cache makes the forward *)
(* ones: those of the place that is gone do not count, nor those that the  *)
(* move has put there.                                                     *)
Others(visits, place) ==
    Cardinality({i \in DOMAIN visits : PlaceOf(visits[i]) # place})

ForwardVisits(place, backwards, n) ==
    IF backwards
    THEN Others(SubSeq(forward, 1, Len(forward) - n), place)
    ELSE Others(forward, place) + Others(AtMost(back, n - 1), place)

(* obsolete_uri and reload_recent_history_cache: the place the move led to *)
(* is gone, with all its visits.  A command goes on in its direction if    *)
(* there is more; an explicit choice does not.                             *)
Skip ==
    /\ moving.at = "unloadable"
    /\ LET place == PlaceOf(last)
           marked == [i \in DOMAIN db |->
                         IF db[i].place = place
                         THEN [db[i] EXCEPT !.obsolete = TRUE] ELSE db[i]]
           top == IF forward # <<>> THEN forward[1] ELSE last
           s == LoadCache(marked, top.id,
                            ForwardVisits(place, moving.backwards, moving.n))
           more == (IF moving.backwards THEN s.back ELSE s.forward) # <<>>
       IN /\ db' = marked
          /\ SetSession(s)
          /\ moving' = IF more /\ ~ moving.explicit
                       THEN [moving EXCEPT !.at = "again"] ELSE Nothing
    /\ UNCHANGED <<expired, opening, gone>>

Again ==
    /\ moving.at = "again"
    /\ LET m == moving IN
       \/ /\ Go(m.backwards, m.curr, m.hasId, m.n)
          /\ Arrive(m.backwards, m.curr, m.hasId, m.n, m.explicit)
       \/ /\ GoRaises(m.backwards, m.curr, m.hasId, m.n)
          /\ moving' = Nothing
          /\ UNCHANGED opening
    /\ UNCHANGED <<expired, gone>>

(* The file is open, and the user is there. *)
Opened ==
    /\ moving = Nothing
    /\ opening # Nothing
    /\ opening' = Nothing
    /\ UNCHANGED <<db, expired, session, moving, gone>>

(* [variant] one step is undone, however far the move was *)
LoadFailsByOne ==
    /\ moving = Nothing
    /\ opening # Nothing
    /\ opening' = Nothing
    /\ LET curr == PlaceOf(opening.visit) IN
       \/ Go(~ opening.backwards, curr, TRUE, 1)
       \/ GoRaises(~ opening.backwards, curr, TRUE, 1)
    /\ UNCHANGED <<expired, moving, gone>>

(* _on_load_failure: the file could not be opened, and the move is undone  *)
(* with the location that failed as the current one.                       *)
LoadFails ==
    /\ moving = Nothing
    /\ opening # Nothing
    /\ opening' = Nothing
    /\ LET curr == PlaceOf(opening.visit) IN
       \/ Go(~ opening.backwards, curr, TRUE, opening.n)
       \/ GoRaises(~ opening.backwards, curr, TRUE, opening.n)
    /\ UNCHANGED <<expired, moving, gone>>

(* The program is closed and started again: save, _write_db_to_disk and    *)
(* load.  The views of temporary places are not restored.                  *)
Saved == IF forward # <<>> THEN forward[1].id
         ELSE IF back # <<>> THEN back[1].id ELSE 0

Close ==
    /\ moving = Nothing
    /\ opening = Nothing
    /\ expired' = IF Len(db) > Kept THEN Len(db) - Kept ELSE 0
    /\ moving' = [at |-> "closed", top |-> Saved, numForward |-> Len(forward)]
    /\ gone' = Temporary
    /\ UNCHANGED <<db, session, opening>>

Load ==
    /\ moving.at = "closed"
    /\ SetSession(LoadCache(db, moving.top, moving.numForward))
    /\ moving' = Nothing
    /\ UNCHANGED <<db, expired, opening, gone>>

Next ==
    \/ \E place \in Places : Note(place)
    \/ \E place \in Temporary : CloseTemporary(place)
    \/ \E backwards, explicit \in BOOLEAN, curr \in Places \cup {NoPlace},
          n \in 1..MaxMove : Move(backwards, curr, n, explicit)
    \/ Skip
    \/ Again
    \/ Opened
    \/ LoadFails
    \/ Close
    \/ Load

Spec == Init /\ [][Next]_vars

------------------------------------------------------------------------------
(* The deques never offer a visit of a place that was found to be gone:    *)
(* obsolete_uri marks the rows, and every way of reading the chain into    *)
(* the deques afterwards has to leave them out.                            *)
ObsoleteNeverOffered ==
    \A v \in ToSet(back) \cup ToSet(forward) : ~ db[v.id].obsolete

(* A visit is offered once: moving, replenishing and reloading put it into *)
(* one of the deques, or make it the last visit, but not both.  It is what *)
(* keeps the chain of referers without a cycle, on which loading relies.   *)
NoVisitTwice ==
    LET ids == [i \in 1..Len(forward \o back) |-> (forward \o back)[i].id]
    IN IsInjective(ids) /\ last.id \notin ToSet(ids)

(* When a file cannot be opened the user is still where the move started:  *)
(* _on_load_failure leads back there, with the same visits before and      *)
(* behind it, unless others were noted in the meantime, or going back is   *)
(* too far for a session, or has to replenish it with visits that were not *)
(* kept.  The back visits may have been replenished, or may have lost      *)
(* their oldest ones.                                                      *)
FailedLoadIsUndone ==
    [][/\ LoadFails
       /\ opening.undisturbed
       /\ opening.from # NoPlace
       /\ ~ opening.backwards => /\ opening.n <= CacheLength
                                /\ ~ ReplenishRaises(opening.n)
       =>
        /\ PlaceOf(last)' = opening.from
        /\ PlacesOf(forward)' = opening.forward
        /\ \/ IsPrefix(PlacesOf(back)', opening.back)
           \/ IsPrefix(opening.back, PlacesOf(back)')]_vars
=============================================================================
