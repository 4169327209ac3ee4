------------------------------ MODULE EventModel ------------------------------
(***************************************************************************)
(* Event_model, the list of FPGAs that have published events, with the     *)
(* packets Pub_client receives for it.  Two copies are kept in step by     *)
(* hand: m_pub_info and the rows of the view, which are known by number.   *)
(*                                                                         *)
(* The time stamp is stored and never used; it is left out.                *)
(***************************************************************************)
EXTENDS Naturals, Sequences, SequencesExt

CONSTANTS
    Sources,            \* addresses and ports events come from
    Events,             \* bits of an event mask
    MaxInputs           \* bound on packets received and clicks of the user, together

ASSUME InputsAssumption == MaxInputs \in Nat

VARIABLES
    m_pub_info,     \* [from, count, event_mask] for each source, in order of arrival
    items,          \* the rows of the view: [from, count, event_mask]
    editable,       \* cells <<row, col>> of the view that hold an editable item
    typed,          \* history: cells whose text is the user's own
    heard,          \* history: for each source, packets since the count was cleared
    seen,           \* history: for each source, events since the mask was cleared
    inputs          \* packets and clicks so far

eventVars == <<m_pub_info, items, editable, typed, heard, seen, inputs>>

EventInit ==
    /\ m_pub_info = <<>> /\ items = <<>> /\ editable = {} /\ typed = {}
    /\ heard = [s \in Sources |-> 0] /\ seen = [s \in Sources |-> {}]
    /\ inputs = 0

Input == inputs < MaxInputs /\ inputs' = inputs + 1

\* recv_data's loop: the first record of the source, if there is one.
Known(s) == SelectInSeq(m_pub_info, LAMBDA inf : inf.from = s)

\* setItem puts a new item into the cells.  Items are editable unless they are told
\* otherwise, which only those of a new row are.
SetItems(cells) == editable' = editable \union cells /\ typed' = typed \ cells

\* Mutant of Updated: the mask is replaced.
UpdatedMaskReplaced(inf, mask) == [inf EXCEPT !.count = @ + 1, !.event_mask = mask]

\* The record of a source that publishes again.
Updated(inf, mask) ==
    [inf EXCEPT !.count = @ + 1, !.event_mask = @ \union mask]

\* on_pkt_ready_read for one datagram of the right version, and recv_data.  The loop
\* of recv_data counts the rows as it goes along.
Announce(s, mask) ==
    /\ Input
    /\ heard' = [heard EXCEPT ![s] = @ + 1]
    /\ seen' = [seen EXCEPT ![s] = @ \union mask]
    /\ LET row == Known(s)
           new == [from |-> s, count |-> 1, event_mask |-> mask]
       IN  IF row = 0
           THEN /\ m_pub_info' = Append(m_pub_info, new) /\ items' = Append(items, new)
                /\ UNCHANGED <<editable, typed>>
           ELSE LET inf == Updated(m_pub_info[row], mask)
                IN  /\ m_pub_info' = [m_pub_info EXCEPT ![row] = inf]
                    /\ items' = [items EXCEPT ![row].count = inf.count,
                                              ![row].event_mask = inf.event_mask]
                    /\ SetItems({<<row, 2>>, <<row, 3>>})

\* reset, for a click on the count or on the mask of a row.  For other columns it
\* changes nothing and lets the caller open a window.
ResetCount(row) ==
    /\ m_pub_info' = [m_pub_info EXCEPT ![row].count = 0]
    /\ items' = [items EXCEPT ![row].count = 0]
    /\ heard' = [heard EXCEPT ![items[row].from] = 0]
    /\ UNCHANGED seen
ResetMask(row) ==
    /\ m_pub_info' = [m_pub_info EXCEPT ![row].event_mask = {}]
    /\ items' = [items EXCEPT ![row].event_mask = {}]
    /\ seen' = [seen EXCEPT ![items[row].from] = {}]
    /\ UNCHANGED heard

Reset(row, col) ==
    /\ Input
    /\ \/ col = 2 /\ ResetCount(row)
       \/ col = 3 /\ ResetMask(row)
    /\ SetItems({<<row, col>>})

\* The user types over a cell with an editable item.  Nobody listens: the record stays
\* as it is.  The text may be anything; what another count or mask would show stands
\* for it.
TypeOver(row, col) ==
    /\ Input
    /\ <<row, col>> \in editable
    /\ typed' = typed \union {<<row, col>>}
    /\ \/ col = 2 /\ \E n \in 0 .. MaxInputs : items' = [items EXCEPT ![row].count = n]
       \/ col = 3 /\ \E mask \in SUBSET Events : items' = [items EXCEPT ![row].event_mask = mask]
    /\ UNCHANGED <<m_pub_info, editable, heard, seen>>

\* A source never has two records, its record has the row of the same number, and both
\* tell what has come from the source since its user cleared it: records and rows are updated apart,
\* by number, while rows are added and cleared.  Only a cell the user typed over may
\* say something else, until its source publishes again.
AnnouncementsAccounted ==
    /\ Len(items) = Len(m_pub_info)
    /\ \A r \in DOMAIN m_pub_info :
        /\ items[r].from = m_pub_info[r].from
        /\ m_pub_info[r].count = heard[m_pub_info[r].from]
        /\ m_pub_info[r].event_mask = seen[m_pub_info[r].from]
        /\ <<r, 2>> \notin typed => items[r].count = m_pub_info[r].count
        /\ <<r, 3>> \notin typed => items[r].event_mask = m_pub_info[r].event_mask
    /\ \A r, q \in DOMAIN m_pub_info : m_pub_info[r].from = m_pub_info[q].from => r = q

================================================================================
