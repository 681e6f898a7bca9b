------------------------------ MODULE Dashboard ------------------------------
(***************************************************************************)
(* dwho.tui.textual: the table of a DashboardApp and the background call   *)
(* of a ServiceDashboard that refreshes it.                                *)
(*                                                                         *)
(* A service keeps data that changes, one version after another.  perform  *)
(* reads it on a background thread; done, on the UI thread, displays the   *)
(* rows of the version it read.  Row keys are stable; the rest of a row    *)
(* is the version it comes from.  The search term is the set of the keys   *)
(* whose cells match it.  Textual's table posts highlight messages, which  *)
(* the application handles later.                                          *)
(***************************************************************************)
EXTENDS Naturals, Sequences, FiniteSets, SequencesExt

CONSTANTS
    Key, NoKey,
    MaxVersion,     \* bound: versions of the service's data
    MaxCalls,       \* bound: calls of perform
    MaxQueue        \* bound: highlight messages under way

ASSUME DashboardAssumption ==
    /\ NoKey \notin Key
    /\ MaxVersion \in Nat /\ MaxCalls \in Nat /\ MaxQueue \in Nat

VARIABLES
    version,    \* the service's data
    calls,      \* history: the calls performed, each with what it has come to
    busy,       \* self.busy
    open,       \* the application has not been closed
    rows,       \* self._rows: their keys in order, and the version of them all
    term,       \* the keys that the search matches
    visible,    \* self._visible_keys, in the order of the table
    cursor,     \* table.cursor_row, from 1
    messages,   \* highlight messages that are not handled yet
    details     \* the row in the detail panel: its key and version

table == <<rows, term, visible, cursor, messages, details>>
dashboardVars == <<version, calls, busy, open, table>>

NoDetails == [key |-> NoKey, version |-> 0]
Call == [at : {"started", "answered", "failed", "done"}, version : 0 .. MaxVersion]

DashboardTypeOK ==
    /\ version \in 0 .. MaxVersion
    /\ calls \in Seq(Call) /\ Len(calls) <= MaxCalls
    /\ busy \in BOOLEAN /\ open \in BOOLEAN
    /\ rows.keys \in Seq(Key) /\ rows.version \in 0 .. MaxVersion
    /\ term \subseteq Key
    /\ visible \in Seq(Key)
    /\ cursor \in Nat \ {0}
    /\ messages \in Seq(Key)
    /\ details \in [key : Key \cup {NoKey}, version : 0 .. MaxVersion]

DashboardInit ==
    /\ version = 0 /\ calls = <<>> /\ busy = FALSE /\ open = TRUE
    /\ rows = [keys |-> <<>>, version |-> 0] /\ term = Key
    /\ visible = <<>> /\ cursor = 1 /\ messages = <<>>
    /\ details = NoDetails

-----------------------------------------------------------------------------
(* The table                                                               *)

\* Mutant: the details are left to the highlight message.
ShowCursor_Later(keys, at, ver) == UNCHANGED details

ShowCursor(keys, at, ver) ==
    details' = IF keys = <<>> THEN NoDetails ELSE [key |-> keys[at], version |-> ver]

\* Mutant: the cursor stays at its row number.
CursorFor_Position(keys) == IF cursor <= Len(keys) THEN cursor ELSE 1

\* The new row of the key that was selected, or the first row.
CursorFor(keys) ==
    IF cursor <= Len(visible) /\ Contains(keys, visible[cursor])
    THEN CHOOSE i \in DOMAIN keys : keys[i] = visible[cursor]
    ELSE 1

\* The keys that match the search, in their order.
Matching(keys, t) ==
    LET first[i \in 0 .. Len(keys)] ==     \* those of the first i rows
            IF i = 0 THEN <<>>
            ELSE IF keys[i] \in t THEN Append(first[i - 1], keys[i]) ELSE first[i - 1]
    IN  first[Len(keys)]

\* _render_rows.  Filling the table may post messages, for its first row while it
\* is filled and for the row that the cursor is moved to.
Render(newRows, newTerm) ==
    LET keys == Matching(newRows.keys, newTerm)
        at == CursorFor(keys)
    IN  /\ rows' = newRows
        /\ term' = newTerm
        /\ visible' = keys
        /\ cursor' = at
        /\ \E posted \in {<<>>} \cup
                         (IF keys = <<>> THEN {} ELSE {<<keys[at]>>, <<keys[1], keys[at]>>}) :
              /\ Len(messages \o posted) <= MaxQueue
              /\ messages' = messages \o posted
        /\ ShowCursor(keys, at, newRows.version)

\* on_input_changed: the user edits the search.
Search(t) ==
    /\ open /\ t # term
    /\ Render(rows, t)
    /\ UNCHANGED <<version, calls, busy, open>>

\* The user moves the cursor; the table posts a message.
MoveCursor(at) ==
    /\ open /\ at \in DOMAIN visible /\ at # cursor
    /\ Len(messages) < MaxQueue
    /\ cursor' = at
    /\ messages' = Append(messages, visible[at])
    /\ UNCHANGED <<version, calls, busy, open, rows, term, visible, details>>

\* Mutant: any message about a visible row is obeyed.
Matches_Visible(k) == Contains(visible, k)

\* The message is about the row that the cursor is on now.
Matches(k) == cursor <= Len(visible) /\ visible[cursor] = k

\* on_data_table_row_highlighted, and _show_row.
Highlighted ==
    /\ open /\ messages # <<>>
    /\ LET k == Head(messages)
       IN  details' = IF Matches(k) /\ Contains(visible, k)
                      THEN [key |-> k, version |-> rows.version] ELSE details
    /\ messages' = Tail(messages)
    /\ UNCHANGED <<version, calls, busy, open, rows, term, visible, cursor>>

-----------------------------------------------------------------------------
(* The service                                                             *)

Change ==
    /\ version < MaxVersion
    /\ version' = version + 1
    /\ UNCHANGED <<calls, busy, open, table>>

\* perform refuses, and changes nothing, while it is busy.
Perform ==
    /\ open /\ ~busy /\ Len(calls) < MaxCalls
    /\ busy' = TRUE
    /\ calls' = Append(calls, [at |-> "started", version |-> 0])
    /\ UNCHANGED <<version, open, table>>

\* The call reads the service, or fails, on the background thread.
Answer(i) ==
    /\ calls[i].at = "started"
    /\ \/ calls' = [calls EXCEPT ![i] = [at |-> "answered", version |-> version]]
       \/ calls' = [calls EXCEPT ![i] = [at |-> "failed", version |-> version]]
    /\ UNCHANGED <<version, busy, open, table>>

Settle(i) ==
    /\ calls' = [calls EXCEPT ![i].at = "done"]
    /\ UNCHANGED <<version, open>>

\* Mutant: a failure leaves busy set.
Failed_Busy(i) ==
    /\ calls[i].at = "failed"
    /\ UNCHANGED <<busy, table>>
    /\ Settle(i)

\* A failure is presented, never retried.
Failed(i) ==
    /\ calls[i].at = "failed"
    /\ busy' = FALSE
    /\ UNCHANGED table
    /\ Settle(i)

\* done displays a snapshot: some keys, in some order.  Nothing is displayed when
\* display_rows refuses its rows, or the application has been closed.
Done(i) ==
    /\ calls[i].at = "answered"
    /\ busy' = FALSE
    /\ \/ UNCHANGED table
       \/ open /\ \E S \in {T \in SUBSET Key : IsFiniteSet(T)} : \E order \in SetToSeqs(S) :
                     Render([keys |-> order, version |-> calls[i].version], term)
    /\ Settle(i)

Quit ==
    /\ open /\ ~busy
    /\ open' = FALSE
    /\ UNCHANGED <<version, calls, busy, table>>

-----------------------------------------------------------------------------
CallStep == \E i \in DOMAIN calls : Answer(i) \/ Failed(i) \/ Done(i)

DashboardNext ==
    \/ Change \/ Perform \/ CallStep \/ Quit \/ Highlighted
    \/ \E t \in SUBSET Key : Search(t)
    \/ \E at \in DOMAIN visible : MoveCursor(at)

DashboardSpec == DashboardInit /\ [][DashboardNext]_dashboardVars

\* The event loop handles what was posted, and a call has a deadline, which is up to
\* the application (docs/textual.md).
DashboardFairSpec == DashboardSpec /\ WF_dashboardVars(CallStep) /\ WF_dashboardVars(Highlighted)

-----------------------------------------------------------------------------
\* The detail panel never shows a row that the table does not, nor an outdated
\* version of it, whatever messages of earlier tables are still under way; and once
\* all messages are handled it shows the row that the cursor is on.
DetailsCurrent ==
    IF details = NoDetails THEN visible = <<>>
    ELSE /\ Contains(visible, details.key) /\ details.version = rows.version
         /\ open /\ messages = <<>> => details.key = visible[cursor]

\* docs/textual.md: a refresh or a search keeps the selection, by key, as long as
\* the row is still there.
SelectionKept ==
    [][\A k \in Key : /\ cursor \in DOMAIN visible /\ visible[cursor] = k
                      /\ visible' # visible /\ Contains(visible', k)
                      => visible'[cursor'] = k]_dashboardVars

\* Whatever a call's outcome, the dashboard takes the next one and can be closed.
BusyEnds == busy ~> ~busy
=============================================================================
