------------------------------- MODULE Notices -------------------------------
(***************************************************************************)
(* What users are told and on which channels: the dispatch of one          *)
(* notification (services/notifications.py, notification_events.py and the *)
(* providers), the opt-outs (services/notification_preferences.py), the    *)
(* devices that take pushes (api/v1/device_tokens.py), and the log and the *)
(* switches behind api/v1/notifications.py, which no dispatch reads.       *)
(***************************************************************************)
EXTENDS Sessions, Naturals, SequencesExt, FiniteSetsExt

CONSTANTS
    NoticeUsers,   \* users who are told something
    Devices,       \* FCM tokens
    NoticeTypes,   \* the types of notification that are sent
    Senders,       \* dispatches that can be in progress at one time
    MaxUpdates,    \* bound on the updates of a bulk request
    MaxLog         \* bound on the rows of the log

ASSUME NoticesAssumption ==
    /\ NoticeUsers \subseteq Nat \ {0}
    /\ MaxUpdates \in Nat /\ MaxLog \in Nat

VARIABLES
    noted,         \* noted[k]: the row of an opt-out, a device or the switches
    noteCall,      \* noteCall[c]: a request that changes such rows
    notice,        \* notice[n]: a dispatch, send_notification
    log,           \* notification_logs
    holder,        \* history: who registered a device last, 0 if nobody holds it
    swapped        \* history: devices that overlapping requests were about

noticeVars == <<noted, noteCall, notice, log, holder, swapped>>

Channel == {"push", "sms", "email"}

\* The channels of a type, in the order they are tried.
ChannelsOf(type) ==
    CASE type = "sos_alert" -> <<"push", "sms", "email">>
      [] type \in {"ride_matched", "ride_cancelled", "driver_arrived",
                   "ride_reminder"} -> <<"push", "sms">>
      [] type \in {"ride_completed", "payment_received", "account_verification",
                   "payout_completed"} -> <<"push", "email">>
      [] OTHER -> <<"push">>

OptOut(u, type, ch) == <<"pref", u, type, ch>>
Device(d)   == <<"token", d>>
Switches(u) == <<"switch", u>>

PrefKeys   == {OptOut(u, type, ch) : u \in NoticeUsers, type \in NoticeTypes, ch \in Channel}
DeviceKeys == {Device(d) : d \in Devices}
SwitchKeys == {Switches(u) : u \in NoticeUsers}
NoteKeys   == PrefKeys \union DeviceKeys \union SwitchKeys

\* on: enabled, is_active, or ride_updates.  owner: the user of a device.
NoteRow == [there : BOOLEAN, on : BOOLEAN, owner : NoticeUsers \union {0}]
NoRow   == [there |-> FALSE, on |-> TRUE, owner |-> 0]

LogRow == [user : NoticeUsers, channel : Channel, sent : BOOLEAN, read : BOOLEAN]

NoteIdle == [todo |-> <<>>, copies |-> <<>>]

\* muted: channels the user had turned off from the start of the dispatch on.
\* blind: a preference could not be read.
Silent == [phase |-> "idle", user |-> 0, type |-> "", devices |-> {}, left |-> <<>>,
           tried |-> {}, sent |-> {}, rows |-> <<>>, muted |-> {}, blind |-> FALSE]

NoticesTypeOK ==
    /\ noted \in [NoteKeys -> NoteRow]
    /\ \A c \in Requests : DOMAIN noteCall[c].copies \subseteq DOMAIN noteCall[c].todo
    /\ \A n \in Senders : notice[n].phase \in {"idle", "check", "send"}
    /\ log \in Seq(LogRow) /\ Len(log) <= MaxLog
    /\ holder \in [Devices -> NoticeUsers \union {0}]

NoticesInit ==
    /\ noted = [k \in NoteKeys |-> NoRow]
    /\ noteCall = [c \in Requests |-> NoteIdle]
    /\ notice = [n \in Senders |-> Silent]
    /\ log = <<>>
    /\ holder = [d \in Devices |-> 0]
    /\ swapped = {}

-----------------------------------------------------------------------------
(* Requests that change rows.  todo[k] is what row k is to become.          *)

BeginNote(c, todo, copies) ==
    LET met == {d \in Devices : /\ Device(d) \in DOMAIN todo
                                /\ \E x \in Requests : Device(d) \in DOMAIN noteCall[x].todo}
    IN  /\ noteCall[c] = NoteIdle
        /\ noteCall' = [noteCall EXCEPT ![c] = [todo |-> todo, copies |-> copies]]
        /\ swapped' = swapped \union met
        /\ UNCHANGED <<noted, notice, log, holder>>

\* set_preference, or bulk_set_preferences with several updates.
SetPreferences(c, u, wanted, on) ==
    /\ wanted \subseteq NoticeTypes \X Channel
    /\ BeginNote(c, [k \in {OptOut(u, w[1], w[2]) : w \in wanted} |->
                        [there |-> TRUE, on |-> on, owner |-> 0]], <<>>)

\* A request about one row begins by reading it.
BeginOne(c, k, new) == BeginNote(c, [j \in {k} |-> new], [j \in {k} |-> noted[k]])

\* A device goes to the user who registers it last, whoever had it.
RegisterDevice(c, u, d) ==
    BeginOne(c, Device(d), [there |-> TRUE, on |-> TRUE, owner |-> u])

\* Only its owner deregisters a device.
DeregisterDevice(c, u, d) ==
    /\ noted[Device(d)].there /\ noted[Device(d)].owner = u
    /\ BeginOne(c, Device(d), [noted[Device(d)] EXCEPT !.on = FALSE])

\* Reading the switches makes their row as well.
SetSwitches(c, u, on) ==
    BeginOne(c, Switches(u), [there |-> TRUE, on |-> on, owner |-> 0])

\* The opt-outs of a request are read one by one.
ReadRow(c, k) ==
    LET call == noteCall[c]
    IN  /\ k \in DOMAIN call.todo \ DOMAIN call.copies
        /\ noteCall' = [noteCall EXCEPT ![c].copies =
               [j \in DOMAIN call.copies \union {k} |->
                   IF j = k THEN noted[k] ELSE call.copies[j]]]
        /\ UNCHANGED <<noted, notice, log, holder, swapped>>

\* An insert fails if the row is there by now, an update if it is gone.
Writes(call, k) == call.todo[k] # call.copies[k]
Conflict(call, k) == Writes(call, k) /\ noted[k].there # call.copies[k].there

\* What a dispatch in progress must keep quiet about.
StillMuted(rows) ==
    [n \in Senders |-> [notice[n] EXCEPT !.muted =
        {ch \in @ : LET row == rows[OptOut(notice[n].user, notice[n].type, ch)]
                    IN  row.there /\ ~row.on}]]

CommitNote(c) ==
    LET call == noteCall[c]
        new  == [k \in NoteKeys |->
                    IF k \in DOMAIN call.todo
                    THEN Flushed(noted[k], Merge(noted[k], call.copies[k], call.todo[k]))
                    ELSE noted[k]]
    IN  /\ call # NoteIdle /\ DOMAIN call.copies = DOMAIN call.todo
        /\ ~\E k \in DOMAIN call.todo : Conflict(call, k)
        /\ noted' = new
        /\ notice' = StillMuted(new)
        /\ holder' = [d \in Devices |->
               IF Device(d) \notin DOMAIN call.todo \/ ~GetDbCommits THEN holder[d]
               ELSE IF call.todo[Device(d)].on THEN call.todo[Device(d)].owner ELSE 0]
        /\ noteCall' = [noteCall EXCEPT ![c] = NoteIdle]
        /\ UNCHANGED <<log, swapped>>

\* A conflict, a lost connection or a stop of the process.
NoteCallLost(c) ==
    /\ noteCall[c] # NoteIdle
    /\ noteCall' = [noteCall EXCEPT ![c] = NoteIdle]
    /\ UNCHANGED <<noted, notice, log, holder, swapped>>

\* reset_preference: one DELETE.
ResetPreference(u, type, ch) ==
    LET new == [noted EXCEPT ![OptOut(u, type, ch)] = Flushed(@, NoRow)]
    IN  /\ noted' = new
        /\ notice' = StillMuted(new)
        /\ UNCHANGED <<noteCall, log, holder, swapped>>

-----------------------------------------------------------------------------
(* send_notification, for one user.                                         *)

DevicesOf(u) == {d \in Devices : LET row == noted[Device(d)]
                                 IN  row.there /\ row.on /\ row.owner = u}

\* The devices are read once, before the channels are tried.
StartNotice(n, u, type) ==
    /\ notice[n] = Silent
    /\ Len(log) + 3 <= MaxLog
    /\ notice' = [notice EXCEPT ![n] = [Silent EXCEPT
           !.phase = "check", !.user = u, !.type = type, !.left = ChannelsOf(type),
           !.devices = DevicesOf(u),
           !.muted = {ch \in Channel : LET row == noted[OptOut(u, type, ch)]
                                       IN  row.there /\ ~row.on}]]
    /\ UNCHANGED <<noted, noteCall, log, holder, swapped>>

\* Mutant: a type that is on for one channel is on for all.
EnabledOnAny(u, type, ch) ==
    \E any \in Channel : LET row == noted[OptOut(u, type, any)]
                         IN  row.there => row.on

\* No row means enabled.
IsChannelEnabled(u, type, ch) ==
    LET row == noted[OptOut(u, type, ch)] IN row.there => row.on

Attempt(run, sent) ==
    LET ch == Head(run.left)
    IN  [run EXCEPT !.phase = "check", !.left = Tail(@), !.tried = @ \union {ch},
                    !.sent = IF sent THEN @ \union {ch} ELSE @,
                    !.rows = Append(@, [user |-> run.user, channel |-> ch,
                                        sent |-> sent, read |-> FALSE])]

\* A channel that is off is logged as failed; an alert is not asked about.  A
\* preference that cannot be read does not stop the channel.
CheckChannel(n, readable) ==
    LET run == notice[n]
        on  == IsChannelEnabled(run.user, run.type, Head(run.left))
    IN  /\ run.phase = "check" /\ run.left # <<>>
        /\ run.type = "sos_alert" => readable
        /\ notice' = [notice EXCEPT ![n] =
               IF run.type = "sos_alert" \/ ~readable \/ on
               THEN [run EXCEPT !.phase = "send", !.blind = @ \/ ~readable]
               ELSE [Attempt(run, FALSE) EXCEPT !.tried = run.tried]]
        /\ UNCHANGED <<noted, noteCall, log, holder, swapped>>

\* A push goes to all devices at once; it takes one.
CanPush(run) == run.devices # {}

\* The provider may not be configured, or refuse, or fail.
SendOn(n, sent) ==
    LET run == notice[n]
    IN  /\ run.phase = "send"
        /\ sent /\ Head(run.left) = "push" => CanPush(run)
        /\ notice' = [notice EXCEPT ![n] = Attempt(run, sent)]
        /\ UNCHANGED <<noted, noteCall, log, holder, swapped>>

\* The rows of the log are the caller's to commit.
EndNotice(n) ==
    /\ notice[n].phase = "check" /\ notice[n].left = <<>>
    /\ log' = Flushed(log, log \o notice[n].rows)
    /\ notice' = [notice EXCEPT ![n] = Silent]
    /\ Len(log') <= MaxLog
    /\ UNCHANGED <<noted, noteCall, holder, swapped>>

NoticeDies(n) ==
    /\ notice[n] # Silent
    /\ notice' = [notice EXCEPT ![n] = Silent]
    /\ UNCHANGED <<noted, noteCall, log, holder, swapped>>

\* mark_notification_read and mark_all_notifications_read.
MarkRead(u, which) ==
    /\ log' = [i \in DOMAIN log |->
           IF i \in which /\ log[i].user = u
           THEN Flushed(log[i], [log[i] EXCEPT !.read = TRUE]) ELSE log[i]]
    /\ UNCHANGED <<noted, noteCall, notice, holder, swapped>>

-----------------------------------------------------------------------------
NoteRequest(c) ==
    \/ \E u \in NoticeUsers :
           \/ \E size \in 1 .. MaxUpdates, on \in BOOLEAN :
                  \E wanted \in kSubset(size, NoticeTypes \X Channel) :
                      SetPreferences(c, u, wanted, on)
           \/ \E d \in Devices : RegisterDevice(c, u, d) \/ DeregisterDevice(c, u, d)
           \/ \E on \in BOOLEAN : SetSwitches(c, u, on)
    \/ \E k \in NoteKeys : ReadRow(c, k)
    \/ CommitNote(c) \/ NoteCallLost(c)

NoticesStep ==
    \/ \E c \in Requests : NoteRequest(c)
    \/ \E u \in NoticeUsers :
           \/ \E type \in NoticeTypes, ch \in Channel : ResetPreference(u, type, ch)
           \/ \E n \in Senders, type \in NoticeTypes : StartNotice(n, u, type)
           \/ \E i \in DOMAIN log : MarkRead(u, {i})
           \/ MarkRead(u, DOMAIN log)
    \/ \E n \in Senders :
           \/ \E flag \in BOOLEAN : CheckChannel(n, flag) \/ SendOn(n, flag)
           \/ EndNotice(n) \/ NoticeDies(n)

NoticesSpec == NoticesInit /\ [][NoticesStep]_noticeVars

-----------------------------------------------------------------------------
\* Whatever is set, reset or registered while a notification goes out, nothing
\* is sent on a channel its user had turned off before it began and has not
\* turned on since, unless the preference could not be read; an alert is tried
\* on every channel all the same (send_notification).
OptOutsAreKept ==
    \A n \in Senders :
        LET run == notice[n]
        IN  IF run.type = "sos_alert"
            THEN run.left = <<>> => run.tried = Channel
            ELSE run.blind \/ run.sent \intersect run.muted = {}

\* A device takes the pushes of the user who registered it last and of no one
\* else, until that user deregisters it, unless such requests overlapped
\* (register_device_token, deregister_device_token).
DevicesFollow ==
    \A d \in Devices \ swapped :
        LET row == noted[Device(d)]
        IN  IF holder[d] = 0 THEN ~(row.there /\ row.on)
            ELSE row.there /\ row.on /\ row.owner = holder[d]

\* What is sent was not turned off, and goes to the device of its user.
SentAsAsked == OptOutsAreKept /\ DevicesFollow
=============================================================================
