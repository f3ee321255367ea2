---------------------------- MODULE ScheduleForms ----------------------------
(***************************************************************************)
(* The forms of the dashboard's page of schedules                          *)
(* (web/routes/schedules.rs and templates/schedules): a browser opens a    *)
(* form, submits it, and gets it back when it is rejected.  The address an *)
(* edit form is sent to names the schedule to replace.  How the saves of   *)
(* several handlers interleave is in SettingsStore.                        *)
(***************************************************************************)
EXTENDS Naturals, Sequences

CONSTANTS
  RowNames,    \* names of schedules
  Odd,         \* a name that is blank or has characters a URL reserves
  Bodies,      \* the rest of a schedule
  Bad,         \* a rest that the store rejects: no message, dates crossed
  Garbled,     \* a rest that is no schedule: no time of the day
  Browsers, NoForm,
  FirstRows,   \* what the schedules are at first
  MaxSubmits   \* bound

VARIABLES
  schedules,   \* the saved rows, in order
  form,        \* per browser the form it shows: where it is sent to ("new" or
               \* the name in its address), its fields, and, a history, the
               \* name of the row it was opened for
  submits

formVars == <<schedules, form, submits>>

FormsInit ==
  /\ schedules = FirstRows
  /\ form = [b \in Browsers |-> NoForm]
  /\ submits = 0

Row(name, body, enabled) == [name |-> name, body |-> body, enabled |-> enabled]
IsSaved(name) == \E i \in DOMAIN schedules : schedules[i].name = name

\* Schedule::validate for every row, and the names are unique.
Valid(rows) ==
  /\ \A i \in DOMAIN rows : rows[i].name # Odd /\ rows[i].body # Bad
  /\ \A i, j \in DOMAIN rows : rows[i].name = rows[j].name => i = j

\* The links of the page: the empty form, and the form of a saved row.
ListNew(b) ==
  /\ form' = [form EXCEPT ![b] = [to |-> "new", fields |-> Row(Odd, Bad, FALSE),
                                  opened |-> NoForm]]
  /\ UNCHANGED <<schedules, submits>>

ListEdit(b, i) ==
  /\ form' = [form EXCEPT ![b] = [to |-> schedules[i].name, fields |-> schedules[i],
                                  opened |-> schedules[i].name]]
  /\ UNCHANGED <<schedules, submits>>

Submit(b) == form[b] # NoForm /\ submits < MaxSubmits /\ submits' = submits + 1

\* The page with the rejected fields; an edit form is sent to the name that
\* stands in its fields.
render_validation(b, row) ==
  form' = [form EXCEPT ![b].to = IF @ = "new" THEN "new" ELSE row.name, ![b].fields = row]

\* The rows are saved and the browser is sent to the list, or they are not and
\* it gets the form back; saved is false when the disk refuses.
apply_or_rerender(b, row, rows, saved) ==
  IF ~Valid(rows) THEN render_validation(b, row) /\ UNCHANGED schedules
  ELSE /\ form' = [form EXCEPT ![b] = NoForm]
       /\ schedules' = IF saved THEN rows ELSE schedules

create(b, row, saved) ==
  /\ Submit(b) /\ form[b].to = "new"
  /\ IF row.body = Garbled THEN render_validation(b, row) /\ UNCHANGED schedules
     ELSE apply_or_rerender(b, row, Append(schedules, row), saved)

Replaced(name, row) ==
  [i \in DOMAIN schedules |-> IF schedules[i].name = name THEN row ELSE schedules[i]]

\* An address without a name, or with one cut short, is no route.
update(b, row, saved) ==
  /\ Submit(b) /\ form[b].to # "new"
  /\ IF form[b].to = Odd THEN form' = [form EXCEPT ![b] = NoForm] /\ UNCHANGED schedules
     ELSE IF row.body = Garbled THEN render_validation(b, row) /\ UNCHANGED schedules
     ELSE apply_or_rerender(b, row, Replaced(form[b].to, row), saved)

\* The buttons of a row of the page.
Pressed(b, name, rows, saved) ==
  /\ submits < MaxSubmits /\ submits' = submits + 1
  /\ IsSaved(name)
  /\ schedules' = IF saved THEN rows ELSE schedules
  /\ form' = [form EXCEPT ![b] = NoForm]

delete(b, name, saved) ==
  Pressed(b, name, SelectSeq(schedules, LAMBDA r : r.name # name), saved)

toggle(b, name, saved) ==
  Pressed(b, name, [i \in DOMAIN schedules |->
                      IF schedules[i].name = name
                      THEN [schedules[i] EXCEPT !.enabled = ~@] ELSE schedules[i]], saved)

FormsNext ==
  \E b \in Browsers :
    \/ ListNew(b)
    \/ \E i \in DOMAIN schedules : ListEdit(b, i)
    \/ \E name \in RowNames \cup {Odd}, body \in Bodies \cup {Bad, Garbled},
          enabled, saved \in BOOLEAN :
         \/ create(b, Row(name, body, enabled), saved)
         \/ update(b, Row(name, body, enabled), saved)
    \/ \E name \in RowNames, saved \in BOOLEAN : delete(b, name, saved) \/ toggle(b, name, saved)

FormsSpec == FormsInit /\ [][FormsNext]_formVars

-----------------------------------------------------------------------------
(* schedules.rs:623 says of a rejected edit that it is "restored into the  *)
(* editable form via `submitted` so they can fix and resubmit": the        *)
(* corrected form changes the schedule that it was opened for and no other.*)
EditsItsRow ==
  [][\A b \in Browsers :
       (form[b] # NoForm /\ form[b].to # "new" /\ form'[b] = NoForm
          /\ Len(schedules') = Len(schedules))
       => \A i \in DOMAIN schedules :
            schedules[i].name # form[b].opened =>
              /\ schedules'[i].name = schedules[i].name
              /\ schedules'[i].body = schedules[i].body]_formVars

=============================================================================
