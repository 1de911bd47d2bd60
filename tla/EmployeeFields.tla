--------------------------- MODULE EmployeeFields ---------------------------
(***************************************************************************)
(* Custom fields and custom tabs of the employee profile, the values of    *)
(* one employee, and what the profile, the workbook and the list filter    *)
(* make of them: features/employee-fields, features/employee-tabs and the  *)
(* custom data of features/employees/master-data.                          *)
(*                                                                         *)
(* A call reads and checks in one step and writes in later ones: other     *)
(* calls come in between.  A save of the profile writes all its values in  *)
(* one step, since the row of the employee, updated first, serialises the  *)
(* saves.  A reordering updates row after row in a transaction and keeps   *)
(* the rows locked; the database breaks a deadlock by failing one call.    *)
(*                                                                         *)
(* Data: a field has one of two types, free text and one of its options,   *)
(* which are stored in different columns; a section is a built-in one, the *)
(* header or the key of a tab.  Labels, descriptions, icons, keys and the  *)
(* validation of their form are left out, as is the organization, which    *)
(* every statement compares.  Permissions are checked before all else.     *)
(***************************************************************************)
EXTENDS Naturals, Sequences, FiniteSets, Functions

CONSTANTS Fields, Tabs,   \* ids of the rows that exist or may be created
          Edits, Nothing,
          Roles,          \* role codes of the organization
          Texts,          \* what a user may type or choose
          FieldForms,     \* bound: the definitions an administrator submits
          TabForms,       \* bound: the tabs an administrator submits
          Orders          \* bound: the orders an administrator submits

Types == {"text", "select"}
Builtin == "Other"
Header == "__header__"
Sections == Tabs \cup {Builtin, Header}

FieldForm == [type : Types, section : Sections, required : BOOLEAN,
              options : SUBSET Texts, visible : SUBSET Roles, editable : SUBSET Roles]
TabForm == [active : BOOLEAN, visible : SUBSET Roles]

\* Options are required, and only kept, where the type needs them.
ValidForm(f) == f.type = "select" => f.options # {}

ASSUME FieldAssumption ==
    /\ FieldForms \subseteq {f \in FieldForm : ValidForm(f)} /\ TabForms \subseteq TabForm
    /\ Orders \subseteq Seq(Fields) /\ \A s \in Orders : IsInjective(s)
    /\ Nothing \notin Fields \cup Tabs \cup Edits \cup Texts

VARIABLES field,   \* employee_custom_field_definitions
          tab,     \* employee_custom_tabs
          value,   \* employee_custom_field_values of the employee
          order,   \* display_order of a field, and the reordering that wrote it
          edit     \* what each call has read and still has to do

fieldVars == <<field, tab, value, order, edit>>

FieldStatuses == {"active", "inactive", "archived"}
Definition == [form : FieldForm, status : FieldStatuses, deleted : BOOLEAN]
Rank == [at : Nat, by : Edits \cup {Nothing}]
Value == [column : {"text", "json"}, text : Texts]

\* A reordering, under way or done.
Reordering == [op : {"reorder"}, to : Orders, next : Nat, before : Seq(Rank)]
              \cup [op : {"done"}, to : Orders]

ASSUME NothingIsNoReordering == Nothing \notin Reordering

Unused(c) == edit[c] = Nothing
Editing(c, op) == edit[c] # Nothing /\ edit[c].op = op
BeginEdit(c, r) == Unused(c) /\ edit' = [edit EXCEPT ![c] = r]
              /\ UNCHANGED <<field, tab, value, order>>
FinishEdit(c, result) == edit' = [edit EXCEPT ![c] = [op |-> result]]

Put(f, x, v) == [y \in DOMAIN f \cup {x} |-> IF y = x THEN v ELSE f[y]]

(***************************************************************************)
(* What a caller with the roles R sees and may write.                      *)
(***************************************************************************)
Matching(config, R) == config # {} => config \cap R # {}

ActiveFields == {f \in DOMAIN field : field[f].status = "active" /\ ~field[f].deleted}
VisibleFields(R) == {f \in ActiveFields : Matching(field[f].form.visible, R)}
WritableFields(R) == {f \in VisibleFields(R) : Matching(field[f].form.editable, R)}
VisibleTabs(R) == {t \in DOMAIN tab : tab[t].active /\ Matching(tab[t].visible, R)}

\* MUTANT of FieldsOfTab: a field keeps its tab although nobody shows it.
FieldsOfAnyTab(t, R) == {f \in VisibleFields(R) : field[f].form.section = t}

FieldsOfTab(t, R) == {f \in VisibleFields(R) : t \in VisibleTabs(R) /\ field[f].form.section = t}
CustomFieldsTab(R) == VisibleFields(R) \ UNION {FieldsOfTab(t, R) : t \in DOMAIN tab}

\* The tabs of the profile that can be opened, the one of the custom fields among them.
Strip(R) == VisibleTabs(R) \cup {Builtin}

WorkbookSheet(f, R) ==
    IF field[f].form.section \in VisibleTabs(R) THEN field[f].form.section ELSE Builtin

\* The count of the settings page asks for the status only.
CountedFields(t) == {f \in DOMAIN field : field[f].status = "active" /\ field[f].form.section = t}

Column(type) == IF type = "select" THEN "json" ELSE "text"

\* The value the profile shows, an empty one when the column of the type is.
Shown(f) ==
    IF f \in DOMAIN value /\ value[f].column = Column(field[f].form.type)
    THEN value[f].text ELSE Nothing

\* The filter of the employee list: an option that is unknown is no filter.
Predicate(f, text) ==
    IF field[f].form.type = "select" /\ text \notin field[f].form.options
    THEN Nothing ELSE [column |-> Column(field[f].form.type), text |-> text]
Finds(p, f) == p # Nothing => f \in DOMAIN value /\ value[f] = p

(***************************************************************************)
(* Tabs.                                                                   *)
(***************************************************************************)
CreateTab(c) ==
    \E t \in Tabs \ DOMAIN tab, form \in TabForms :
        BeginEdit(c, [op |-> "createTab", on |-> t, form |-> form])

UpdateTab(c) ==
    \E t \in DOMAIN tab, form \in TabForms :
        BeginEdit(c, [op |-> "updateTab", on |-> t, form |-> form])

SetTabStatus(c) ==
    \E t \in DOMAIN tab, active \in BOOLEAN :
        /\ tab[t].active # active
        /\ BeginEdit(c, [op |-> "tabStatus", on |-> t, active |-> active])

\* The unique index on the keys lets one of two creations through.
WriteTab(c) ==
    /\ edit[c] # Nothing /\ edit[c].op \in {"createTab", "updateTab", "tabStatus"}
    /\ LET r == edit[c] IN
       \/ /\ r.op = "createTab" /\ r.on \in DOMAIN tab
          /\ FinishEdit(c, "failed") /\ UNCHANGED tab
       \/ /\ r.op = "createTab" => r.on \notin DOMAIN tab
          /\ tab' = IF r.op = "tabStatus" THEN [tab EXCEPT ![r.on].active = r.active]
                    ELSE Put(tab, r.on, r.form)
          /\ FinishEdit(c, "done")
    /\ UNCHANGED <<field, value, order>>

(***************************************************************************)
(* Definitions.  A custom tab that is chosen is active when it is read; the *)
(* section sent for a built-in tab is free text, and may be the key of a    *)
(* tab that is retired or unknown.                                          *)
(***************************************************************************)
Locations == {"header", "custom-tab", "system-tab"}

Placeable(section, location) ==
    /\ location = "header" => section = Header
    /\ location = "custom-tab" => section \in DOMAIN tab /\ tab[section].active

CreateField(c) ==
    \E f \in Fields \ DOMAIN field, form \in FieldForms, location \in Locations :
        /\ Placeable(form.section, location)
        /\ BeginEdit(c, [op |-> "createField", on |-> f, form |-> form])

UpdateField(c) ==
    \E f \in DOMAIN field, form \in FieldForms, status \in FieldStatuses, location \in Locations :
        /\ Placeable(form.section, location)
        /\ BeginEdit(c, [op |-> "updateField", on |-> f, form |-> form, status |-> status])

SetFieldStatus(c) ==
    \E f \in DOMAIN field, status \in FieldStatuses :
        BeginEdit(c, [op |-> "fieldStatus", on |-> f, status |-> status])

DeleteField(c) == \E f \in DOMAIN field : BeginEdit(c, [op |-> "deleteField", on |-> f])

\* The copy has a key none of the fields had when they were read.
DuplicateField(c) ==
    \E f \in DOMAIN field, copy \in Fields \ DOMAIN field :
        BeginEdit(c, [op |-> "createField", on |-> copy, form |-> field[f].form])

InsertField(c) ==
    /\ Editing(c, "createField")
    /\ LET f == edit[c].on IN
       \/ f \in DOMAIN field /\ FinishEdit(c, "failed") /\ UNCHANGED <<field, order>>
       \/ /\ f \notin DOMAIN field
          /\ field' = Put(field, f, [form |-> edit[c].form, status |-> "active", deleted |-> FALSE])
          /\ order' = Put(order, f, [at |-> 0, by |-> Nothing])
          /\ FinishEdit(c, "done")
    /\ UNCHANGED <<tab, value>>

(***************************************************************************)
(* Reordering.  The transaction of c keeps the rows it has updated.        *)
(***************************************************************************)
Kept(c) == IF Editing(c, "reorder") THEN {edit[c].to[i] : i \in 1 .. edit[c].next - 1} ELSE {}

Locked(f, c) == \E d \in Edits \ {c} : f \in Kept(d)
NextRow(c) == edit[c].to[edit[c].next]

ReorderFields(c) ==
    \E s \in Orders :
        /\ s # <<>> /\ Range(s) \subseteq DOMAIN field
        /\ BeginEdit(c, [op |-> "reorder", to |-> s, next |-> 1, before |-> <<>>])

PlaceField(c) ==
    /\ Editing(c, "reorder") /\ ~Locked(NextRow(c), c)
    /\ order' = [order EXCEPT ![NextRow(c)] = [at |-> edit[c].next - 1, by |-> c]]
    /\ IF edit[c].next < Len(edit[c].to)
       THEN edit' = [edit EXCEPT ![c].next = @ + 1, ![c].before = Append(@, order[NextRow(c)])]
       ELSE edit' = [edit EXCEPT ![c] = [op |-> "done", to |-> edit[c].to]]
    /\ UNCHANGED <<field, tab, value>>

\* A failure, that of a deadlock among them, rolls the transaction back.
AbortReordering(c) ==
    /\ Editing(c, "reorder")
    /\ order' = [f \in DOMAIN order |->
                   IF \E i \in 1 .. edit[c].next - 1 : edit[c].to[i] = f
                   THEN edit[c].before[CHOOSE i \in 1 .. edit[c].next - 1 : edit[c].to[i] = f]
                   ELSE order[f]]
    /\ FinishEdit(c, "failed")
    /\ UNCHANGED <<field, tab, value>>

\* What the UPDATE of the call makes of the definition it finds.
Updated(x, r) ==
    CASE r.op = "updateField" -> [x EXCEPT !.form = r.form, !.status = r.status]
      [] r.op = "fieldStatus" -> [x EXCEPT !.status = r.status]
      [] r.op = "deleteField" -> [x EXCEPT !.status = "archived", !.deleted = TRUE]

WriteField(c) ==
    /\ edit[c] # Nothing /\ edit[c].op \in {"updateField", "fieldStatus", "deleteField"}
    /\ LET r == edit[c] IN
       /\ ~Locked(r.on, c)
       /\ field' = [field EXCEPT ![r.on] = Updated(@, r)]
       /\ order' = IF r.op = "updateField" THEN [order EXCEPT ![r.on] = [at |-> 0, by |-> Nothing]]
                   ELSE order
    /\ FinishEdit(c, "done")
    /\ UNCHANGED <<tab, value>>

(***************************************************************************)
(* Values.  The form says which fields it presents; a field it does not    *)
(* present keeps its value, one the caller may not write refuses it all.   *)
(***************************************************************************)
Parsed(f, text) ==
    IF text = Nothing THEN Nothing ELSE [column |-> Column(field[f].form.type), text |-> text]

Acceptable(f, text) ==
    IF text = Nothing THEN ~field[f].form.required
    ELSE field[f].form.type = "select" => text \in field[f].form.options

\* MUTANT of Presented: an absent field counts as an emptied one.
PresentedAll(form, R) == WritableFields(R)

Presented(form, R) == WritableFields(R) \cap DOMAIN form

Raw(form, f) == IF f \in DOMAIN form THEN form[f] ELSE Nothing

UpdateEmployeeCustomData(c) ==
    \E R \in SUBSET Roles : \E shown \in SUBSET DOMAIN field :
    \E form \in [shown -> Texts \cup {Nothing}] :
        /\ shown \cap ActiveFields \subseteq WritableFields(R)
        /\ \A f \in Presented(form, R) : Acceptable(f, Raw(form, f))
        /\ Presented(form, R) # {}
        /\ BeginEdit(c, [op |-> "save", shown |-> shown,
                     write |-> [f \in Presented(form, R) |-> Parsed(f, Raw(form, f))]])

DeleteEmployeeCustomData(c) ==
    \E R \in SUBSET Roles : \E f \in WritableFields(R) :
        BeginEdit(c, [op |-> "save", shown |-> {f}, write |-> [g \in {f} |-> Nothing]])

\* An upsert for each value; one that was emptied shows like one without a row.
WriteValues(c) ==
    /\ Editing(c, "save")
    /\ LET w == edit[c].write
           kept == {f \in DOMAIN value : f \notin DOMAIN w}
           set == {f \in DOMAIN w : w[f] # Nothing}
       IN value' = [f \in kept \cup set |-> IF f \in set THEN w[f] ELSE value[f]]
    /\ FinishEdit(c, "done")
    /\ UNCHANGED <<field, tab, order>>

ManageTabs(c) == CreateTab(c) \/ UpdateTab(c) \/ SetTabStatus(c) \/ WriteTab(c)

ManageFields(c) ==
    \/ CreateField(c) \/ UpdateField(c) \/ SetFieldStatus(c) \/ DeleteField(c)
    \/ DuplicateField(c) \/ InsertField(c) \/ WriteField(c)
    \/ ReorderFields(c) \/ PlaceField(c) \/ AbortReordering(c)

ManageValues(c) == UpdateEmployeeCustomData(c) \/ DeleteEmployeeCustomData(c) \/ WriteValues(c)

\* Some fields and tabs exist already.
FieldInit ==
    /\ \E rows \in SUBSET Fields : \E form \in FieldForms :
         /\ field = [f \in rows |-> [form |-> form, status |-> "active", deleted |-> FALSE]]
         /\ order = [f \in rows |-> [at |-> 0, by |-> Nothing]]
    /\ \E rows \in SUBSET Tabs : \E form \in TabForms : tab = [t \in rows |-> form]
    /\ value = [f \in {} |-> Nothing]
    /\ edit = [c \in Edits |-> Nothing]

FieldNext == \E c \in Edits : ManageTabs(c) \/ ManageFields(c) \/ ManageValues(c)

FieldSpec == FieldInit /\ [][FieldNext]_fieldVars

(***************************************************************************)
(* Properties.                                                             *)
(***************************************************************************)
\* The variables keep their types, and values belong to definitions that exist.
FieldTypeOK ==
    /\ DOMAIN field \subseteq Fields /\ \A f \in DOMAIN field : field[f] \in Definition
    /\ DOMAIN tab \subseteq Tabs /\ \A t \in DOMAIN tab : tab[t] \in TabForm
    /\ DOMAIN value \subseteq DOMAIN field /\ \A f \in DOMAIN value : value[f] \in Value
    /\ DOMAIN order = DOMAIN field /\ \A f \in DOMAIN order : order[f] \in Rank

\* The profile promises that a field on a tab that is retired, hidden from the
\* viewer or unknown falls through to the Custom Fields tab "rather than
\* vanishing": whoever looks, after any race of tabs retired and fields placed on
\* them, each visible field is in exactly one place, the same as in the workbook.
NoFieldVanishes ==
    \A R \in SUBSET Roles : \A f \in VisibleFields(R) :
        LET places == {t \in VisibleTabs(R) : f \in FieldsOfTab(t, R)} IN
        /\ f \in CustomFieldsTab(R) => places = {}
        /\ f \notin CustomFieldsTab(R) => places = {WorkbookSheet(f, R)}
        /\ WorkbookSheet(f, R) \in Strip(R)

\* Two administrators who reorder the same fields at once end with the order of
\* one of them, or with that of one and the failure of the other, never with a
\* mixture of both.
NoMixedOrder ==
    \A f, g \in DOMAIN order :
        LET c == order[f].by  d == order[g].by IN
        (/\ c # Nothing /\ d # Nothing
         /\ edit[c].op = "done" /\ edit[d].op = "done"
         /\ Range(edit[c].to) = Range(edit[d].to)) => c = d

\* A saved form changes no field it did not present: two users who save different
\* tabs of one employee keep each other's values.
FormsTouchTheirFields ==
    [][\A f \in DOMAIN field :
         (f \in DOMAIN value) # (f \in DOMAIN value') \/ (f \in DOMAIN value /\ value'[f] # value[f])
         => \E c \in Edits : Editing(c, "save") /\ edit'[c] # edit[c] /\ f \in edit[c].shown]_fieldVars

\* What the profile shows of an employee, the filter of the list finds.
FilterFindsShown ==
    \A f \in ActiveFields : Shown(f) # Nothing => Finds(Predicate(f, Shown(f)), f)

\* Fields, tabs, values and positions agree, whatever calls overlap.
FieldsConsistent ==
    /\ FieldTypeOK
    /\ NoFieldVanishes
    /\ NoMixedOrder
    /\ FilterFindsShown
=============================================================================

