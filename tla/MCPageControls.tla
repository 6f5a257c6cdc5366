----------------------------- MODULE MCPageControls -----------------------------
(***************************************************************************)
(* The controls of the pages for TLC: the filters of a request, the menus, *)
(* the sections of the settings, the account field, the forms of dialogs,  *)
(* the fields that configure a choice, the forms of the accounts, the      *)
(* language, and the templates.  They share no state, so a behaviour uses  *)
(* one of them.                                                            *)
(***************************************************************************)
EXTENDS RequestFilters, Menus, Accordion, AccountField, DialogForms, ConfigurableField,
        AccountForms, PageTemplates, TLC

CONSTANTS en, fr, e1, e2, e3, m1, m2, s1, s2, s3, ann, bob, t1, t2, t3, none, q1, q2, n1, n2, c1, c2, c3, l1, p1, p2

VARIABLE control   \* the one that is used

MCTypeOf == e1 :> "UPDATED" @@ e2 :> "DELETED" @@ e3 :> "DELETED"
MCFound  == t1 :> <<ann, bob>> @@ t2 :> <<bob>> @@ t3 :> <<>>

allVars == <<filtersVars, menusVars, accordionVars, fieldVars, formsVars, fieldState, accountsVars,
             templateVars, control>>

MCInit ==
  /\ FiltersInit /\ MenusInit /\ AccordionInit /\ FieldInit /\ FormsInit /\ ChoiceInit
  /\ AccountsInit /\ TemplatesInit
  /\ control \in {"filters", "menus", "accordion", "field", "forms", "choice", "accounts",
                  "language", "templates"}
  /\ control # "forms" => page = HomeButtons
  /\ control # "language" => ~address.mark /\ address.language = {} /\ language = en

UseFilters ==
  /\ control = "filters"
  /\ UNCHANGED <<menusVars, accordionVars, fieldVars, formsVars, fieldState, accountsVars,
                 templateVars, control>>

UseMenus ==
  /\ control = "menus"
  /\ UNCHANGED <<filtersVars, accordionVars, fieldVars, formsVars, fieldState, accountsVars,
                 templateVars, control>>

UseAccordion ==
  /\ control = "accordion"
  /\ UNCHANGED <<filtersVars, menusVars, fieldVars, formsVars, fieldState, accountsVars,
                 templateVars, control>>

UseField ==
  /\ control = "field"
  /\ UNCHANGED <<filtersVars, menusVars, accordionVars, formsVars, fieldState, accountsVars,
                 templateVars, control>>

UseForms ==
  /\ control = "forms"
  /\ UNCHANGED <<filtersVars, menusVars, accordionVars, fieldVars, fieldState, accountsVars,
                 templateVars, control>>

UseChoice ==
  /\ control = "choice"
  /\ UNCHANGED <<filtersVars, menusVars, accordionVars, fieldVars, formsVars, accountsVars,
                 templateVars, control>>

UseAccounts ==
  /\ control = "accounts"
  /\ UNCHANGED <<filtersVars, menusVars, accordionVars, fieldVars, formsVars, fieldState,
                 templateVars, control>>

UseLanguage ==
  /\ control = "language"
  /\ UNCHANGED <<filtersVars, menusVars, accordionVars, fieldVars, formsVars, fieldState,
                 templateVars, control>>

UseTemplates ==
  /\ control = "templates"
  /\ UNCHANGED <<filtersVars, menusVars, accordionVars, fieldVars, formsVars, fieldState,
                 accountsVars, control>>

\* Those that may be loaded.
Offered == IF control = "templates" /\ template = NoTemplate THEN PageTemplate ELSE {}

MCNext ==
  \/ UseFilters /\ HideDeleted
  \/ UseFilters /\ HideValid
  \/ \E l \in Language : UseFilters /\ HideLocale(l)
  \/ \E e \in Entry : UseFilters /\ Open(e)
  \/ UseMenus /\ ClickElsewhere
  \/ \E m \in Menu : UseMenus /\ Toggle(m)
  \/ \E m \in Menu : UseMenus /\ ArrowKey(m)
  \/ \E m \in Menu : UseMenus /\ EscapeKey(m)
  \/ \E m \in Menu \cup {NoToggle} : UseMenus /\ MoveFocus(m)
  \/ \E s \in Section : UseAccordion /\ Show(s)
  \/ \E s \in Section : UseAccordion /\ Hide(s)
  \/ \E s \in Section : UseAccordion /\ Complete(s)
  \/ UseField /\ FocusField
  \/ UseField /\ BlurField
  \/ \E t \in Text \cup {Empty} : UseField /\ Type(t)
  \/ \E q \in Query : UseField /\ Answer(q)
  \/ \E q \in Query : UseField /\ Lost(q)
  \/ UseField /\ DownArrow
  \/ UseField /\ UpArrow
  \/ \E i \in 1 .. Len(menu) : UseField /\ EnterItem(i)
  \/ UseField /\ LeaveMenu
  \/ UseField /\ SelectByKey
  \/ UseField /\ SelectByClick
  \/ UseField /\ EscapeMenu
  \/ UseField /\ AddACL
  \/ \E a \in Account : UseField /\ Added(a)
  \/ \E a \in Account : UseField /\ NotAdded(a)
  \/ UseForms /\ CloseAlert
  \/ \E post \in posts : UseForms /\ ServePost(post)
  \/ \E post \in posts : UseForms /\ Done(post)
  \/ \E post \in posts : UseForms /\ NotDone(post)
  \/ \E post \in posts : UseForms /\ LosePost(post)
  \/ \E o \in Opening, kind \in Kinds : UseForms /\ Click(o, kind)
  \/ \E o \in Opening : UseForms /\ NoDatum(o)
  \/ \E o \in Opening : UseForms /\ ShowForm(o)
  \/ \E o \in Opening : UseForms /\ SubmitForm(o)
  \/ \E o \in Opening : UseForms /\ SubmitThrows(o)
  \/ \E o \in Opening : UseForms /\ ClickUpload(o)
  \/ \E o \in Opening : UseForms /\ Confirm(o)
  \/ \E o \in Opening : UseForms /\ Decline(o)
  \/ \E o \in Opening : UseForms /\ CancelForm(o)
  \/ \E o \in Opening : UseForms /\ HideForm(o)
  \/ \E o \in Opening, d \in Datum : UseForms /\ GetDatum(o, d)
  \/ \E o \in Opening, n \in Name : UseForms /\ TypeName(o, n)
  \/ UseChoice /\ Fill
  \/ UseChoice /\ SendChoice
  \/ \E c \in Choice \cup {Nothing} : UseChoice /\ Choose(c)
  \/ \E c \in Choice : UseChoice /\ Script(c)
  \/ \E c \in Choice : UseChoice /\ Template(c)
  \/ \E kind \in FormKinds, l \in Login : UseAccounts /\ OpenForm(kind, l)
  \/ UseAccounts /\ LeaveForm
  \/ \E mode \in Modes : UseAccounts /\ ChooseMode(mode)
  \/ \E role \in Roles : UseAccounts /\ ChooseRole(role)
  \/ \E t \in Typed : UseAccounts /\ TypeOld(t)
  \/ \E t \in Typed : UseAccounts /\ TypePassword(t)
  \/ \E t \in Typed : UseAccounts /\ TypeConfirm(t)
  \/ UseAccounts /\ SubmitAccount
  \/ \E call \in calls : UseAccounts /\ ServeAccount(call)
  \/ \E call \in calls : UseAccounts /\ AccountDone(call)
  \/ \E call \in calls : UseAccounts /\ AccountNotDone(call)
  \/ \E lang \in Lang : UseLanguage /\ ChooseLanguage(lang)
  \/ \E call \in calls : UseLanguage /\ ServeLanguage(call)
  \/ \E call \in calls : UseLanguage /\ AccountDone(call)
  \/ UseLanguage /\ SignIn
  \/ \E lang \in Lang : UseLanguage /\ ReplaceLanguage(lang)
  \/ \E lang \in Lang : UseLanguage /\ AddLanguage(lang)
  \/ \E t \in Offered : UseTemplates /\ LoadTemplate(t)
  \/ \E context \in PageContext : UseTemplates /\ RenderTemplate(context)

\* The function generated for a program declares exactly the parameters that a template
\* passes it.
ASSUME FunctionsAssumption ==
  \A program \in Program, context \in PageContext :
    [d \in Parameters(program) |-> IF d = 0 THEN context ELSE Undefined]
      \in DOMAIN FunctionContext[program]

MCSpec == MCInit /\ [][MCNext]_allVars /\ ChoiceFairness
==================================================================================
