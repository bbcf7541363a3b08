------------------------------- MODULE Render -------------------------------
(***************************************************************************)
(* Rendering the public texts of an error while the process-wide settings   *)
(* change under it.  SetLocalizer, SetDefaults and StrictMode each replace  *)
(* one atomic; wire() reads them without a lock, each at its own moment:    *)
(* the localizer once per message, the default messages once per floor,     *)
(* the strict flag once per missing parameter.                             *)
(*                                                                         *)
(* A template is a sequence of tokens <<"lit", x>> and <<"hole", name>>.    *)
(* A rendered text keeps one token per template token; a placeholder in     *)
(* whose place nothing is written leaves Gone, and a text of nothing but    *)
(* Gone is blank.                                                          *)
(***************************************************************************)
EXTENDS Integers, Sequences

CONSTANTS
    Renders,        \* concurrent calls of wire()
    Errors,         \* errors that may be rendered, see below
    Localizers,     \* installed localizers
    Translations,   \* Translations[l][key]: a text, or NotFound for ok = false
    DerivedKey,     \* DerivedKey[code]: "errors." + lower(code) + ".message"
    KnownKinds,     \* keys of defaultMessages
    Overrides,      \* maps an application passes to SetDefaults
    NoLocalizer,    \* nil
    NotFound, Idle

(* An error: [code, msgKey, kind, inline, title, message, params, children], *)
(* with inline for words of its own call of Public, params the text that     *)
(* each parameter it was given prints, NoText for an empty one, and children *)
(* field errors, which have no title and no children.                        *)
Gone == <<"gone", "">>
NoText == ""
NoKey == ""

Templates == Seq({"lit", "hole"} \X STRING)

ASSUME ErrorsAssumption ==
    \A e \in Errors :
        /\ e.title \in Templates /\ e.message \in Templates
        /\ Len(e.children) \in Nat
        /\ \A i \in 1..Len(e.children) : e.children[i].message \in Templates
ASSUME KeysAssumption ==
    \A e \in Errors : e.msgKey # NoKey \/ e.code \in DOMAIN DerivedKey
ASSUME LocalizersAssumption ==
    NoLocalizer \notin Localizers /\ Localizers = DOMAIN Translations

VARIABLES
    localizer,      \* the installed Localizer, NoLocalizer before or after nil
    defaults,       \* the installed overrides; the empty map when there are none
    callerDefaults, \* the map in the application's hands
    strict,         \* the StrictMode flag
    err,            \* per render: the error it renders
    pc,             \* per render: where it is
    slot,           \* per render: 0 the title, 1 the message, 1 + i the i-th child
    held,           \* per render: the localizer it loaded
    text,           \* per render: the text being written
    texts,          \* per render: the finished texts
    seen            \* history, per render: the settings live since the slot began

settings == <<localizer, defaults, callerDefaults, strict>>
vars == <<settings, err, pc, slot, held, text, texts, seen>>

-----------------------------------------------------------------------------
(* Operators of the code *)

\* The error whose text the current slot is about.
subject(r) == IF slot[r] <= 1 THEN err[r] ELSE err[r].children[slot[r] - 1]
template(r) == IF slot[r] = 0 THEN err[r].title ELSE subject(r).message
slots(r) == 1 + Len(err[r].children)

\* The i18n key: the explicit one beats the one derived from the code.
effectiveMessageKey(e) == IF e.msgKey # NoKey THEN e.msgKey ELSE DerivedKey[e.code]

\* What a parameter leaves in the text: what fmt.Sprint makes of its value.
printed(v) == IF v = NoText THEN Gone ELSE <<"value", v>>

\* One token of a template: a parameter's value is inserted and not scanned
\* again, a missing one stays visible under StrictMode and else collapses.
substituteToken(t, params, isStrict) ==
    CASE t[1] = "lit" -> t
      [] t[1] = "hole" /\ t[2] \in DOMAIN params -> printed(params[t[2]])
      [] t[1] = "hole" /\ t[2] \notin DOMAIN params -> IF isStrict THEN t ELSE Gone

\* The default message of a kind: override, built-in floor, generic floor.
defaultMessage(k, overrides) ==
    IF k \in DOMAIN overrides THEN overrides[k]
    ELSE IF k \in KnownKinds THEN <<<<"floor", k>>>>
    ELSE <<<<"floor", "generic">>>>

\* Mistake: an empty catalog message is rendered like any other.
neverTheFloor(e) == "scan"

\* Where a message goes when no translation is to be had.
untranslated(e) == IF e.message # <<>> THEN "scan" ELSE "floor"

\* An inline message wins over every translation.
isInline(e) == e.inline /\ e.message # <<>>

Now == [localizers |-> {localizer}, defaults |-> {defaults}, stricts |-> {strict}]

-----------------------------------------------------------------------------
Init ==
    /\ localizer = NoLocalizer
    /\ defaults = [k \in {} |-> NotFound]
    /\ callerDefaults \in Overrides
    /\ strict = FALSE
    /\ err \in [Renders -> Errors]
    /\ pc = [r \in Renders |-> "idle"]
    /\ slot = [r \in Renders |-> 0]
    /\ held = [r \in Renders |-> Idle]
    /\ text = [r \in Renders |-> <<>>]
    /\ texts = [r \in Renders |-> <<>>]
    /\ seen = [r \in Renders |-> Now]

\* After a setting changed, every running slot has seen the new one too.
Witnessed ==
    seen' = [r \in Renders |-> [localizers |-> seen[r].localizers \cup {localizer'},
                                defaults   |-> seen[r].defaults \cup {defaults'},
                                stricts    |-> seen[r].stricts \cup {strict'}]]

SetLocalizer(l) ==
    /\ localizer' = l
    /\ UNCHANGED <<defaults, callerDefaults, strict, err, pc, slot, held, text, texts>>
    /\ Witnessed

\* SetDefaults installs a copy; the caller's map goes its own way afterwards.
SetDefaults ==
    /\ defaults' = callerDefaults
    /\ UNCHANGED <<localizer, callerDefaults, strict, err, pc, slot, held, text, texts>>
    /\ Witnessed

ClearDefaults ==
    /\ defaults' = [k \in {} |-> NotFound]
    /\ UNCHANGED <<localizer, callerDefaults, strict, err, pc, slot, held, text, texts>>
    /\ Witnessed

EditCallerDefaults(m) ==
    /\ callerDefaults' = m
    /\ UNCHANGED <<localizer, defaults, strict, err, pc, slot, held, text, texts, seen>>

StrictMode(on) ==
    /\ strict' = on
    /\ UNCHANGED <<localizer, defaults, callerDefaults, err, pc, slot, held, text, texts>>
    /\ Witnessed

Admin ==
    \/ \E l \in Localizers \cup {NoLocalizer} : SetLocalizer(l)
    \/ SetDefaults \/ ClearDefaults
    \/ \E m \in Overrides : EditCallerDefaults(m)
    \/ \E on \in BOOLEAN : StrictMode(on)

-----------------------------------------------------------------------------
(* A render *)

\* Mistake: the buffer is not reset between two texts.
kept(r) == text

\* The buffers when r begins its next text.
cleared(r) == [text EXCEPT ![r] = <<>>]

\* The slot's text is t; the next slot, if any, begins.
Finish(r, t) ==
    /\ texts' = [texts EXCEPT ![r] = Append(@, t)]
    /\ text' = cleared(r)
    /\ held' = [held EXCEPT ![r] = Idle]
    /\ seen' = [seen EXCEPT ![r] = Now]
    /\ IF slot[r] = slots(r)
       THEN pc' = [pc EXCEPT ![r] = "done"] /\ UNCHANGED slot
       ELSE /\ slot' = [slot EXCEPT ![r] = @ + 1]
            /\ pc' = [pc EXCEPT ![r] = "message"]
    /\ UNCHANGED <<settings, err>>

Goto(r, label) ==
    /\ pc' = [pc EXCEPT ![r] = label]
    /\ UNCHANGED <<settings, err, slot, text, texts>>

\* wire() begins with the title, which is never translated.
Start(r) ==
    /\ pc[r] = "idle"
    /\ Goto(r, "scan")
    /\ seen' = [seen EXCEPT ![r] = Now]
    /\ UNCHANGED held

BeginMessage(r) ==
    /\ pc[r] = "message"
    /\ Goto(r, IF isInline(subject(r)) THEN "scan" ELSE "load")
    /\ UNCHANGED <<held, seen>>

\* One load decides both whether there is a localizer and which one is asked.
LoadLocalizer(r) ==
    /\ pc[r] = "load"
    /\ held' = [held EXCEPT ![r] = localizer]
    /\ Goto(r, IF localizer # NoLocalizer THEN "translate" ELSE untranslated(subject(r)))
    /\ UNCHANGED seen

\* Mistake: the localizer is loaded again for the call, after the nil check.
askedAnew(r) == localizer

\* The localizer a translation is asked from: the one that was loaded.
asked(r) == held[r]

\* Mistake: starting over whenever the localizer has changed meanwhile.
translateRetries(r) ==
    /\ pc[r] = "translate"
    /\ asked(r) # NoLocalizer
    /\ IF held[r] # localizer
       THEN Goto(r, "load") /\ UNCHANGED <<held, seen>>
       ELSE LET answer == Translations[asked(r)][effectiveMessageKey(subject(r))]
            IN  IF answer # NotFound
                THEN Finish(r, answer)
                ELSE Goto(r, untranslated(subject(r))) /\ UNCHANGED <<held, seen>>

Translate(r) ==
    /\ pc[r] = "translate"
    /\ asked(r) # NoLocalizer   \* a nil interface has no method to call
    /\ LET answer == Translations[asked(r)][effectiveMessageKey(subject(r))]
       IN  IF answer # NotFound
           THEN Finish(r, answer)
           ELSE Goto(r, untranslated(subject(r))) /\ UNCHANGED <<held, seen>>

Scan(r) ==
    /\ pc[r] = "scan"
    /\ IF Len(text[r]) = Len(template(r))
       THEN Finish(r, text[r])
       ELSE /\ text' = [text EXCEPT ![r] = Append(@,
                          substituteToken(template(r)[Len(@) + 1], subject(r).params, strict))]
            /\ UNCHANGED <<settings, err, pc, slot, held, texts, seen>>

\* Mistake: the floor reads the caller's map instead of the installed copy.
floorOfCaller(r) ==
    /\ pc[r] = "floor"
    /\ Finish(r, defaultMessage(subject(r).kind, callerDefaults))

Floor(r) ==
    /\ pc[r] = "floor"
    /\ Finish(r, defaultMessage(subject(r).kind, defaults))

Step(r) ==
    \/ Start(r) \/ BeginMessage(r) \/ LoadLocalizer(r)
    \/ Translate(r) \/ Scan(r) \/ Floor(r)

Next == Admin \/ \E r \in Renders : Step(r)

\* A goroutine in the middle of a render is eventually scheduled, whatever the
\* rest of the process does.  Nobody has to change a setting.
Fairness == \A r \in Renders : WF_vars(Step(r))

Spec == Init /\ [][Next]_vars /\ Fairness

-----------------------------------------------------------------------------
(* Properties *)

\* A render has finished one text per slot behind it, and never scans past the
\* end of its template.
TypeOK ==
    /\ localizer \in Localizers \cup {NoLocalizer}
    /\ defaults \in Overrides \cup {[k \in {} |-> NotFound]}
    /\ callerDefaults \in Overrides
    /\ strict \in BOOLEAN
    /\ err \in [Renders -> Errors]
    /\ pc \in [Renders -> {"idle", "message", "load", "translate", "scan", "floor", "done"}]
    /\ \A r \in Renders :
         /\ slot[r] \in 0..slots(r)
         /\ held[r] \in Localizers \cup {NoLocalizer, Idle}
         /\ Len(texts[r]) = slot[r] + (IF pc[r] = "done" THEN 1 ELSE 0)
         /\ pc[r] = "scan" => Len(text[r]) <= Len(template(r))

\* A render never calls a method of a nil Localizer, although SetLocalizer(nil)
\* may run at any moment, even between the check and the call.
NoNilLocalizerCall == \A r \in Renders : pc[r] = "translate" => asked(r) # NoLocalizer

\* t is what the template tm reads with these parameters, each one that is given
\* as it prints and each missing one shown or gone as the strict flag was at
\* some moment of the slot.
Reads(t, tm, params, stricts) ==
    /\ Len(t) = Len(tm)
    /\ \A i \in 1..Len(tm) :
         \/ tm[i][1] = "lit" /\ t[i] = tm[i]
         \/ tm[i][1] = "hole" /\ tm[i][2] \in DOMAIN params /\ t[i] = printed(params[tm[i][2]])
         \/ /\ tm[i][1] = "hole" /\ tm[i][2] \notin DOMAIN params
            /\ (TRUE \in stricts /\ t[i] = tm[i]) \/ (FALSE \in stricts /\ t[i] = Gone)

\* The resolution order that localize.go documents, under settings s: inline
\* words, else a translation, else the catalog's words, else the floor.
Resolves(t, e, s) ==
    LET words == e.message # <<>>
        key == IF e.msgKey = NoKey THEN DerivedKey[e.code] ELSE e.msgKey
        unanswered(l) == l = NoLocalizer \/ (l \in Localizers /\ Translations[l][key] = NotFound)
    IN  \/ words /\ e.inline /\ Reads(t, e.message, e.params, s.stricts)
        \/ /\ ~(words /\ e.inline)
           /\ \E l \in s.localizers :
                \/ ~unanswered(l) /\ t = Translations[l][key]
                \/ unanswered(l) /\ words /\ Reads(t, e.message, e.params, s.stricts)
                \/ /\ unanswered(l) /\ ~words
                   /\ \E d \in s.defaults :
                        \/ e.kind \in DOMAIN d /\ t = d[e.kind]
                        \/ /\ e.kind \notin DOMAIN d
                           /\ t = <<<<"floor", IF e.kind \in KnownKinds THEN e.kind
                                               ELSE "generic">>>>

\* Every text a render finishes is what the documented order gives under
\* settings that were live while that text was being resolved: never a stale
\* localizer or override, never a step of the order skipped or taken twice.
EveryTextJustified ==
    [][\A r \in Renders : texts'[r] # texts[r] =>
          LET t == texts'[r][Len(texts'[r])]
          IN  IF slot[r] = 0 THEN Reads(t, err[r].title, err[r].params, seen[r].stricts)
              ELSE Resolves(t, subject(r), seen[r])]_vars

IsBlank(t) == \A i \in 1..Len(t) : t[i] = Gone

\* A message is blank only if an application left nothing to write: a translation
\* or an override that is itself blank, or a template of nothing but placeholders,
\* each without a parameter or with one that prints nothing.  No interleaving of
\* settings makes a blank out of words, or out of a parameter that has some.
BlankOnlyByRequest ==
    \A r \in Renders : \A i \in 2..Len(texts[r]) :
        IsBlank(texts[r][i]) =>
            LET e == IF i = 2 THEN err[r] ELSE err[r].children[i - 2]
            IN  \/ \E l \in Localizers :
                      LET answer == Translations[l][effectiveMessageKey(e)]
                      IN  answer # NotFound /\ IsBlank(answer)
                \/ \E d \in Overrides : e.kind \in DOMAIN d /\ IsBlank(d[e.kind])
                \/ e.message # <<>> /\ \A j \in 1..Len(e.message) :
                      /\ e.message[j][1] = "hole"
                      /\ e.message[j][2] \in DOMAIN e.params =>
                           e.params[e.message[j][2]] = NoText

\* A render ends even if the settings keep changing for ever.
EveryRenderEnds == \A r \in Renders : <>(pc[r] = "done")
=============================================================================
