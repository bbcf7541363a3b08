---------------------------- MODULE RenderProofs ----------------------------
(* What holds of Render for any number of renders, any errors, translations *)
(* and overrides, and any sequence of changes of the settings.              *)
EXTENDS Render, SequenceTheorems, TLAPS

NoDefaults == [k \in {} |-> NotFound]

-----------------------------------------------------------------------------
(* Sequences of anything *)

IsSeq(s) == Len(s) \in Nat /\ s = [i \in 1..Len(s) |-> s[i]]

\* A sequence grows at its end.
LEMMA AppendToAny ==
    ASSUME NEW s, IsSeq(s), NEW x
    PROVE  /\ IsSeq(Append(s, x)) /\ Len(Append(s, x)) = Len(s) + 1
           /\ Append(s, x)[Len(s) + 1] = x /\ Append(s, x) # s
           /\ \A i \in 1..Len(s) : Append(s, x)[i] = s[i]
<1> DEFINE n == Len(s)
           S == {s[i] : i \in 1..n} \cup {x}
<1>1. n \in Nat /\ s = [i \in 1..n |-> s[i]]
    BY DEF IsSeq
<1>2. s \in Seq(S)
    <2>1. \A i \in 1..n : s[i] \in S
        OBVIOUS
    <2>2. [i \in 1..n |-> s[i]] \in Seq(S)
        <3> HIDE DEF S
        <3> QED
            BY <1>1, <2>1
    <2> QED
        BY <1>1, <2>2
<1>3. x \in S
    OBVIOUS
<1> DEFINE t == Append(s, x)
<1> HIDE DEF S
<1>4. /\ t \in Seq(S) /\ Len(t) = n + 1 /\ t[n + 1] = x
      /\ \A i \in 1..n : t[i] = s[i]
    BY <1>2, <1>3, AppendProperties
<1> HIDE DEF t
<1>5. t = [i \in 1..Len(t) |-> t[i]]
    BY <1>4, LenProperties
<1>6. Len(t) # Len(s)
    <2>1. \A m \in Nat : m + 1 # m
        OBVIOUS
    <2> QED
        BY <1>1, <1>4, <2>1, Zenon
<1>7. t # s
    BY <1>6
<1>8. IsSeq(t)
    BY <1>1, <1>4, <1>5 DEF IsSeq
<1> QED
    BY <1>4, <1>7, <1>8 DEF t

-----------------------------------------------------------------------------
(* The inductive invariant *)

\* The settings that are installed are among those the slot has seen.
Live(r) ==
    /\ localizer \in seen[r].localizers /\ defaults \in seen[r].defaults
    /\ strict \in seen[r].stricts

\* The slot has seen nothing but what can be installed.
Possible(r) ==
    /\ seen[r].localizers \subseteq Localizers \cup {NoLocalizer}
    /\ seen[r].defaults \subseteq Overrides \cup {NoDefaults}

\* No translation of e is to be had from l.
Unanswered(e, l) ==
    l = NoLocalizer \/ (l \in Localizers /\ Translations[l][effectiveMessageKey(e)] = NotFound)

\* Some localizer that was live during the slot left it to the error's words.
Untranslated(r) == \E l \in seen[r].localizers : Unanswered(subject(r), l)

\* One token of a text is what the token of its template reads.
TokenReads(x, y, params, stricts) ==
    \/ y[1] = "lit" /\ x = y
    \/ y[1] = "hole" /\ y[2] \in DOMAIN params /\ x = printed(params[y[2]])
    \/ /\ y[1] = "hole" /\ y[2] \notin DOMAIN params
       /\ (TRUE \in stricts /\ x = y) \/ (FALSE \in stricts /\ x = Gone)

\* What has been written of the text is what the template reads so far.
Scanned(r) ==
    /\ Len(text[r]) <= Len(template(r))
    /\ \A i \in 1..Len(text[r]) :
         TokenReads(text[r][i], template(r)[i], subject(r).params, seen[r].stricts)

\* Where a render is says which steps of the resolution order it has taken.
WhereInv(r) ==
    /\ slot[r] \in 0..slots(r)
    /\ slot[r] = 0 => pc[r] \in {"idle", "scan"}
    /\ pc[r] = "idle" => slot[r] = 0
    /\ pc[r] # "scan" => text[r] = <<>>
    /\ pc[r] = "scan" => Scanned(r)
    /\ pc[r] = "scan" /\ slot[r] # 0 =>
         isInline(subject(r)) \/ (subject(r).message # <<>> /\ Untranslated(r))
    /\ pc[r] \in {"load", "translate", "floor"} => ~isInline(subject(r))
    /\ pc[r] = "floor" => subject(r).message = <<>> /\ Untranslated(r)
    /\ pc[r] = "translate" => held[r] \in Localizers /\ held[r] \in seen[r].localizers

\* The texts a render has finished are one per slot behind it.
TextsInv(r) ==
    /\ IsSeq(text[r]) /\ IsSeq(texts[r])
    /\ Len(texts[r]) = slot[r] + (IF pc[r] = "done" THEN 1 ELSE 0)
    /\ pc[r] \in {"idle", "message", "load", "translate", "scan", "floor", "done"}
    /\ held[r] \in Localizers \cup {NoLocalizer, Idle}

TablesInv ==
    /\ localizer \in Localizers \cup {NoLocalizer}
    /\ defaults \in Overrides \cup {NoDefaults}
    /\ strict \in BOOLEAN /\ callerDefaults \in Overrides
    /\ err \in [Renders -> Errors]
    /\ DOMAIN pc = Renders /\ DOMAIN slot = Renders /\ DOMAIN held = Renders
    /\ DOMAIN text = Renders /\ DOMAIN texts = Renders
    /\ pc = [r \in Renders |-> pc[r]] /\ slot = [r \in Renders |-> slot[r]]
    /\ held = [r \in Renders |-> held[r]] /\ text = [r \in Renders |-> text[r]]
    /\ texts = [r \in Renders |-> texts[r]] /\ seen = [r \in Renders |-> seen[r]]

RenderInv(r) == Live(r) /\ Possible(r) /\ WhereInv(r) /\ TextsInv(r)
RInv == TablesInv /\ \A r \in Renders : RenderInv(r)

-----------------------------------------------------------------------------
(* Steps of others *)

\* What a slot has seen only grows: a render that does not move keeps its
\* invariant while settings change, and while other renders move.
LEMMA GrowingKeeps ==
    ASSUME NEW r \in Renders, RenderInv(r), Live(r)', Possible(r)',
           err' = err, pc'[r] = pc[r], slot'[r] = slot[r], held'[r] = held[r],
           text'[r] = text[r], texts'[r] = texts[r],
           seen[r].localizers \subseteq seen'[r].localizers,
           seen[r].stricts \subseteq seen'[r].stricts
    PROVE  RenderInv(r)'
<1>1. subject(r)' = subject(r) /\ template(r)' = template(r) /\ slots(r)' = slots(r)
    BY DEF subject, template, slots
<1>2. Untranslated(r) => Untranslated(r)'
    BY <1>1 DEF Untranslated
<1>3. Scanned(r) => Scanned(r)'
    <2> SUFFICES ASSUME Scanned(r) PROVE Scanned(r)'
        OBVIOUS
    <2>1. Len(text'[r]) <= Len(template(r)')
        BY <1>1 DEF Scanned
    <2>2. ASSUME NEW i \in 1..Len(text'[r])
          PROVE  TokenReads(text'[r][i], template(r)'[i], subject(r)'.params, seen'[r].stricts)
        <3>1. TokenReads(text[r][i], template(r)[i], subject(r).params, seen[r].stricts)
            BY <2>2 DEF Scanned
        <3> QED
            BY <1>1, <3>1 DEF TokenReads
    <2> QED
        BY <2>1, <2>2 DEF Scanned
<1>4. WhereInv(r)'
    <2>1. WhereInv(r)
        BY DEF RenderInv
    <2> QED
        BY <1>1, <1>2, <1>3, <2>1 DEF WhereInv, isInline
<1>5. TextsInv(r)'
    BY DEF RenderInv, TextsInv
<1> QED
    BY <1>4, <1>5 DEF RenderInv

\* A change of the settings is seen by every render.
LEMMA AdminKeeps ==
    ASSUME RInv, Admin PROVE RInv'
<1>1. /\ err' = err /\ pc' = pc /\ slot' = slot /\ held' = held /\ text' = text /\ texts' = texts
      /\ localizer' \in Localizers \cup {NoLocalizer, localizer}
      /\ defaults' \in {callerDefaults, NoDefaults, defaults}
      /\ strict' \in BOOLEAN /\ callerDefaults' \in Overrides
    BY DEF Admin, SetLocalizer, SetDefaults, ClearDefaults, EditCallerDefaults, StrictMode,
           RInv, TablesInv, NoDefaults
<1>2. \/ Witnessed
      \/ seen' = seen /\ localizer' = localizer /\ defaults' = defaults /\ strict' = strict
    BY DEF Admin, SetLocalizer, SetDefaults, ClearDefaults, EditCallerDefaults, StrictMode
<1>3. TablesInv'
    BY <1>1, <1>2 DEF RInv, TablesInv, Witnessed
<1>4. ASSUME NEW r \in Renders
      PROVE  /\ Live(r)' /\ Possible(r)'
             /\ seen[r].localizers \subseteq seen'[r].localizers
             /\ seen[r].stricts \subseteq seen'[r].stricts
    <2>1. Live(r) /\ Possible(r) /\ callerDefaults \in Overrides
        BY DEF RInv, RenderInv, TablesInv
    <2>2. CASE Witnessed
        <3>1. /\ seen'[r].localizers = seen[r].localizers \cup {localizer'}
              /\ seen'[r].defaults = seen[r].defaults \cup {defaults'}
              /\ seen'[r].stricts = seen[r].stricts \cup {strict'}
            BY <2>2 DEF Witnessed
        <3> QED
            BY <1>1, <2>1, <3>1 DEF Live, Possible
    <2>3. CASE seen' = seen /\ localizer' = localizer /\ defaults' = defaults /\ strict' = strict
        BY <2>1, <2>3 DEF Live, Possible
    <2> QED
        BY <1>2, <2>2, <2>3
<1>5. ASSUME NEW r \in Renders PROVE RenderInv(r)'
    <2>1. RenderInv(r)
        BY DEF RInv
    <2> QED
        BY <1>1, <1>4, <2>1, GrowingKeeps
<1> QED
    BY <1>3, <1>5 DEF RInv

\* A step of one render leaves the settings and the other renders alone.
LEMMA StepsAreLocal ==
    ASSUME RInv, NEW r \in Renders, Step(r)
    PROVE  /\ settings' = settings /\ err' = err /\ TablesInv'
           /\ \A q \in Renders \ {r} :
                /\ pc'[q] = pc[q] /\ slot'[q] = slot[q] /\ held'[q] = held[q]
                /\ text'[q] = text[q] /\ texts'[q] = texts[q] /\ seen'[q] = seen[q]
<1>1. /\ settings' = settings /\ err' = err
      /\ \E x : pc' = [pc EXCEPT ![r] = x]
      /\ \E x : slot' = [slot EXCEPT ![r] = x]
      /\ \E x : held' = [held EXCEPT ![r] = x]
      /\ \E x : text' = [text EXCEPT ![r] = x]
      /\ \E x : texts' = [texts EXCEPT ![r] = x]
      /\ \E x : seen' = [seen EXCEPT ![r] = x]
    <2> USE DEF RInv, TablesInv
    <2>1. /\ pc = [pc EXCEPT ![r] = pc[r]] /\ slot = [slot EXCEPT ![r] = slot[r]]
          /\ held = [held EXCEPT ![r] = held[r]] /\ text = [text EXCEPT ![r] = text[r]]
          /\ texts = [texts EXCEPT ![r] = texts[r]] /\ seen = [seen EXCEPT ![r] = seen[r]]
        OBVIOUS
    <2>2. CASE Start(r)
        BY <2>1, <2>2 DEF Start, Goto
    <2>3. CASE BeginMessage(r)
        BY <2>1, <2>3 DEF BeginMessage, Goto
    <2>4. CASE LoadLocalizer(r)
        BY <2>1, <2>4 DEF LoadLocalizer, Goto
    <2>5. ASSUME NEW t, Finish(r, t) PROVE <1>1!:
        BY <2>1, <2>5 DEF Finish, cleared
    <2>6. CASE Translate(r)
        BY <2>1, <2>5, <2>6 DEF Translate, Goto
    <2>7. CASE Scan(r)
        BY <2>1, <2>5, <2>7 DEF Scan
    <2>8. CASE Floor(r)
        BY <2>5, <2>8 DEF Floor
    <2> QED
        BY <2>2, <2>3, <2>4, <2>6, <2>7, <2>8 DEF Step
<1>2. TablesInv'
    BY <1>1 DEF RInv, TablesInv, settings
<1> QED
    BY <1>1, <1>2 DEF RInv, TablesInv

-----------------------------------------------------------------------------
(* Steps of a render itself *)

\* What a render needs of its error: texts to scan, and field errors to count.
LEMMA Subjects ==
    ASSUME TablesInv, NEW r \in Renders, slot[r] \in 0..slots(r)
    PROVE  /\ slots(r) \in Nat \ {0} /\ slot[r] \in Nat
           /\ template(r) \in Templates /\ subject(r).message \in Templates
           /\ slot[r] # 0 => template(r) = subject(r).message
<1>1. err[r] \in Errors
    BY DEF TablesInv
<1>2. Len(err[r].children) \in Nat /\ slots(r) = 1 + Len(err[r].children)
    BY <1>1, ErrorsAssumption DEF slots
<1>3. slots(r) \in Nat \ {0} /\ slot[r] \in Nat
    BY <1>2
<1>4. subject(r).message \in Templates
    <2>1. CASE slot[r] <= 1
        BY <1>1, <2>1, ErrorsAssumption DEF subject
    <2>2. CASE ~(slot[r] <= 1)
        <3>1. slot[r] - 1 \in 1..Len(err[r].children)
            BY <1>2, <2>2
        <3> QED
            BY <1>1, <2>2, <3>1, ErrorsAssumption DEF subject
    <2> QED
        BY <2>1, <2>2
<1> QED
    BY <1>1, <1>3, <1>4, ErrorsAssumption DEF template

\* A render that finishes a text is done, or begins the next one, of which it
\* has read nothing yet.
LEMMA FinishKeeps ==
    ASSUME RInv, NEW r \in Renders, NEW t, Finish(r, t), Step(r),
           pc[r] \notin {"idle", "done"}, pc[r] = "scan" \/ slot[r] # 0
    PROVE  /\ RenderInv(r)'
           /\ Len(texts'[r]) = slot[r] + 1 /\ texts'[r][slot[r] + 1] = t
           /\ \A i \in 1..slot[r] : texts'[r][i] = texts[r][i]
<1>1. TablesInv /\ WhereInv(r) /\ TextsInv(r)
    BY DEF RInv, RenderInv
<1>2. slots(r) \in Nat \ {0} /\ slot[r] \in Nat /\ slot[r] <= slots(r)
    BY <1>1, Subjects DEF WhereInv
<1>3. /\ localizer' = localizer /\ defaults' = defaults /\ strict' = strict /\ err' = err
      /\ texts'[r] = Append(texts[r], t) /\ text'[r] = <<>>
      /\ seen'[r] = Now /\ held'[r] = Idle
      /\ \/ slot[r] = slots(r) /\ pc'[r] = "done" /\ slot'[r] = slot[r]
         \/ slot[r] # slots(r) /\ pc'[r] = "message" /\ slot'[r] = slot[r] + 1
    BY <1>1 DEF Finish, cleared, TablesInv, settings
<1>4. Live(r)' /\ Possible(r)'
    <2>1. Live(r) /\ Possible(r)
        BY DEF RInv, RenderInv
    <2> QED
        BY <1>3, <2>1 DEF Live, Possible, Now
<1>5. slots(r)' = slots(r)
    BY <1>3 DEF slots
<1>6. slot'[r] \in 0..slots(r) /\ slot'[r] # 0
    BY <1>2, <1>3
<1>7. WhereInv(r)'
    BY <1>3, <1>5, <1>6 DEF WhereInv
<1>8. IsSeq(texts[r]) /\ Len(texts[r]) = slot[r]
    BY <1>1, <1>2 DEF TextsInv
<1>9. /\ IsSeq(texts'[r]) /\ Len(texts'[r]) = slot[r] + 1 /\ texts'[r][slot[r] + 1] = t
      /\ \A i \in 1..slot[r] : texts'[r][i] = texts[r][i]
    BY <1>3, <1>8, AppendToAny
<1>10. IsSeq(<<>>)
    BY DEF IsSeq
<1>11. TextsInv(r)'
    BY <1>2, <1>3, <1>9, <1>10 DEF TextsInv
<1> QED
    BY <1>4, <1>7, <1>9, <1>11 DEF RenderInv

\* One more token is scanned as the strict flag is at that moment.
LEMMA ScanKeeps ==
    ASSUME RInv, NEW r \in Renders, Scan(r), Len(text[r]) # Len(template(r))
    PROVE  RenderInv(r)'
<1> DEFINE n == Len(text[r]) + 1
           y == template(r)[n]
           x == substituteToken(y, subject(r).params, strict)
<1>1. TablesInv /\ WhereInv(r) /\ TextsInv(r) /\ Live(r) /\ Possible(r) /\ pc[r] = "scan" /\ Scanned(r)
    BY DEF RInv, RenderInv, Scan, WhereInv
<1>2. template(r) \in Templates
    BY <1>1, Subjects DEF WhereInv
<1>3. IsSeq(text[r]) /\ Len(text[r]) \in Nat /\ Len(template(r)) \in Nat /\ Len(text[r]) <= Len(template(r))
    BY <1>1, <1>2, LenProperties DEF TextsInv, IsSeq, Scanned, Templates
<1>4. n \in 1..Len(template(r))
    BY <1>3
<1>5. y \in {"lit", "hole"} \X STRING
    <2> HIDE DEF n
    <2> QED
        BY <1>2, <1>4, ElementOfSeq DEF Templates
<1>6. /\ text'[r] = Append(text[r], x)
      /\ UNCHANGED <<settings, err, pc, slot, held, texts, seen>>
    BY <1>1 DEF Scan, TablesInv
<1>7. TokenReads(x, y, subject(r).params, seen[r].stricts)
    <2>1. y[1] \in {"lit", "hole"}
        BY <1>5
    <2>2. strict \in BOOLEAN /\ strict \in seen[r].stricts
        BY <1>1 DEF TablesInv, Live
    <2> HIDE DEF y
    <2>3. x = IF y[1] = "lit" THEN y
              ELSE IF y[2] \in DOMAIN subject(r).params THEN printed(subject(r).params[y[2]])
              ELSE IF strict THEN y ELSE Gone
        BY <2>1 DEF substituteToken
    <2> HIDE DEF x
    <2>4. CASE strict = TRUE
        BY <2>1, <2>2, <2>3, <2>4 DEF TokenReads
    <2>5. CASE strict = FALSE
        BY <2>1, <2>2, <2>3, <2>5 DEF TokenReads
    <2> QED
        BY <2>2, <2>4, <2>5
<1> HIDE DEF x
<1>8. /\ IsSeq(text'[r]) /\ Len(text'[r]) = n /\ text'[r][n] = x
      /\ \A i \in 1..Len(text[r]) : text'[r][i] = text[r][i]
    BY <1>3, <1>6, AppendToAny
<1>9. subject(r)' = subject(r) /\ template(r)' = template(r) /\ slots(r)' = slots(r)
    BY <1>6 DEF subject, template, slots
<1>10. Scanned(r)'
    <2>1. ASSUME NEW i \in 1..Len(text'[r])
          PROVE  TokenReads(text'[r][i], template(r)[i], subject(r).params, seen[r].stricts)
        <3>1. CASE i = n
            BY <1>7, <1>8, <3>1
        <3>2. CASE i # n
            <4>1. i \in 1..Len(text[r])
                BY <1>3, <1>8, <3>2
            <4> QED
                BY <1>1, <1>8, <4>1 DEF Scanned
        <3> QED
            BY <3>1, <3>2
    <2> QED
        BY <1>4, <1>6, <1>8, <1>9, <2>1 DEF Scanned
<1>11. WhereInv(r)'
    BY <1>1, <1>6, <1>9, <1>10 DEF WhereInv, Untranslated
<1> QED
    BY <1>1, <1>6, <1>8, <1>11 DEF RenderInv, Live, Possible, TextsInv, settings

\* What EveryTextJustified asks of the text t of the slot of r.
Justified(r, t) ==
    IF slot[r] = 0 THEN Reads(t, err[r].title, err[r].params, seen[r].stricts)
    ELSE Resolves(t, subject(r), seen[r])

\* A step writes no text of r, or a justified one behind those that are there.
WritesJustified(r) ==
    \/ texts'[r] = texts[r]
    \/ /\ Len(texts'[r]) = slot[r] + 1 /\ Justified(r, texts'[r][slot[r] + 1])
       /\ \A i \in 1..slot[r] : texts'[r][i] = texts[r][i]

\* The words of an error are justified where the resolution order leads to them.
LEMMA WordsJustified ==
    ASSUME TablesInv, NEW r \in Renders, WhereInv(r), IsSeq(text[r]), pc[r] = "scan",
           Len(text[r]) = Len(template(r))
    PROVE  Justified(r, text[r])
<1>1. Scanned(r) /\ slot[r] \in 0..slots(r)
    BY DEF WhereInv
<1>2. Reads(text[r], template(r), subject(r).params, seen[r].stricts)
    BY <1>1 DEF Scanned, Reads, TokenReads
<1>3. CASE slot[r] = 0
    BY <1>2, <1>3 DEF Justified, template, subject
<1>4. CASE slot[r] # 0
    <2>1. Reads(text[r], subject(r).message, subject(r).params, seen[r].stricts)
        BY <1>1, <1>2, <1>4, Subjects
    <2>2. isInline(subject(r)) \/ (subject(r).message # <<>> /\ Untranslated(r))
        BY <1>4 DEF WhereInv
    <2> HIDE DEF Reads
    <2>3. Resolves(text[r], subject(r), seen[r])
        BY <2>1, <2>2 DEF Resolves, isInline, Untranslated, Unanswered, effectiveMessageKey
    <2> QED
        BY <1>4, <2>3 DEF Justified
<1> QED
    BY <1>3, <1>4

\* The floor is justified where no translation was to be had and no words are there.
LEMMA FloorJustified ==
    ASSUME NEW r \in Renders, WhereInv(r), Live(r), pc[r] = "floor"
    PROVE  Justified(r, defaultMessage(subject(r).kind, defaults))
<1> DEFINE e == subject(r)
           t == defaultMessage(e.kind, defaults)
<1>1. slot[r] # 0 /\ ~isInline(e) /\ e.message = <<>> /\ Untranslated(r)
    BY DEF WhereInv
<1>2. \/ e.kind \in DOMAIN defaults /\ t = defaults[e.kind]
      \/ /\ e.kind \notin DOMAIN defaults
         /\ t = <<<<"floor", IF e.kind \in KnownKinds THEN e.kind ELSE "generic">>>>
    BY DEF defaultMessage
<1>3. defaults \in seen[r].defaults
    BY DEF Live
<1> HIDE DEF t
<1>4. Resolves(t, e, seen[r])
    BY <1>1, <1>2, <1>3 DEF Resolves, Untranslated, Unanswered, effectiveMessageKey
<1> QED
    BY <1>1, <1>4 DEF Justified, t

\* A translation is justified by the localizer that was loaded.
LEMMA TranslationJustified ==
    ASSUME NEW r \in Renders, WhereInv(r), pc[r] = "translate",
           Translations[held[r]][effectiveMessageKey(subject(r))] # NotFound
    PROVE  Justified(r, Translations[held[r]][effectiveMessageKey(subject(r))])
<1> DEFINE e == subject(r)
<1>1. slot[r] # 0 /\ ~isInline(e) /\ held[r] \in Localizers /\ held[r] \in seen[r].localizers
    BY DEF WhereInv
<1>2. held[r] # NoLocalizer
    BY <1>1, LocalizersAssumption
<1>3. Resolves(Translations[held[r]][effectiveMessageKey(e)], e, seen[r])
    BY <1>1, <1>2 DEF Resolves, isInline, effectiveMessageKey
<1> QED
    BY <1>1, <1>3 DEF Justified

\* A jump inside a slot: nothing but the place and the loaded localizer changes.
LEMMA JumpKeeps ==
    ASSUME RInv, NEW r \in Renders,
           UNCHANGED <<settings, err, slot, text, texts>>,
           Live(r)', Possible(r)', text[r] = <<>>, pc[r] # "done",
           pc'[r] \in {"message", "load", "translate", "scan", "floor"},
           held'[r] \in Localizers \cup {NoLocalizer, Idle},
           slot[r] = 0 => pc'[r] = "scan",
           pc'[r] = "scan" => slot[r] = 0 \/ isInline(subject(r))
                                \/ (subject(r).message # <<>> /\ Untranslated(r)'),
           pc'[r] \in {"load", "translate", "floor"} => ~isInline(subject(r)),
           pc'[r] = "floor" => subject(r).message = <<>> /\ Untranslated(r)',
           pc'[r] = "translate" => held'[r] \in Localizers /\ held'[r] \in seen'[r].localizers
    PROVE  RenderInv(r)' /\ texts'[r] = texts[r]
<1>1. TablesInv /\ WhereInv(r) /\ TextsInv(r)
    BY DEF RInv, RenderInv
<1>2. subject(r)' = subject(r) /\ template(r)' = template(r) /\ slots(r)' = slots(r)
    BY DEF subject, template, slots
<1>3. Len(template(r)) \in Nat
    BY <1>1, Subjects, LenProperties DEF WhereInv, Templates
<1>4. Scanned(r)'
    <2>1. text'[r] = <<>> /\ Len(text'[r]) = 0
        OBVIOUS
    <2> QED
        BY <1>2, <1>3, <2>1 DEF Scanned
<1>5. WhereInv(r)'
    BY <1>1, <1>2, <1>4 DEF WhereInv, isInline
<1>6. TextsInv(r)'
    BY <1>1 DEF TextsInv
<1> QED
    BY <1>5, <1>6 DEF RenderInv

\* A step of r keeps its invariant, and what it finishes is justified.
LEMMA OwnStep ==
    ASSUME RInv, NEW r \in Renders, Step(r)
    PROVE  RenderInv(r)' /\ WritesJustified(r)
<1>1. TablesInv /\ WhereInv(r) /\ TextsInv(r) /\ Live(r) /\ Possible(r)
    BY DEF RInv, RenderInv
<1>3. CASE Start(r)
    <2>1. /\ UNCHANGED <<settings, err, slot, text, texts>> /\ pc[r] = "idle" /\ pc'[r] = "scan"
          /\ seen'[r] = Now /\ held'[r] = held[r]
        BY <1>1, <1>3 DEF Start, Goto, TablesInv
    <2>2. Live(r)' /\ Possible(r)'
        BY <1>1, <2>1 DEF Live, Possible, Now, settings
    <2>3. slot[r] = 0 /\ text[r] = <<>>
        BY <1>1, <2>1 DEF WhereInv
    <2> QED
        BY <1>1, <2>1, <2>2, <2>3, JumpKeeps DEF WritesJustified, TextsInv
<1>4. CASE BeginMessage(r)
    <2>1. /\ UNCHANGED <<settings, err, slot, text, texts, seen>> /\ pc[r] = "message"
          /\ held'[r] = held[r]
          /\ pc'[r] = IF isInline(subject(r)) THEN "scan" ELSE "load"
        BY <1>1, <1>4 DEF BeginMessage, Goto, TablesInv
    <2>2. Live(r)' /\ Possible(r)'
        BY <1>1, <2>1 DEF Live, Possible, settings
    <2>3. slot[r] # 0 /\ text[r] = <<>>
        BY <1>1, <2>1 DEF WhereInv
    <2> QED
        BY <1>1, <2>1, <2>2, <2>3, JumpKeeps DEF WritesJustified, TextsInv
<1>5. CASE LoadLocalizer(r)
    <2>1. /\ UNCHANGED <<settings, err, slot, text, texts, seen>> /\ pc[r] = "load"
          /\ held'[r] = localizer
          /\ pc'[r] = IF localizer # NoLocalizer THEN "translate" ELSE untranslated(subject(r))
        BY <1>1, <1>5 DEF LoadLocalizer, Goto, TablesInv
    <2>2. Live(r)' /\ Possible(r)'
        BY <1>1, <2>1 DEF Live, Possible, settings
    <2>3. slot[r] # 0 /\ text[r] = <<>> /\ ~isInline(subject(r))
        BY <1>1, <2>1 DEF WhereInv
    <2>4. localizer \in seen'[r].localizers /\ localizer \in Localizers \cup {NoLocalizer}
        BY <1>1, <2>1 DEF Live, Possible
    <2>5. subject(r)' = subject(r)
        BY <2>1 DEF subject
    <2>6. localizer = NoLocalizer => Untranslated(r)'
        BY <2>4, <2>5 DEF Untranslated, Unanswered
    <2> QED
        BY <2>1, <2>2, <2>3, <2>4, <2>6, JumpKeeps DEF WritesJustified, untranslated
<1>6. CASE Translate(r)
    <2> DEFINE answer == Translations[held[r]][effectiveMessageKey(subject(r))]
    <2>1. pc[r] = "translate" /\ slot[r] # 0 /\ text[r] = <<>> /\ ~isInline(subject(r))
          /\ held[r] \in Localizers /\ held[r] \in seen[r].localizers
        BY <1>1, <1>6 DEF Translate, WhereInv
    <2>2. CASE answer # NotFound
        <3>1. Finish(r, answer)
            BY <1>6, <2>2 DEF Translate, asked
        <3>2. Justified(r, answer)
            BY <1>1, <2>1, <2>2, TranslationJustified
        <3> HIDE DEF answer
        <3> QED
            BY <2>1, <3>1, <3>2, FinishKeeps DEF WritesJustified
    <2>3. CASE answer = NotFound
        <3>1. /\ UNCHANGED <<settings, err, slot, text, texts, seen>>
              /\ held'[r] = held[r]
              /\ pc'[r] = untranslated(subject(r))
            BY <1>1, <1>6, <2>3 DEF Translate, Goto, asked, TablesInv
        <3>2. Live(r)' /\ Possible(r)'
            BY <1>1, <3>1 DEF Live, Possible, settings
        <3>3. subject(r)' = subject(r)
            BY <3>1 DEF subject
        <3>4. Untranslated(r)'
            BY <2>1, <2>3, <3>1, <3>3 DEF Untranslated, Unanswered
        <3> QED
            BY <1>1, <2>1, <3>1, <3>2, <3>4, JumpKeeps DEF WritesJustified, untranslated, TextsInv
    <2> QED
        BY <2>2, <2>3
<1>7. CASE Scan(r)
    <2>1. CASE Len(text[r]) = Len(template(r))
        <3>1. Finish(r, text[r]) /\ pc[r] = "scan"
            BY <1>7, <2>1 DEF Scan
        <3>2. Justified(r, text[r])
            BY <1>1, <2>1, <3>1, WordsJustified DEF TextsInv
        <3> QED
            BY <3>1, <3>2, FinishKeeps DEF WritesJustified
    <2>2. CASE Len(text[r]) # Len(template(r))
        <3>1. texts'[r] = texts[r]
            BY <1>7, <2>2 DEF Scan
        <3> QED
            BY <1>7, <2>2, <3>1, ScanKeeps DEF WritesJustified
    <2> QED
        BY <2>1, <2>2
<1>8. CASE Floor(r)
    <2> DEFINE t == defaultMessage(subject(r).kind, defaults)
    <2>1. Finish(r, t) /\ pc[r] = "floor" /\ slot[r] # 0
        BY <1>1, <1>8 DEF Floor, WhereInv
    <2>2. Justified(r, t)
        BY <1>1, <2>1, FloorJustified
    <2> HIDE DEF t
    <2> QED
        BY <2>1, <2>2, FinishKeeps DEF WritesJustified
<1> QED
    BY <1>3, <1>4, <1>5, <1>6, <1>7, <1>8 DEF Step

\* Every step keeps the invariant of every render.
LEMMA NextKeeps ==
    ASSUME RInv, [Next]_vars
    PROVE  RInv' /\ \A r \in Renders : WritesJustified(r)
<1>1. CASE Admin
    <2>1. texts' = texts
        BY <1>1 DEF Admin, SetLocalizer, SetDefaults, ClearDefaults, EditCallerDefaults, StrictMode
    <2> QED
        BY <1>1, <2>1, AdminKeeps DEF WritesJustified
<1>2. ASSUME NEW q \in Renders, Step(q)
      PROVE  RInv' /\ \A r \in Renders : WritesJustified(r)
    <2>1. ASSUME NEW r \in Renders, r # q PROVE RenderInv(r)' /\ WritesJustified(r)
        <3>1. RenderInv(r) /\ Live(r) /\ Possible(r)
            BY DEF RInv, RenderInv
        <3>2. /\ settings' = settings /\ err' = err
              /\ pc'[r] = pc[r] /\ slot'[r] = slot[r] /\ held'[r] = held[r]
              /\ text'[r] = text[r] /\ texts'[r] = texts[r] /\ seen'[r] = seen[r]
            BY <1>2, <2>1, StepsAreLocal
        <3>3. Live(r)' /\ Possible(r)'
            BY <3>1, <3>2 DEF Live, Possible, settings
        <3> QED
            BY <3>1, <3>2, <3>3, GrowingKeeps DEF WritesJustified
    <2>2. RenderInv(q)' /\ WritesJustified(q)
        BY <1>2, OwnStep
    <2>3. TablesInv'
        BY <1>2, StepsAreLocal
    <2> QED
        BY <2>1, <2>2, <2>3 DEF RInv
<1>3. CASE UNCHANGED vars
    <2> USE <1>3 DEF vars, settings
    <2>1. TablesInv'
        BY DEF RInv, TablesInv
    <2>2. ASSUME NEW r \in Renders PROVE RenderInv(r)'
        <3>1. RenderInv(r) /\ Live(r) /\ Possible(r)
            BY DEF RInv, RenderInv
        <3>2. Live(r)' /\ Possible(r)'
            BY <3>1 DEF Live, Possible
        <3> QED
            BY <3>1, <3>2, GrowingKeeps
    <2> QED
        BY <2>1, <2>2 DEF RInv, WritesJustified
<1> QED
    BY <1>1, <1>2, <1>3 DEF Next

-----------------------------------------------------------------------------
(* Theorems *)

\* Nothing has been read or written at first.
LEMMA InitHolds == Init => RInv
<1> SUFFICES ASSUME Init PROVE RInv
    OBVIOUS
<1>1. TablesInv
    BY DEF Init, TablesInv, NoDefaults
<1>2. ASSUME NEW r \in Renders PROVE RenderInv(r)
    <2>1. /\ pc[r] = "idle" /\ slot[r] = 0 /\ text[r] = <<>> /\ texts[r] = <<>>
          /\ held[r] = Idle /\ seen[r] = Now /\ localizer = NoLocalizer /\ defaults = NoDefaults
        BY <1>2 DEF Init, NoDefaults
    <2>2. err[r] \in Errors
        BY DEF Init
    <2>3. slots(r) \in Nat
        BY <2>2, ErrorsAssumption DEF slots
    <2>4. IsSeq(<<>>) /\ Len(<<>>) = 0
        BY DEF IsSeq
    <2> QED
        BY <2>1, <2>3, <2>4 DEF RenderInv, Live, Possible, WhereInv, TextsInv, Now
<1> QED
    BY <1>1, <1>2 DEF RInv

\* A render has finished one text per slot behind it, and never scans past the
\* end of its template, for any errors and any number of renders.
THEOREM TypeCorrect == Spec => []TypeOK
<1>1. RInv => TypeOK
    BY DEF RInv, TablesInv, RenderInv, WhereInv, TextsInv, Scanned, TypeOK, NoDefaults
<1>2. RInv /\ [Next]_vars => RInv'
    BY NextKeeps
<1> QED
    BY InitHolds, <1>1, <1>2, PTL DEF Spec

\* A render never calls a method of a nil Localizer, for any renders, errors
\* and localizers, however the settings change.
THEOREM NilIsNeverAsked == Spec => []NoNilLocalizerCall
<1>1. RInv => NoNilLocalizerCall
    BY LocalizersAssumption DEF RInv, RenderInv, WhereInv, NoNilLocalizerCall, asked
<1>2. RInv /\ [Next]_vars => RInv'
    BY NextKeeps
<1> QED
    BY InitHolds, <1>1, <1>2, PTL DEF Spec

\* Every text that is finished is what the documented order gives under
\* settings that were live while it was resolved, for any renders, errors,
\* translations and overrides, however the settings change.
THEOREM TextsAreJustified == Spec => EveryTextJustified
<1>1. RInv /\ [Next]_vars => RInv'
    BY NextKeeps
<1>2. ASSUME RInv, [Next]_vars, NEW r \in Renders, texts'[r] # texts[r]
      PROVE  Justified(r, texts'[r][Len(texts'[r])])
    <2>1. WritesJustified(r)
        BY <1>2, NextKeeps
    <2> QED
        BY <1>2, <2>1 DEF WritesJustified
<1>3. RInv /\ [Next]_vars =>
        [\A r \in Renders : texts'[r] # texts[r] =>
            LET t == texts'[r][Len(texts'[r])]
            IN  IF slot[r] = 0 THEN Reads(t, err[r].title, err[r].params, seen[r].stricts)
                ELSE Resolves(t, subject(r), seen[r])]_vars
    BY <1>2 DEF Justified
<1> QED
    BY InitHolds, <1>1, <1>3, PTL DEF Spec, EveryTextJustified

\* What leaves nothing to write for a message of e.
Requested(e) ==
    \/ \E l \in Localizers :
          LET answer == Translations[l][effectiveMessageKey(e)]
          IN  answer # NotFound /\ IsBlank(answer)
    \/ \E d \in Overrides : e.kind \in DOMAIN d /\ IsBlank(d[e.kind])
    \/ e.message # <<>> /\ \A j \in 1..Len(e.message) :
          /\ e.message[j][1] = "hole"
          /\ e.message[j][2] \in DOMAIN e.params => e.params[e.message[j][2]] = NoText

\* A text that the order gives is blank by request only.
LEMMA BlanksHaveReasons ==
    ASSUME NEW e, NEW t, NEW s, Resolves(t, e, s), IsBlank(t), e.message \in Templates,
           s.localizers \subseteq Localizers \cup {NoLocalizer},
           s.defaults \subseteq Overrides \cup {NoDefaults}
    PROVE  Requested(e)
<1>1. ASSUME Reads(t, e.message, e.params, s.stricts), NEW j \in 1..Len(e.message)
      PROVE  /\ e.message[j][1] = "hole"
             /\ e.message[j][2] \in DOMAIN e.params => e.params[e.message[j][2]] = NoText
    <2>1. t[j] = Gone
        BY <1>1 DEF Reads, IsBlank
    <2>2. ASSUME NEW v, printed(v) = Gone PROVE v = NoText
        <3>1. Gone[1] = "gone" /\ <<"value", v>>[1] = "value"
            BY DEF Gone
        <3>2. <<"value", v>> # Gone
            BY <3>1
        <3> QED
            BY <2>2, <3>2 DEF printed
    <2>3. t[j] # e.message[j] \/ e.message[j][1] = "gone"
        <3>1. Gone[1] = "gone"
            BY DEF Gone
        <3> QED
            BY <2>1, <3>1
    <2> QED
        BY <1>1, <2>1, <2>2, <2>3 DEF Reads
<1>2. CASE e.message # <<>> /\ Reads(t, e.message, e.params, s.stricts)
    BY <1>1, <1>2 DEF Requested
<1>3. ASSUME NEW l \in s.localizers,
             ~(l = NoLocalizer \/ (l \in Localizers /\ Translations[l][effectiveMessageKey(e)] = NotFound)),
             t = Translations[l][effectiveMessageKey(e)]
      PROVE  Requested(e)
    BY <1>3 DEF Requested
<1>4. ASSUME NEW d \in s.defaults, e.kind \in DOMAIN d, t = d[e.kind] PROVE Requested(e)
    <2>1. d \in Overrides
        BY <1>4 DEF NoDefaults
    <2> QED
        BY <1>4, <2>1 DEF Requested
<1>5. ASSUME NEW k, t = <<<<"floor", k>>>> PROVE FALSE
    <2>1. Len(t) = 1 /\ t[1][1] = "floor"
        BY <1>5
    <2>2. t[1] = Gone
        BY <2>1 DEF IsBlank
    <2>3. Gone[1] = "gone"
        BY DEF Gone
    <2> QED
        BY <2>1, <2>2, <2>3
<1> HIDE DEF Reads, Requested, IsBlank
<1> QED
    BY <1>2, <1>3, <1>4, <1>5 DEF Resolves, effectiveMessageKey

\* No interleaving of settings makes a blank message out of words or of parameters
\* that print something, for any renders, errors, translations and overrides.
THEOREM BlanksAreRequested == Spec => []BlankOnlyByRequest
<1> DEFINE about(r, i) == IF i = 2 THEN err[r] ELSE err[r].children[i - 2]
           Inv == \A r \in Renders : \A i \in 2..Len(texts[r]) :
                    IsBlank(texts[r][i]) => Requested(about(r, i))
<1>1. Init => Inv
    BY DEF Init
<1>2. ASSUME RInv, Inv, [Next]_vars PROVE Inv'
    <2> SUFFICES ASSUME NEW r \in Renders, NEW i \in 2..Len(texts'[r]), IsBlank(texts'[r][i])
                 PROVE  Requested(about(r, i)')
        BY DEF IsBlank, Requested, effectiveMessageKey
    <2>1. err' = err
        BY <1>2 DEF Next, vars, Admin, SetLocalizer, SetDefaults, ClearDefaults, EditCallerDefaults,
            StrictMode, Step, Start, BeginMessage, LoadLocalizer, Translate, Scan, Floor, Finish, Goto
    <2>2. about(r, i)' = about(r, i)
        BY <2>1
    <2>3. RenderInv(r) /\ TablesInv /\ WritesJustified(r)
        BY <1>2, NextKeeps DEF RInv
    <2>4. /\ slot[r] \in Nat /\ Len(texts[r]) \in Nat /\ slot[r] <= Len(texts[r])
          /\ subject(r).message \in Templates
        BY <2>3, Subjects DEF RenderInv, WhereInv, TextsInv
    <2>5. CASE texts'[r] = texts[r]
        BY <1>2, <2>2, <2>5
    <2>6. CASE texts'[r] # texts[r] /\ i \in 1..slot[r]
        <3>1. texts'[r][i] = texts[r][i] /\ i \in 2..Len(texts[r])
            BY <2>3, <2>4, <2>6 DEF WritesJustified
        <3> QED
            BY <1>2, <2>2, <3>1
    <2>7. CASE texts'[r] # texts[r] /\ i \notin 1..slot[r]
        <3>1. Len(texts'[r]) = slot[r] + 1 /\ Justified(r, texts'[r][slot[r] + 1])
            BY <2>3, <2>7 DEF WritesJustified
        <3>2. i = slot[r] + 1 /\ slot[r] # 0
            BY <2>4, <2>7, <3>1
        <3>3. about(r, i) = subject(r)
            BY <2>4, <3>2 DEF subject
        <3>4. Resolves(texts'[r][i], subject(r), seen[r])
            BY <3>1, <3>2 DEF Justified
        <3>5. Possible(r)
            BY <2>3 DEF RenderInv
        <3> QED
            BY <2>2, <2>4, <3>3, <3>4, <3>5, BlanksHaveReasons DEF Possible
    <2> QED
        BY <2>5, <2>6, <2>7
<1>3. Inv => BlankOnlyByRequest
    BY DEF BlankOnlyByRequest, Requested
<1>4. RInv /\ [Next]_vars => RInv'
    BY NextKeeps
<1> HIDE DEF Inv
<1> QED
    BY InitHolds, <1>1, <1>2, <1>3, <1>4, PTL DEF Spec
=============================================================================
