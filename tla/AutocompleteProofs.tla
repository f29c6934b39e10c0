--------------------------- MODULE AutocompleteProofs ---------------------------
(* Theorems about Autocomplete for any number of fields and texts, and whatever *)
(* trims and matches them: a list that is shown fits its field, a choice is a   *)
(* suggestion, a throbber means that somebody waits.                           *)
EXTENDS Autocomplete, TLAPS

(* What a field shows is for the text that was searched last, as it was typed or *)
(* trimmed, and its own text while no key is down.                             *)
Shown ==
  \A f \in Field :
    /\ popup[f] # None => focus = f /\ owner = f
    /\ popup[f] # None /\ ~held => value[f] = search
    /\ popup[f] \in Searched => popup[f] \in cache /\ popup[f] \in {search, Trimmed[search]}
    /\ selected[f] # None => popup[f] \in Searched
    /\ selected[f] \notin {None, Stale} => selected[f] \in Matches[popup[f]]
    /\ selected[f] = Stale => search \in Searched /\ Matches[search] # {}

(* The database searches for a field, and a key is held in one. *)
Searching ==
  /\ search # Blank => owner \in Field
  /\ timer # None => owner \in Field /\ focus = owner
  /\ held => focus \in Field /\ value[focus] \in Text /\ ~wish

(* setStatus() is told the owner of now, and an answer is under way or failed. *)
Throbbing ==
  /\ throb \subseteq {owner} \cap {focus}
  /\ throb # {} => (\E s \in Searched : flying[s] > 0) \/ failed # {}

(* What asked and twice record: a text that is cached or asked for is noted, and *)
(* has one request, and none once it is in the cache, unless twice says so.     *)
AskedOnce ==
  /\ \A s \in Searched : flying[s] > 0 \/ s \in cache => s \in asked
  /\ ~twice => \A s \in Searched : flying[s] <= 1 /\ (s \in cache => flying[s] = 0)

(* What ChoiceIsSuggestion names: a second answer for a text, or answers for a *)
(* text and for what it is trimmed to.                                         *)
Excused == twice \/ Retrimmed

(* A highlighted suggestion loses its list only to such an answer. *)
Chosen == \A f \in Field : selected[f] = Stale \/ value[f] = Undefined => Excused

IInv == TypeOK /\ Shown /\ Searching

(* The page as Drupal.behaviors.autocomplete finds it. *)
LEMMA InitHolds == Init => IInv /\ Throbbing /\ AskedOnce /\ Chosen
<1> SUFFICES ASSUME Init PROVE IInv /\ Throbbing /\ AskedOnce /\ Chosen
  OBVIOUS
<1> USE AutocompleteAssumption DEF Init
<1>1. TypeOK
  <2>1. keys \in 0..MaxKeys /\ flying \in [Searched -> Nat]
    OBVIOUS
  <2>2. search \in Text /\ held \in BOOLEAN /\ twice \in BOOLEAN /\ wish \in BOOLEAN /\ sent \in BOOLEAN
    OBVIOUS
  <2>3. /\ value \in [Field -> Text \cup {Undefined}]
        /\ popup \in [Field -> Searched \cup {None, Empty}]
        /\ selected \in [Field -> Text \cup {None, Stale}]
    OBVIOUS
  <2> QED
    BY <2>1, <2>2, <2>3 DEF TypeOK
<1>2. Shown /\ Searching
  BY DEF Shown, Searching, Searched
<1>3. Throbbing /\ AskedOnce /\ Chosen
  BY DEF Throbbing, AskedOnce, Chosen
<1> QED
  BY <1>1, <1>2, <1>3 DEF IInv

(* The text that a search asks for can be asked for. *)
LEMMA SearchedText ==
  /\ \A t \in Text : Trimmed[t] \in Text /\ (Trimmed[t] \notin {Blank} \cup Separator => Trimmed[t] \in Searched)
  /\ \A s \in Searched : s \in Text /\ s # Blank /\ Matches[s] \subseteq Text
                         /\ s \notin {None, Empty} /\ None # Empty /\ None # Stale /\ Stale \notin Text
BY AutocompleteAssumption DEF Searched

(* A field that is hidden has no list and nothing highlighted in it; its text   *)
(* is the choice, which is "undefined" only when the list had been replaced.   *)
LEMMA Hiding ==
  ASSUME TypeOK, Shown, NEW f \in Field, NEW choose \in BOOLEAN, HidePopup(f, choose)
  PROVE  /\ value' \in [Field -> Text \cup {Undefined}] /\ popup' \in [Field -> Searched \cup {None, Empty}]
         /\ fading' \subseteq Field /\ selected' \in [Field -> Text \cup {None, Stale}]
         /\ popup'[f] = None /\ selected'[f] = None
         /\ \A g \in Field \ {f} : value'[g] = value[g] /\ popup'[g] = popup[g] /\ selected'[g] = selected[g]
         /\ value'[f] = value[f] \/ value'[f] \in Text \/ (value'[f] = Undefined /\ selected[f] = Stale)
<1> USE DEF HidePopup, TypeOK
<1>1. selected[f] \in Text \cup {None, Stale}
  OBVIOUS
<1>2. value'[f] = value[f] \/ value'[f] \in Text \/ (value'[f] = Undefined /\ selected[f] = Stale)
  BY <1>1
<1>3. value' \in [Field -> Text \cup {Undefined}]
  BY <1>1
<1> QED
  BY <1>2, <1>3

(* A step that leaves the search and the cache as they are, and hides a field. *)
LEMMA HidingKeeps ==
  ASSUME IInv, NEW f \in Field, NEW choose \in BOOLEAN, HidePopup(f, choose),
         UNCHANGED <<focus, held, wish, search, owner, cache, timer>>,
         held /\ focus = f => value'[f] \in Text
  PROVE  Shown' /\ Searching'
<1> USE DEF IInv
<1>1. /\ popup'[f] = None /\ selected'[f] = None
      /\ \A g \in Field \ {f} : value'[g] = value[g] /\ popup'[g] = popup[g] /\ selected'[g] = selected[g]
  BY Hiding
<1>2. Shown'
  BY <1>1, SearchedText DEF Shown
<1>3. Searching'
  BY <1>1 DEF Searching
<1> QED
  BY <1>2, <1>3

(* A fresh popup for the text of the field that has the focus. *)
LEMMA Populating ==
  ASSUME IInv, NEW f \in Field, PopulatePopup(f), UNCHANGED <<focus, cache>>,
         focus = f, value[f] \in Text, held' = FALSE
  PROVE  /\ TypeOK => /\ popup' \in [Field -> Searched \cup {None, Empty}]
                       /\ fading' \subseteq Field /\ selected' \in [Field -> Text \cup {None, Stale}]
                       /\ owner' \in Field /\ search' \in Text /\ timer' \in Searched \cup {None}
         /\ Shown' /\ Searching'
<1> DEFINE s == Trimmed[value[f]]
<1> USE DEF IInv
<1>1. /\ owner' = f /\ search' = value[f] /\ value' = value
      /\ selected' = [selected EXCEPT ![f] = None]
      /\ popup' = [popup EXCEPT ![f] = None] \/ popup' = [popup EXCEPT ![f] = Empty]
         \/ (s \in cache /\ popup' = [popup EXCEPT ![f] = s])
      /\ fading' = fading \/ fading' = fading \cup {f}
      /\ timer' = timer \/ (s \notin {Blank} \cup Separator /\ timer' = s)
  BY DEF PopulatePopup
<1>2. s \in Text /\ (s \notin {Blank} \cup Separator => s \in Searched) /\ cache \subseteq Searched
  BY SearchedText DEF TypeOK
<1>3. /\ popup' \in [Field -> Searched \cup {None, Empty}]
      /\ fading' \subseteq Field /\ selected' \in [Field -> Text \cup {None, Stale}]
      /\ owner' \in Field /\ search' \in Text /\ timer' \in Searched \cup {None}
  BY <1>1, <1>2 DEF TypeOK
<1>4. \A g \in Field \ {f} : /\ popup[g] = None /\ selected[g] = None
                            /\ popup'[g] = None /\ selected'[g] = None
  BY <1>1, SearchedText DEF TypeOK, Shown
<1>5. popup'[f] \in {None, Empty} \/ (popup'[f] = s /\ s \in cache)
  BY <1>1 DEF TypeOK
<1>6. selected'[f] = None
  BY <1>1 DEF TypeOK
<1>7. Shown'
  BY <1>1, <1>2, <1>4, <1>5, <1>6, SearchedText DEF Shown
<1>8. Searching'
  BY <1>1 DEF Searching
<1> QED
  BY <1>3, <1>7, <1>8

(* Every step of the user, the timer and the server keeps the invariant. *)
LEMMA StepHolds == IInv /\ [Next]_vars => IInv'
<1> SUFFICES ASSUME IInv, [Next]_vars PROVE IInv'
  OBVIOUS
<1> USE SearchedText DEF IInv, field, db, user, history
<1>1. ASSUME NEW f \in Field, Focus(f) PROVE IInv'
  <2>1. focus = None /\ None \notin Field
    BY <1>1, AutocompleteAssumption DEF Focus
  <2>2. ~held /\ timer = None /\ \A g \in Field : popup[g] = None /\ selected[g] = None
    BY <2>1 DEF Shown, Searching
  <2>3. TypeOK'
    BY <1>1 DEF Focus, TypeOK
  <2>4. Shown' /\ Searching'
    BY <1>1, <2>2 DEF Focus, Shown, Searching
  <2> QED
    BY <2>3, <2>4
<1>2. ASSUME NEW f \in Field, NEW s \in Text, Press(f, s) PROVE IInv'
  <2>1. keys' \in 0..MaxKeys
    <3>1. keys \in 0..MaxKeys /\ MaxKeys \in Nat /\ keys < MaxKeys /\ keys' = keys + 1
      BY <1>2, AutocompleteAssumption DEF Press, TypeOK
    <3> QED
      BY <3>1
  <2>2. value' \in [Field -> Text \cup {Undefined}] /\ value'[f] = s
    BY <1>2 DEF Press, TypeOK
  <2>3. TypeOK'
    <3>1. UNCHANGED <<popup, fading, selected, throb, owner, search, cache, timer, flying, focus, wish, sent,
                      asked, twice, failed>> /\ held' \in BOOLEAN
      BY <1>2 DEF Press
    <3> QED
      BY <2>1, <2>2, <3>1 DEF TypeOK
  <2>4. Shown' /\ Searching'
    BY <1>2, <2>2 DEF Press, Active, Shown, Searching
  <2> QED
    BY <2>3, <2>4
<1>3. ASSUME NEW f \in Field, Release(f) PROVE IInv'
  <2>1. value[f] \in Text /\ focus = f /\ ~wish
    BY <1>3 DEF Release, Searching
  <2>2. CASE value[f] # Blank
    <3>1. PopulatePopup(f) /\ UNCHANGED <<cache, flying>> /\ held' = FALSE
      BY <1>3, <2>2 DEF Release
    <3>2. UNCHANGED <<throb, focus, keys, wish, sent, asked, twice, failed>>
      BY <1>3 DEF Release
    <3>3. value' = value
      BY <3>1 DEF PopulatePopup
    <3> QED
      BY <3>1, <3>2, <3>3, <2>1, Populating DEF TypeOK
  <2>3. CASE value[f] = Blank
    <3>1. PICK cut \in BOOLEAN : HidePopup(f, cut)
      BY <1>3, <2>3 DEF Release
    <3>2. UNCHANGED <<db, throb, focus, keys, wish, sent, asked, twice, failed>> /\ held' = FALSE
      BY <1>3, <2>3 DEF Release
    <3>3. TypeOK'
      BY <3>1, <3>2, Hiding DEF TypeOK
    <3>4. \A g \in Field : popup'[g] = None /\ selected'[g] = None
      BY <3>1, <2>1, Hiding DEF Shown, TypeOK
    <3>5. Shown' /\ Searching'
      BY <3>2, <3>4 DEF Shown, Searching
    <3> QED
      BY <3>3, <3>5
  <2> QED
    BY <2>2, <2>3
<1>4. ASSUME NEW f \in Field, Highlight(f) \/ Unhighlight(f) PROVE IInv'
  <2>1. /\ focus = f /\ ~held /\ popup[f] \in Searched
        /\ UNCHANGED <<value, popup, fading, throb, db, user, history>>
    BY <1>4 DEF Highlight, Unhighlight, Active, Shown, TypeOK
  <2>2. \E m \in Matches[popup[f]] \cup {None} \cup (IF selected[f] = Stale THEN {Stale} ELSE {}) :
          selected' = [selected EXCEPT ![f] = m]
    BY <1>4 DEF Highlight, Unhighlight
  <2>3. PICK m \in Matches[popup[f]] \cup {None} \cup (IF selected[f] = Stale THEN {Stale} ELSE {}) :
          selected' = [selected EXCEPT ![f] = m]
    BY <2>2
  <2>4. /\ selected' \in [Field -> Text \cup {None, Stale}] /\ selected'[f] = m
        /\ \A g \in Field \ {f} : selected'[g] = selected[g]
    BY <2>1, <2>3 DEF TypeOK
  <2>5. TypeOK' /\ Searching'
    BY <2>1, <2>4 DEF TypeOK, Searching
  <2>6. Shown'
    BY <2>1, <2>3, <2>4 DEF Shown
  <2> QED
    BY <2>5, <2>6
<1>5. ASSUME NEW f \in Field, CloseKey(f) PROVE IInv'
  <2>1. PICK choose \in BOOLEAN : HidePopup(f, choose)
    BY <1>5 DEF CloseKey
  <2>2. UNCHANGED <<throb, db, user, history>> /\ ~held
    BY <1>5 DEF CloseKey, Active
  <2>3. TypeOK'
    BY <2>1, <2>2, Hiding DEF TypeOK
  <2> QED
    BY <2>1, <2>2, <2>3, HidingKeeps
<1>6. ASSUME NEW f \in Field, Blur(f) PROVE IInv'
  <2>1. HidePopup(f, TRUE) /\ focus = f
    BY <1>6 DEF Blur
  <2>2. /\ focus' = None /\ throb' = throb \ {owner} /\ timer' = None /\ search' = Blank
        /\ held' = FALSE /\ UNCHANGED <<owner, cache, flying, keys, wish, sent, history>>
    BY <1>6 DEF Blur, ThrobberOff
  <2>3. TypeOK'
    BY <2>1, <2>2, Hiding, AutocompleteAssumption DEF TypeOK
  <2>4. \A g \in Field : popup'[g] = None /\ selected'[g] = None
    BY <2>1, Hiding DEF Shown, TypeOK
  <2>5. Shown' /\ Searching'
    BY <2>1, <2>2, <2>4 DEF Shown, Searching
  <2> QED
    BY <2>3, <2>5
<1>7. ASSUME NEW f \in Field, FadedOut(f) PROVE IInv'
  BY <1>7 DEF FadedOut, TypeOK, Shown, Searching
<1>8. CASE TimerFires
  <2>1. timer \in Searched /\ owner \in Field
    BY <1>8 DEF TimerFires, TypeOK, Searching
  <2>2. flying' \in [Searched -> Nat]
    BY <1>8, <2>1 DEF TimerFires, TypeOK
  <2>3. twice' \in BOOLEAN
    BY <1>8 DEF TimerFires, TypeOK
  <2>4. TypeOK'
    BY <1>8, <2>1, <2>2, <2>3 DEF TimerFires, TypeOK
  <2>5. Shown' /\ Searching'
    BY <1>8 DEF TimerFires, Shown, Searching
  <2> QED
    BY <2>4, <2>5
<1>9. ASSUME NEW s \in Searched, Arrive(s) PROVE flying' \in [Searched -> Nat]
  BY <1>9 DEF Arrive, TypeOK
<1>10. ASSUME NEW s \in Searched, Answer(s) PROVE IInv'
  <2>1. /\ flying' \in [Searched -> Nat] /\ cache' = cache \cup {s} /\ throb' = throb \ {owner}
        /\ UNCHANGED <<owner, search, timer, user, history>>
    BY <1>9, <1>10 DEF Answer, ThrobberOff
  <2>2. CASE UNCHANGED field
    BY <2>1, <2>2 DEF TypeOK, Shown, Searching
  <2>3. CASE ~UNCHANGED field
    <3>1. search = s /\ owner \in Field /\ Found(owner, s)
      BY <1>10, <2>3 DEF Answer, Searching
    <3>2. popup[owner] # None /\ focus = owner
      BY <2>3, <3>1 DEF Found, Shown
    <3>3. CASE Matches[s] = {}
      <4>1. HidePopup(owner, TRUE) /\ selected[owner] # Stale
        BY <2>3, <3>1, <3>3 DEF Found, Shown
      <4>2. /\ value' \in [Field -> Text \cup {Undefined}] /\ popup' \in [Field -> Searched \cup {None, Empty}]
            /\ fading' \subseteq Field /\ selected' \in [Field -> Text \cup {None, Stale}]
            /\ popup'[owner] = None /\ selected'[owner] = None
            /\ value'[owner] = value[owner] \/ value'[owner] \in Text
        BY <4>1, <3>1, Hiding
      <4>3. TypeOK'
        BY <2>1, <4>2 DEF TypeOK
      <4>4. \A g \in Field : popup'[g] = None /\ selected'[g] = None
        BY <3>1, <3>2, <4>1, <4>2, Hiding DEF Shown
      <4>5. Shown'
        BY <4>4 DEF Shown
      <4>6. Searching'
        BY <2>1, <3>2, <4>2 DEF Searching
      <4> QED
        BY <4>3, <4>5, <4>6
    <3>4. CASE Matches[s] # {}
      <4>1. /\ popup' = [popup EXCEPT ![owner] = s]
            /\ selected' = [selected EXCEPT ![owner] = IF @ = None THEN None ELSE Stale]
            /\ UNCHANGED <<value, fading>>
        BY <2>3, <3>1, <3>4 DEF Found
      <4>2. /\ popup' \in [Field -> Searched \cup {None, Empty}] /\ selected' \in [Field -> Text \cup {None, Stale}]
            /\ popup'[owner] = s /\ selected'[owner] \in {None, Stale}
            /\ \A g \in Field \ {owner} : popup'[g] = popup[g] /\ selected'[g] = selected[g]
        BY <3>1, <4>1 DEF TypeOK
      <4>3. TypeOK'
        BY <2>1, <4>1, <4>2 DEF TypeOK
      <4>4. \A g \in Field \ {owner} : popup'[g] = None /\ selected'[g] = None
        BY <3>2, <4>2 DEF Shown
      <4>5. Shown'
        BY <2>1, <3>1, <3>2, <3>4, <4>1, <4>2, <4>4 DEF Shown
      <4>6. Searching'
        BY <2>1, <4>1 DEF Searching
      <4> QED
        BY <4>3, <4>5, <4>6
    <3> QED
      BY <3>3, <3>4
  <2> QED
    BY <2>2, <2>3
<1>11. ASSUME NEW s \in Searched, Error(s) PROVE IInv'
  <2>1. TypeOK'
    BY <1>9, <1>11 DEF Error, TypeOK
  <2> QED
    BY <1>11, <2>1 DEF Error, Shown, Searching
<1>12. CASE Wish
  <2>1. TypeOK' /\ Shown'
    BY <1>12 DEF Wish, TypeOK, Shown
  <2> QED
    BY <1>12, <2>1 DEF Wish, Searching
<1>13. CASE Submit
  <2>1. UNCHANGED <<throb, db, focus, held, keys, wish, history>> /\ wish
    BY <1>13 DEF Submit
  <2>2. CASE OnPage = {}
    <3>1. sent' = TRUE /\ UNCHANGED field
      BY <1>13, <2>2 DEF Submit
    <3> QED
      BY <2>1, <3>1 DEF TypeOK, Shown, Searching
  <2>3. CASE OnPage # {}
    <3>1. PICK f \in OnPage : HidePopup(f, TRUE)
      BY <1>13, <2>3 DEF Submit
    <3>2. f \in Field /\ UNCHANGED sent
      BY <1>13, <2>3 DEF Submit, OnPage, TypeOK
    <3>3. TypeOK'
      BY <2>1, <3>1, <3>2, Hiding DEF TypeOK
    <3> QED
      BY <2>1, <3>1, <3>2, <3>3, HidingKeeps DEF Searching
  <2> QED
    BY <2>2, <2>3
<1>14. CASE UNCHANGED vars
  BY <1>14 DEF vars, TypeOK, Shown, Searching
<1> QED
  BY <1>1, <1>2, <1>3, <1>4, <1>5, <1>6, <1>7, <1>8, <1>10, <1>11, <1>12, <1>13, <1>14 DEF Next, Reply

(* A throbber is in the field with the focus, and an answer is under way. *)
LEMMA ThrobbingStep == IInv /\ Throbbing /\ [Next]_vars => Throbbing'
<1> SUFFICES ASSUME IInv, Throbbing, [Next]_vars PROVE Throbbing'
  OBVIOUS
<1> USE DEF IInv, Throbbing, field, db, user, history
<1>1. CASE \/ UNCHANGED vars \/ Wish \/ Submit
           \/ \E f \in Field : \/ \E s \in Text : Press(f, s)
                              \/ Highlight(f) \/ Unhighlight(f) \/ CloseKey(f) \/ FadedOut(f)
  BY <1>1 DEF vars, Wish, Submit, Press, Highlight, Unhighlight, CloseKey, FadedOut
<1>2. ASSUME NEW f \in Field, Focus(f) PROVE Throbbing'
  <2>1. throb = {}
    BY <1>2, AutocompleteAssumption DEF Focus, TypeOK
  <2> QED
    BY <1>2, <2>1 DEF Focus
<1>3. ASSUME NEW f \in Field, Release(f) PROVE Throbbing'
  <2>1. owner' \in {owner, f} /\ focus = f /\ UNCHANGED <<focus, throb, flying, failed>>
    BY <1>3 DEF Release, PopulatePopup
  <2> QED
    BY <2>1
<1>4. ASSUME NEW f \in Field, Blur(f) PROVE Throbbing'
  BY <1>4 DEF Blur, ThrobberOff
<1>5. CASE TimerFires
  <2>1. timer \in Searched /\ focus = owner
    BY <1>5 DEF TimerFires, TypeOK, Searching
  <2>2. flying'[timer] > 0
    BY <1>5, <2>1 DEF TimerFires, TypeOK
  <2>3. throb' \subseteq {owner} /\ UNCHANGED <<owner, focus>>
    BY <1>5 DEF TimerFires
  <2> QED
    BY <2>1, <2>2, <2>3
<1>6. ASSUME NEW s \in Searched, Reply(s) PROVE Throbbing'
  BY <1>6 DEF Reply, Answer, Error, ThrobberOff
<1> QED
  BY <1>1, <1>2, <1>3, <1>4, <1>5, <1>6 DEF Next

(* Who is asked for, is noted in asked, and only once unless twice says so. *)
LEMMA AskedOnceStep == IInv /\ AskedOnce /\ [Next]_vars => AskedOnce'
<1> SUFFICES ASSUME IInv, AskedOnce, [Next]_vars PROVE AskedOnce'
  OBVIOUS
<1> USE DEF IInv, field, db, user, history
<1>1. ASSUME UNCHANGED <<flying, cache, asked, twice>> PROVE AskedOnce'
  BY <1>1 DEF AskedOnce
<1>2. CASE TimerFires
  <2>1. /\ timer \in Searched /\ UNCHANGED cache
        /\ asked' = asked \cup {timer} /\ twice' = (twice \/ timer \in asked)
    BY <1>2 DEF TimerFires, TypeOK
  <2>2. /\ flying'[timer] = flying[timer] + 1 /\ flying[timer] \in Nat
        /\ \A s \in Searched \ {timer} : flying'[s] = flying[s]
    BY <1>2, <2>1 DEF TimerFires, TypeOK
  <2>3. ASSUME ~twice' PROVE flying[timer] = 0 /\ timer \notin cache /\ ~twice
    <3>1. ~(flying[timer] > 0) /\ timer \notin cache /\ ~twice
      BY <2>1, <2>3 DEF AskedOnce
    <3> QED
      BY <2>2, <3>1
  <2>4. \A s \in Searched : flying'[s] > 0 \/ s \in cache' => s \in asked'
    BY <2>1, <2>2 DEF AskedOnce
  <2>5. ASSUME ~twice', NEW s \in Searched PROVE flying'[s] <= 1 /\ (s \in cache' => flying'[s] = 0)
    BY <2>1, <2>2, <2>3, <2>5 DEF AskedOnce
  <2> QED
    BY <2>4, <2>5 DEF AskedOnce
<1>3. ASSUME NEW s \in Searched, Reply(s) PROVE AskedOnce'
  <2>1. /\ flying[s] \in Nat /\ flying[s] > 0 /\ flying'[s] = flying[s] - 1
        /\ \A r \in Searched \ {s} : flying'[r] = flying[r]
    BY <1>3 DEF Reply, Answer, Error, Arrive, TypeOK
  <2>2. /\ twice' = twice /\ cache' \in {cache, cache \cup {s}}
        /\ asked' = asked \/ (asked' = asked \ {s} /\ cache' = cache /\ s \notin cache /\ ~(flying[s] > 1))
    BY <1>3 DEF Reply, Answer, Error
  <2>3. \A r \in Searched : flying'[r] > 0 \/ r \in cache' => r \in asked'
    BY <2>1, <2>2 DEF AskedOnce
  <2>4. ASSUME ~twice', NEW r \in Searched PROVE flying'[r] <= 1 /\ (r \in cache' => flying'[r] = 0)
    BY <2>1, <2>2, <2>4 DEF AskedOnce
  <2> QED
    BY <2>3, <2>4 DEF AskedOnce
<1>4. CASE \/ UNCHANGED vars \/ Wish \/ Submit
           \/ \E f \in Field : \/ Focus(f) \/ (\E s \in Text : Press(f, s)) \/ Release(f)
                              \/ Highlight(f) \/ Unhighlight(f) \/ CloseKey(f) \/ Blur(f) \/ FadedOut(f)
  BY <1>1, <1>4
     DEF vars, Wish, Submit, Focus, Press, Release, Highlight, Unhighlight, CloseKey, Blur, FadedOut
<1> QED
  BY <1>2, <1>3, <1>4 DEF Next

(* Nothing leaves the cache, and nothing makes twice FALSE again. *)
LEMMA ExcusesStay == TypeOK /\ Excused /\ [Next]_vars => Excused'
<1> SUFFICES ASSUME TypeOK, Excused, [Next]_vars PROVE Excused'
  OBVIOUS
<1> USE DEF field, db, user, history
<1>1. ASSUME cache \subseteq cache', twice => twice' PROVE Excused'
  BY <1>1 DEF Excused, Retrimmed
<1>2. CASE TimerFires
  <2>1. twice' = (twice \/ timer \in asked) /\ twice \in BOOLEAN
    BY <1>2 DEF TimerFires, TypeOK
  <2>2. cache' = cache
    BY <1>2 DEF TimerFires
  <2> QED
    BY <1>1, <2>1, <2>2
<1>3. ASSUME NEW s \in Searched, Reply(s) PROVE Excused'
  <2>1. twice' = twice /\ (cache' = cache \/ cache' = cache \cup {s})
    BY <1>3 DEF Reply, Answer, Error
  <2> QED
    BY <1>1, <2>1
<1>4. CASE \/ UNCHANGED vars \/ Wish \/ Submit
           \/ \E f \in Field : \/ Focus(f) \/ (\E s \in Text : Press(f, s)) \/ Release(f)
                              \/ Highlight(f) \/ Unhighlight(f) \/ CloseKey(f) \/ Blur(f) \/ FadedOut(f)
  <2>1. UNCHANGED <<cache, twice>>
    BY <1>4
       DEF vars, Wish, Submit, Focus, Press, Release, Highlight, Unhighlight, CloseKey, Blur, FadedOut
  <2> QED
    BY <1>1, <2>1
<1> QED
  BY <1>2, <1>3, <1>4 DEF Next

(* An answer that is excused is what replaces a list somebody chooses from. *)
LEMMA ChosenStep == IInv /\ AskedOnce /\ Chosen /\ [Next]_vars => Chosen'
<1> SUFFICES ASSUME IInv, AskedOnce, Chosen, [Next]_vars,
                    NEW f \in Field, selected'[f] = Stale \/ value'[f] = Undefined
             PROVE  Excused'
  BY DEF Chosen
<1> USE DEF IInv, field, db, user, history
<1>1. selected[f] = Stale \/ value[f] = Undefined => Excused
  BY DEF Chosen
<1>a. Excused => Excused'
  BY ExcusesStay
<1>0. None # Stale /\ Stale \notin Text
  BY AutocompleteAssumption
<1>2. ASSUME UNCHANGED <<value, selected>> PROVE Excused'
  BY <1>a, <1>1, <1>2
<1>3. ASSUME NEW g \in Field, NEW choose \in BOOLEAN, HidePopup(g, choose) PROVE Excused'
  <2>1. Undefined \notin Text /\ None # Stale
    BY AutocompleteAssumption
  <2> QED
    BY <1>a, <1>1, <1>3, <2>1, Hiding
<1>4. ASSUME NEW g \in Field, NEW s \in Text, Press(g, s) PROVE Excused'
  <2>1. s # Undefined
    BY AutocompleteAssumption
  <2> QED
    BY <1>a, <1>1, <1>4, <2>1 DEF Press, TypeOK
<1>5. ASSUME NEW g \in Field, Release(g) PROVE Excused'
  <2>1. CASE value[g] # Blank
    BY <1>a, <1>0, <1>1, <1>5, <2>1 DEF Release, PopulatePopup, TypeOK
  <2>2. CASE value[g] = Blank
    BY <1>3, <1>5, <2>2 DEF Release
  <2> QED
    BY <2>1, <2>2
<1>6. ASSUME NEW g \in Field, Highlight(g) PROVE Excused'
  BY <1>a, <1>1, <1>6, SearchedText DEF Highlight, TypeOK
<1>7. ASSUME NEW g \in Field, Unhighlight(g) PROVE Excused'
  BY <1>a, <1>0, <1>1, <1>7 DEF Unhighlight, TypeOK
<1>8. ASSUME NEW g \in Field, CloseKey(g) \/ Blur(g) PROVE Excused'
  BY <1>3, <1>8 DEF CloseKey, Blur
<1>9. CASE Submit
  <2>1. CASE OnPage = {}
    BY <1>2, <1>9, <2>1 DEF Submit
  <2>2. CASE OnPage # {}
    <3>1. PICK g \in OnPage : HidePopup(g, TRUE)
      BY <1>9, <2>2 DEF Submit
    <3>2. g \in Field
      BY <1>9, <3>1 DEF Submit, OnPage, TypeOK
    <3> QED
      BY <1>3, <3>1, <3>2
  <2> QED
    BY <2>1, <2>2
<1>10. ASSUME NEW s \in Searched, Answer(s) PROVE Excused'
  <2>1. flying[s] > 0
    BY <1>10 DEF Answer, Arrive
  <2>2. CASE UNCHANGED field
    BY <1>2, <2>1, <2>2
  <2>3. CASE ~UNCHANGED field
    <3>1. search = s /\ owner \in Field /\ Found(owner, s)
      BY <1>10, <2>3, SearchedText DEF Answer, Searching
    <3>2. CASE Matches[s] = {}
      BY <1>3, <2>1, <2>3, <3>1, <3>2 DEF Found
    <3>3. CASE Matches[s] # {}
      <4>1. /\ UNCHANGED value
            /\ selected' = [selected EXCEPT ![owner] = IF @ = None THEN None ELSE Stale]
        BY <2>3, <3>1, <3>3 DEF Found
      <4>2. CASE f # owner \/ selected[f] = None
        BY <1>a, <1>1, <2>1, <3>1, <4>1, <4>2, SearchedText DEF TypeOK
      <4>3. CASE f = owner /\ selected[f] # None
        <5>1. popup[f] \in cache /\ popup[f] \in {s, Trimmed[s]} /\ cache' = cache \cup {s}
          BY <1>10, <3>1, <4>3 DEF Shown, Answer
        <5>2. CASE s \in cache
          <6>1. flying[s] # 0
            BY <2>1
          <6>2. twice
            BY <5>2, <6>1 DEF AskedOnce
          <6> QED
            BY <1>a, <6>2 DEF Excused
        <5>3. CASE s \notin cache
          <6>1. Trimmed[s] # s /\ s \in cache' /\ Trimmed[s] \in cache'
            BY <5>1, <5>3
          <6> QED
            BY <6>1 DEF Excused, Retrimmed
        <5> QED
          BY <5>2, <5>3
      <4> QED
        BY <4>2, <4>3
    <3> QED
      BY <3>2, <3>3
  <2> QED
    BY <2>2, <2>3
<1>11. CASE TimerFires
  BY <1>a, <1>1, <1>11 DEF TimerFires
<1>12. CASE \/ UNCHANGED vars \/ Wish \/ (\E s \in Searched : Error(s))
            \/ \E g \in Field : Focus(g) \/ FadedOut(g)
  BY <1>2, <1>12 DEF vars, Wish, Error, Focus, FadedOut
<1> QED
  BY <1>4, <1>5, <1>6, <1>7, <1>8, <1>9, <1>10, <1>11, <1>12 DEF Next, Reply

(* The conjunction is kept by every step, and so holds always. *)
LEMMA Holds == Spec => [](IInv /\ Throbbing /\ AskedOnce /\ Chosen)
BY InitHolds, StepHolds, ThrobbingStep, AskedOnceStep, ChosenStep, PTL DEF Spec

(* What the fields, the database and the user have keeps its type, whatever    *)
(* the handlers do in between.                                                 *)
THEOREM TypesAreKept == Spec => []TypeOK
BY Holds, PTL DEF IInv

(* found() and the check of the success callback: in whatever order answers    *)
(* come, and whichever field asked, an open list belongs to its field's text.  *)
THEOREM ListsFitTheirField == Spec => []ShownFitsText
<1>1. IInv => ShownFitsText
  BY SearchedText DEF IInv, Shown, ShownFitsText
<1> QED
  BY <1>1, Holds, PTL

(* setStatus(): an answer, blur and the next field leave no throbber behind;   *)
(* one that moves is in the field with the focus and waits, or an error left it *)
THEOREM ThrobbersWait == Spec => []ThrobberMeansWaiting
<1>1. IInv /\ Throbbing => ThrobberMeansWaiting
  BY DEF Throbbing, ThrobberMeansWaiting
<1> QED
  BY <1>1, Holds, PTL

(* select() and hidePopup() put a suggestion into the field and not the text   *)
(* "undefined", unless a text was answered twice or next to what it is trimmed *)
(* to: whatever trimming does, and in whatever order the answers come.         *)
THEOREM ChoicesAreSuggestions == Spec => []ChoiceIsSuggestion
<1>1. Chosen => ChoiceIsSuggestion
  BY DEF Chosen, ChoiceIsSuggestion, Excused
<1> QED
  BY <1>1, Holds, PTL
==============================================================================
