----------------------------- MODULE Autocomplete -----------------------------
(* misc/autocomplete.js: text fields that suggest words while the user types.  *)
(* Fields with the same address share a database object (ACDB), and with it    *)
(* the owner, the search string, the timer and the cache.                      *)
EXTENDS Naturals

CONSTANTS
  Field,     \* the fields of one address, numbered in the order of the page
  Text,      \* what a user may type
  Trimmed,   \* Trimmed[s]: s without spaces at its ends and without "../", in one
             \*   pass: "a ../" becomes "a "
  Separator, \* the texts that end with a comma
  Matches,   \* Matches[s]: the suggestions for s
  Blank,     \* the empty text
  Undefined, \* the text "undefined"
  MaxKeys,   \* bound: keys that change a text
  None,      \* nothing
  Empty,     \* a popup that is not filled
  Stale      \* a suggestion that was highlighted in a list that is gone

Searched == {Trimmed[s] : s \in Text} \ ({Blank} \cup Separator)

ASSUME AutocompleteAssumption ==
  /\ Field \subseteq Nat /\ MaxKeys \in Nat
  /\ Blank \in Text /\ Separator \subseteq Text /\ Undefined \notin Text
  /\ Trimmed \in [Text -> Text] /\ Matches \in [Searched -> SUBSET Text]
  /\ {None, Empty, Stale} \cap (Text \cup {Undefined}) = {} /\ None \notin Field
  /\ None # Empty /\ None # Stale

VARIABLES
  focus,    \* the field that has the focus, or None
  held,     \* a key is down whose keyup will be heard
  value,    \* value[f]: the text in f
  popup,    \* popup[f]: None, Empty, or the text whose suggestions it shows
  fading,   \* the fields with a popup that is being faded out
  selected, \* selected[f]: the highlighted suggestion, None, or Stale
  throb,    \* the fields whose throbber moves
  owner,    \* the field whose search the database works on, or None
  search,   \* its searchString
  cache,    \* the texts whose matches it has
  timer,    \* the text its timer will ask for, or None
  flying,   \* flying[s]: requests for s under way
  asked,    \* the texts asked for, except where all that came was an error
  twice,    \* some text was asked for again although it was in asked
  failed,   \* the texts whose last request failed
  keys, wish, sent  \* keys pressed; the user wants to submit; the form is gone

field == <<value, popup, fading, selected>>
db == <<owner, search, cache, timer, flying>>
user == <<focus, held, keys, wish, sent>>
history == <<asked, twice, failed>>
vars == <<field, throb, db, user, history>>

(* What the fields, the database and the user have. *)
TypeOK ==
  /\ focus \in Field \cup {None} /\ held \in BOOLEAN
  /\ value \in [Field -> Text \cup {Undefined}]
  /\ popup \in [Field -> Searched \cup {None, Empty}]
  /\ fading \subseteq Field
  /\ selected \in [Field -> Text \cup {None, Stale}]
  /\ throb \subseteq Field
  /\ owner \in Field \cup {None} /\ search \in Text
  /\ cache \subseteq Searched /\ timer \in Searched \cup {None}
  /\ flying \in [Searched -> Nat] /\ asked \subseteq Searched
  /\ twice \in BOOLEAN /\ failed \subseteq Searched
  /\ keys \in 0..MaxKeys /\ wish \in BOOLEAN /\ sent \in BOOLEAN

Init ==
  /\ focus = None /\ held = FALSE
  /\ value = [f \in Field |-> Blank]
  /\ popup = [f \in Field |-> None] /\ fading = {}
  /\ selected = [f \in Field |-> None]
  /\ throb = {}
  /\ owner = None /\ search = Blank
  /\ cache = {} /\ timer = None /\ flying = [s \in Searched |-> 0]
  /\ asked = {} /\ twice = FALSE /\ failed = {}
  /\ keys = 0 /\ wish = FALSE /\ sent = FALSE

-----------------------------------------------------------------------------
(* jsAC.hidePopup(), with or without its select(): the data of a suggestion    *)
(* that has left the page is undefined.                                        *)
HidePopup(f, choose) ==
  /\ value' = IF ~choose \/ selected[f] = None THEN value
              ELSE [value EXCEPT ![f] = IF selected[f] = Stale THEN Undefined ELSE selected[f]]
  /\ popup' = [popup EXCEPT ![f] = None]
  /\ fading' = IF popup[f] = None THEN fading ELSE fading \cup {f}
  /\ selected' = [selected EXCEPT ![f] = None]

(* jsAC.found(): an open list is replaced, whatever is highlighted in it. *)
Found(f, s) ==
  IF value[f] = Blank \/ popup[f] = None
  THEN UNCHANGED field
  ELSE IF Matches[s] = {}
       THEN HidePopup(f, TRUE)
       ELSE /\ popup' = [popup EXCEPT ![f] = s]
            /\ selected' = [selected EXCEPT ![f] = IF @ = None THEN None ELSE Stale]
            /\ UNCHANGED <<value, fading>>

(* setStatus('cancel'), setStatus('found') *)
ThrobberOff == throb' = throb \ {owner}

-----------------------------------------------------------------------------
Active(f) == focus = f /\ ~held /\ ~wish

Focus(f) ==
  /\ focus = None /\ ~wish
  /\ focus' = f
  /\ UNCHANGED <<field, throb, db, held, keys, wish, sent, history>>

(* A key changes the text or leaves it as it is; its keyup follows. *)
Press(f, s) ==
  /\ Active(f) /\ keys < MaxKeys
  /\ keys' = keys + 1 /\ held' = TRUE
  /\ value' = [value EXCEPT ![f] = s]
  /\ UNCHANGED <<popup, fading, selected, throb, db, focus, wish, sent, history>>

(* Mutation: the new popup keeps what was highlighted in the old one. *)
PopulatePopup_KeepsSelected(f) ==
  /\ owner' = f /\ search' = value[f]
  /\ LET s == Trimmed[value[f]] IN
     /\ popup' = [popup EXCEPT ![f] = IF s \in cache THEN s ELSE Empty]
     /\ timer' = IF s \in cache \cup {Blank} \cup Separator THEN timer ELSE s
     /\ selected' = [selected EXCEPT ![f] = IF @ = None THEN None ELSE Stale]
     /\ UNCHANGED <<value, fading>>

(* Mutation: the new search does not become the searchString. *)
PopulatePopup_OldSearch(f) ==
  /\ owner' = f
  /\ search' = IF search = Blank THEN value[f] ELSE search
  /\ LET s == Trimmed[value[f]] IN
     /\ popup' = [popup EXCEPT ![f] = IF s \in cache THEN s ELSE Empty]
     /\ timer' = IF s \in cache \cup {Blank} \cup Separator THEN timer ELSE s
     /\ selected' = [selected EXCEPT ![f] = None]
     /\ UNCHANGED <<value, fading>>

(* Mutation: empty texts and texts that end with a comma are asked for, too. *)
PopulatePopup_AsksAnything(f) ==
  /\ owner' = f /\ search' = value[f]
  /\ popup' = [popup EXCEPT ![f] = Empty]
  /\ timer' = IF Trimmed[value[f]] \in cache THEN timer ELSE Trimmed[value[f]]
  /\ selected' = [selected EXCEPT ![f] = None]
  /\ UNCHANGED <<value, fading>>

(* Mutation: a timer that runs is left alone. *)
PopulatePopup_KeepsTimer(f) ==
  /\ owner' = f /\ search' = value[f]
  /\ LET s == Trimmed[value[f]] IN
     /\ popup' = [popup EXCEPT ![f] = IF s \in cache THEN s ELSE Empty]
     /\ timer' = IF timer # None \/ s \in cache \cup {Blank} \cup Separator THEN timer ELSE s
     /\ selected' = [selected EXCEPT ![f] = None]
     /\ UNCHANGED <<value, fading>>

(* jsAC.populatePopup() and ACDB.search(): a fresh popup, filled at once from  *)
(* the cache, later by the timer's request, or never.  Only a new timer clears *)
(* the old one.                                                                *)
PopulatePopup(f) ==
  /\ owner' = f /\ search' = value[f]
  /\ LET s == Trimmed[value[f]]
         fresh == [popup EXCEPT ![f] = Empty]
     IN IF s \in cache
        THEN /\ popup' = [popup EXCEPT ![f] = IF Matches[s] = {} THEN None ELSE s]
             /\ fading' = IF Matches[s] = {} THEN fading \cup {f} ELSE fading
             /\ UNCHANGED timer
        ELSE /\ popup' = fresh
             /\ timer' = IF s \in {Blank} \cup Separator THEN timer ELSE s
             /\ UNCHANGED fading
  /\ selected' = [selected EXCEPT ![f] = None]
  /\ UNCHANGED value

(* onkeyup() of that key.  A text that is now empty was deleted, or cut, which *)
(* hidePopup() takes for a choice.                                             *)
Release(f) ==
  /\ focus = f /\ held
  /\ held' = FALSE
  /\ IF value[f] # Blank
     THEN PopulatePopup(f) /\ UNCHANGED <<cache, flying>>
     ELSE (\E cut \in BOOLEAN : HidePopup(f, cut)) /\ UNCHANGED db
  /\ UNCHANGED <<throb, focus, keys, wish, sent, history>>

(* selectDown(), selectUp() and the mouse; siblings of a suggestion that is    *)
(* gone are gone, too.                                                         *)
Highlight(f) ==
  /\ Active(f) /\ popup[f] \in Searched
  /\ \E m \in Matches[popup[f]] \cup (IF selected[f] = Stale THEN {Stale} ELSE {}) :
       selected' = [selected EXCEPT ![f] = m]
  /\ UNCHANGED <<value, popup, fading, throb, db, user, history>>

Unhighlight(f) ==
  /\ Active(f) /\ selected[f] \notin {None, Stale}
  /\ selected' = [selected EXCEPT ![f] = None]
  /\ UNCHANGED <<value, popup, fading, throb, db, user, history>>

(* Enter and Tab choose, Escape does not. *)
CloseKey(f) ==
  /\ Active(f) /\ popup[f] # None
  /\ \E choose \in BOOLEAN : HidePopup(f, choose)
  /\ UNCHANGED <<throb, db, user, history>>

(* Mutation: cancel() leaves the throbber to the answer. *)
Blur_Throbs(f) ==
  /\ focus = f /\ ~wish
  /\ focus' = None /\ held' = FALSE
  /\ HidePopup(f, TRUE)
  /\ timer' = None /\ search' = Blank
  /\ UNCHANGED <<throb, owner, cache, flying, keys, wish, sent, history>>

(* blur, also by a click on a suggestion: hidePopup() and ACDB.cancel().  The  *)
(* keyup of a key that is still down is heard by nobody, or by another field   *)
(* as one that changes nothing.                                                *)
Blur(f) ==
  /\ focus = f /\ ~wish
  /\ focus' = None /\ held' = FALSE
  /\ HidePopup(f, TRUE)
  /\ ThrobberOff
  /\ timer' = None /\ search' = Blank
  /\ UNCHANGED <<owner, cache, flying, keys, wish, sent, history>>

FadedOut(f) ==
  /\ f \in fading
  /\ fading' = fading \ {f}
  /\ UNCHANGED <<value, popup, selected, throb, db, user, history>>

-----------------------------------------------------------------------------
(* 300 ms without another search. *)
TimerFires ==
  /\ timer # None
  /\ timer' = None
  /\ flying' = [flying EXCEPT ![timer] = @ + 1]
  /\ throb' = throb \cup {owner}
  /\ asked' = asked \cup {timer} /\ twice' = (twice \/ timer \in asked)
  /\ failed' = failed \ {timer}
  /\ UNCHANGED <<field, owner, search, cache, user>>

Arrive(s) == flying[s] > 0 /\ flying' = [flying EXCEPT ![s] = @ - 1]

(* The success callback asks for the owner and the string of now. *)
Answer(s) ==
  /\ Arrive(s)
  /\ cache' = cache \cup {s}
  /\ IF search = s THEN Found(owner, s) ELSE UNCHANGED field
  /\ ThrobberOff
  /\ UNCHANGED <<owner, search, timer, user, history>>

(* An error, or an answer whose status is 0: the throbber is not told. *)
Error(s) ==
  /\ Arrive(s)
  /\ failed' = failed \cup {s}
  /\ asked' = IF s \in cache \/ flying[s] > 1 THEN asked ELSE asked \ {s}
  /\ UNCHANGED <<field, throb, owner, search, cache, timer, user, twice>>

-----------------------------------------------------------------------------
(* The user is done with the fields, and submits until the form goes. *)
Wish ==
  /\ ~held /\ ~wish
  /\ wish' = TRUE
  /\ UNCHANGED <<field, throb, db, focus, held, keys, sent, history>>

OnPage == {f \in Field : popup[f] # None} \cup fading

(* Mutation: the handler only looks. *)
Submit_Looks ==
  /\ wish /\ ~sent
  /\ OnPage = {} /\ sent' = TRUE
  /\ UNCHANGED <<field, throb, db, focus, held, keys, wish, history>>

(* autocompleteSubmit(): a popup of the page, seen or not, keeps the form; its *)
(* owner is told to hide what it has now.                                      *)
Submit ==
  /\ wish /\ ~sent
  /\ IF OnPage = {}
     THEN sent' = TRUE /\ UNCHANGED field
     ELSE /\ \E f \in OnPage : (\A g \in OnPage : f <= g) /\ HidePopup(f, TRUE)
          /\ UNCHANGED sent
  /\ UNCHANGED <<throb, db, focus, held, keys, wish, history>>

-----------------------------------------------------------------------------
Reply(s) == Answer(s) \/ Error(s)

Next ==
  \/ \E f \in Field :
       \/ Focus(f) \/ (\E s \in Text : Press(f, s)) \/ Release(f) \/ Highlight(f)
       \/ Unhighlight(f) \/ CloseKey(f) \/ Blur(f) \/ FadedOut(f)
  \/ TimerFires \/ (\E s \in Searched : Reply(s))
  \/ Wish \/ Submit

(* Timers fire, animations and requests end, and the user submits again. *)
Fairness ==
  /\ \A f \in Field : WF_vars(FadedOut(f)) /\ WF_vars(Release(f))
  /\ WF_vars(TimerFires) /\ \A s \in Searched : WF_vars(Reply(s))
  /\ WF_vars(Submit)

Spec == Init /\ [][Next]_vars /\ Fairness

-----------------------------------------------------------------------------
(* "Verify if these are still the matches the user wants to see" (line 306):   *)
(* a list that is shown belongs to the text of its field, as it was typed or    *)
(* trimmed, whatever order the answers come in and whichever field asked.       *)
ShownFitsText ==
  \A f \in Field : popup[f] \in Searched /\ ~held => popup[f] \in {value[f], Trimmed[value[f]]}

(* "Puts the currently highlighted suggestion into the autocomplete field"     *)
(* (line 113).  The text "undefined" comes there only when the list with the   *)
(* highlighted suggestion was replaced, and two kinds of answers can do that:  *)
(* the second one for a text, and one for a text that trimming shortens again, *)
(* as "a ", for which "a ../" asks, next to the list of "a".                   *)
Retrimmed == \E s \in cache : Trimmed[s] # s /\ Trimmed[s] \in cache
ChoiceIsSuggestion == \A f \in Field : value[f] = Undefined => twice \/ Retrimmed

(* A throbber moves in the field with the focus, and only while an answer is   *)
(* under way or after an error, which does not stop it.                        *)
ThrobberMeansWaiting ==
  \A f \in throb : focus = f /\ ((\E s \in Searched : flying[s] > 0) \/ failed # {})

(* Who types a text that trimming leaves as it is and waits gets suggestions,   *)
(* or none if there are none, or the request fails.                            *)
SuggestionsCome ==
  \A f \in Field : \A s \in {t \in Searched : Trimmed[t] = t} :
    (value[f] = s /\ popup[f] = Empty /\ ~held)
      ~> (value[f] # s \/ popup[f] # Empty \/ held \/ s \in failed)

(* Popups nobody sees keep the form from being sent for a while, not for ever. *)
SubmitComesThrough == wish ~> sent
==============================================================================
