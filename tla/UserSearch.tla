----------------------------- MODULE UserSearch -----------------------------
(***************************************************************************)
(* The user picker of a flag rule: typed terms are debounced, a new one    *)
(* cancels the request of the last, and a term that extends the last one   *)
(* is answered from its results when those were complete.                  *)
(*                                                                         *)
(* A term is a sequence of letters, and so is the one field of a user that *)
(* stands for the email, the names and the id, which all are searched.     *)
(***************************************************************************)
EXTENDS Integers, Sequences, FiniteSets, SequencesExt

CONSTANTS
    Letters,        \* letters of terms
    Directory,      \* the users, newest first: a sequence of their fields
    MinChars,       \* USER_SEARCH_MIN_CHARS (3 in the code)
    MaxChars,       \* MAX_USER_FILTER_LENGTH (255 in the code)
    Limit,          \* USER_SEARCH_LIMIT (10 in the code)
    MaxTyped        \* bound: terms typed

VARIABLES
    term,           \* the text of the input
    searched,       \* the term last searched, of those that settled
    request,        \* the term of the request in flight
    lastSearch,     \* #lastSearch
    options,        \* userOptions
    typed           \* terms typed so far

searchVars == <<term, searched, request, lastSearch, options, typed>>

NoTerm == <<"none">>
Terms == SeqOf(Letters, MaxChars + 1)
NoSearch == [term |-> NoTerm, results |-> <<>>, isComplete |-> FALSE]

Matches(field, t) == \E i \in 0..Len(field) : IsPrefix(t, SubSeq(field, i + 1, Len(field)))
isSearchableTerm(t) == Len(t) \in MinChars..MaxChars

SearchInit ==
    /\ term = <<>> /\ searched = NoTerm /\ request = NoTerm
    /\ lastSearch = NoSearch /\ options = <<>> /\ typed = 0

(* A letter is typed or deleted, or the text is replaced. *)
Type(t) ==
    /\ typed < MaxTyped
    /\ t # term
    /\ term' = t /\ typed' = typed + 1
    /\ UNCHANGED <<searched, request, lastSearch, options>>

(* The server's search (and the mock's), newest first. *)
AllMatches(t) == SelectSeq(Directory, LAMBDA field : Matches(field, t))
Page(t) == SubSeq(AllMatches(t), 1, IF Len(AllMatches(t)) < Limit THEN Len(AllMatches(t)) ELSE Limit)

Narrows(t) == /\ lastSearch.term # NoTerm /\ lastSearch.isComplete
              /\ IsPrefix(lastSearch.term, t)

(* The typing has paused: debounceTime, distinctUntilChanged, switchMap.   *)
Settle ==
    /\ term # searched
    /\ searched' = term
    /\ IF ~isSearchableTerm(term)
         THEN lastSearch' = NoSearch /\ options' = <<>> /\ request' = NoTerm
       ELSE IF Narrows(term)
         THEN LET kept == SelectSeq(lastSearch.results, LAMBDA f : Matches(f, term)) IN
              /\ lastSearch' = [term |-> term, results |-> kept, isComplete |-> TRUE]
              /\ options' = kept /\ request' = NoTerm
       ELSE request' = term /\ UNCHANGED <<lastSearch, options>>
    /\ UNCHANGED <<term, typed>>

Answered ==
    /\ request # NoTerm
    /\ lastSearch' = [term |-> request, results |-> Page(request),
                      isComplete |-> Len(Page(request)) < Limit]
    /\ options' = Page(request)
    /\ request' = NoTerm
    /\ UNCHANGED <<term, searched, typed>>

SearchNext == (\E t \in Terms : Type(t)) \/ Settle \/ Answered

SearchSpec == SearchInit /\ [][SearchNext]_searchVars

(* "Local filtering is exact": whatever was typed before, the options of a *)
(* settled term are the page the server gives for it, and never those of   *)
(* another term. [feature-flag-rule-row.component.ts:265-269]              *)
NarrowingIsExact ==
  (request = NoTerm /\ searched # NoTerm /\ isSearchableTerm(searched))
     => options = Page(searched)
=============================================================================
