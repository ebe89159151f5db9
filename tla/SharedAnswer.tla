---------------------------- MODULE SharedAnswer ----------------------------
(***************************************************************************)
(* What the panel promises the readers of a cached page (/api/state,       *)
(* /api/live), whatever it does to keep the promise: pages are collected   *)
(* one at a time, however many clients ask, and nobody gets a page that    *)
(* was finished TTL or longer before the request.  A page is a set of      *)
(* blocks, each either failed or read at one moment of the collection.     *)
(***************************************************************************)
EXTENDS Integers

CONSTANTS Clients,  \* those who ask for the page
          TTL,      \* how long a finished page may be reused
          Deadline, \* how long a collection may take
          Never,    \* no time, no page
          Failed    \* the block carries an error instead of a value

VARIABLES now,      \* the clock
          asked,    \* asked[c]: when c sent the request it still waits on
          begun,    \* when the collection under way began
          answers,  \* the pages collected so far
          got       \* got[c]: the page c was given for its last request

vars == <<now, asked, begun, answers, got>>

Init == /\ now = 0
        /\ asked = [c \in Clients |-> Never]
        /\ begun = Never
        /\ answers = {}
        /\ got = [c \in Clients |-> Never]

Ask(c) == /\ asked[c] = Never
          /\ asked' = [asked EXCEPT ![c] = now]
          /\ got' = [got EXCEPT ![c] = Never]
          /\ UNCHANGED <<now, begun, answers>>

Leave(c) == /\ asked[c] # Never
            /\ asked' = [asked EXCEPT ![c] = Never]
            /\ UNCHANGED <<now, begun, answers, got>>

Begin == /\ begun = Never
         /\ begun' = now
         /\ UNCHANGED <<now, asked, answers, got>>

\* Every block of a page is of one moment between the collection's begin and its end.
Within(page, from, to) ==
    /\ page.ended = to
    /\ \A b \in DOMAIN page.blocks : page.blocks[b] \in (from .. to) \cup {Failed}

Finish == /\ begun # Never
          /\ begun' = Never
          /\ \E page \in answers' : Within(page, begun, now) /\ answers' = answers \cup {page}
          /\ UNCHANGED <<now, asked, got>>

Answer(c) == /\ asked[c] # Never
             /\ \E page \in answers : /\ page.ended > asked[c] - TTL
                                      /\ got' = [got EXCEPT ![c] = page]
             /\ asked' = [asked EXCEPT ![c] = Never]
             /\ UNCHANGED <<now, begun, answers>>

\* No collection outlives its deadline, so no block handed out is TTL + Deadline old.
Tick == /\ begun # Never => now < begun + Deadline
        /\ now' = now + 1
        /\ UNCHANGED <<asked, begun, answers, got>>

Next == \/ Begin
        \/ Finish
        \/ Tick
        \/ \E c \in Clients : Ask(c) \/ Leave(c) \/ Answer(c)

Spec == Init /\ [][Next]_vars
=============================================================================
