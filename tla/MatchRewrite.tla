---------------------------- MODULE MatchRewrite ----------------------------
(***************************************************************************)
(* apply_match_rewrite (src/src/irbuild/match_rewrite.rs): the queue of    *)
(* operations that matched and the set of those erased.  One step is one   *)
(* turn of the loop, the client's callback included (module                *)
(* RewriteCallbacks).  An operation is matched when it is put in the       *)
(* queue, and not again when it is taken from it.                          *)
(***************************************************************************)
EXTENDS RewriteCallbacks

CONSTANT Inputs                  \* IRs that are rewritten, as records

ASSUME InputsAssumption ==
    \A p \in Inputs : /\ p.walk \in Seq(OpKey) /\ p.wanted \subseteq OpKey
                      /\ p.defs \in [OpKey -> SUBSET OpKey]

VARIABLES to_rewrite,
          enque,                 \* RewriterOrder::enque
          erased_ops,
          rewritten,             \* history: the operations given to the client
          stale,                 \* history: an erased operation was touched
          failed                 \* the callback has returned an error

mrVars == <<known, gone, defs, wanted, to_rewrite, enque, erased_ops, rewritten, stale, failed>>

\* The walk of the operation tree, in the order the caller asked for.
MRInit ==
    /\ \E p \in Inputs :
          /\ known = ToSet(p.walk) /\ defs = p.defs /\ wanted = p.wanted
          /\ to_rewrite = Filtered(p.walk, p.wanted)
    /\ enque \in {"EnqueFront", "EnqueBack"}
    /\ gone = {} /\ erased_ops = {} /\ rewritten = {} /\ stale = FALSE /\ failed = FALSE

current == Head(to_rewrite)

Skip ==
    /\ ~ failed /\ to_rewrite # <<>> /\ current \in erased_ops
    /\ to_rewrite' = Tail(to_rewrite)
    /\ UNCHANGED <<clientVars, enque, erased_ops, rewritten, stale, failed>>

\* Mutant: erasures are not noted before the insertions are looked at.
note_erased_Late(del) == erased_ops

\* The first loop over the events: "to avoid dereferencing them".
note_erased(del) == erased_ops \cup del

\* The second loop: inserted operations that match, and match is asked only about
\* those that are not erased.
asked(inserted) == Filtered(inserted, OpKey \ erased_ops')

\* Mutant: insertions are kept only when nothing is queued.
enqueue_EmptyOnly(queue, inserted) == IF queue = <<>> THEN inserted ELSE queue

enqueue(queue, inserted) ==
    IF enque = "EnqueFront" THEN Reverse(inserted) \o queue ELSE queue \o inserted

\* What may be given the uses of the current operation, if it has any.
Heirs(new) == IF Users(current) = {} THEN {{}} ELSE {new} \cup AtMostOne(defs[current])

Rewrite ==
    /\ ~ failed /\ to_rewrite # <<>> /\ current \notin erased_ops
    /\ \E new \in AtMostOne(OpKey \ (known \cup gone)) :
       \E heir \in Heirs(new) : \E del \in Erasable(current, new, heir) :
       \E keep \in SUBSET (({current} \cup new) \ del), lost \in MayLose(current, heir),
          moved \in AtMostOne(known) :
          /\ Callback(current, new, heir, del, keep, lost)
          /\ erased_ops' = note_erased(del)
          /\ LET inserted == asked(SetToSeq(new) \o SetToSeq(moved))
             IN  /\ to_rewrite' = enqueue(Tail(to_rewrite),
                                          Filtered(inserted, wanted'))
                 /\ stale' = (stale \/ current \notin known \/ ~ ToSet(inserted) \subseteq known')
    /\ rewritten' = rewritten \cup {current}
    /\ UNCHANGED <<enque, failed>>

Fail ==
    /\ ~ failed /\ to_rewrite # <<>> /\ current \notin erased_ops
    /\ failed' = TRUE
    /\ UNCHANGED <<clientVars, to_rewrite, enque, erased_ops, rewritten, stale>>

MRNext == Skip \/ Rewrite \/ Fail

MRSpec == MRInit /\ [][MRNext]_mrVars

(***************************************************************************)
(* Properties                                                              *)
(***************************************************************************)

\* The driver never asks about, gives to the client or inserts before an operation
\* that a callback has erased: the loop over erasures comes first, and duplicates
\* left in the queue are skipped.
NothingStale == ~ stale

\* When the queue runs dry, every operation that matches, found by the walk or
\* inserted or moved by a callback, has been given to the client.
AllRewritten == to_rewrite = <<>> => known \cap wanted \subseteq rewritten
=============================================================================
