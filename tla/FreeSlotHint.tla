---------------------------- MODULE FreeSlotHint ----------------------------
(***************************************************************************)
(* The two-level bitmap of src/registry/bootstrap/free_slot_hint.rs, one   *)
(* atomic access per step.  words[w] is the set of bits set in word w and  *)
(* summary the set of words whose summary bit is set.  Threads call        *)
(* publish, forget and take_nonempty in any order.                         *)
(***************************************************************************)
EXTENDS Integers, FiniteSets

CONSTANTS Threads,
          WORDS,          \* words of the bitmap (MAX_HEAPS / 64)
          WordBits,       \* bits of one word (64)
          TAKE_ATTEMPTS,  \* rounds take_nonempty makes (2 * WORDS)
          NoIndex         \* the None that take_nonempty returns

Word == 0 .. WORDS - 1
Bit  == 0 .. WordBits - 1
Index == 0 .. WORDS * WordBits - 1

(* What an instance must give the constants.                               *)
SizeAssumption ==
    /\ WORDS \in Nat \ {0}
    /\ WordBits \in Nat \ {0}
    /\ TAKE_ATTEMPTS \in Nat
    /\ NoIndex \notin Index

VARIABLES summary, words,
          pc,       \* the next atomic access of each thread
          word,     \* word_index of its operation in progress
          bit,      \* the bit a take is about to clear
                    \* (word, bit and tries are 0 where they are dead)
          tries,    \* rounds a take has left
          picked    \* the index a take has removed, NoIndex before that

vars == <<summary, words, pc, word, bit, tries, picked>>

PCs == {"idle", "pub_summary", "take_summary", "take_word", "take_bit",
        "clear", "recheck", "reset", "return"}

TypeOK ==
    /\ summary \subseteq Word
    /\ words \in [Word -> SUBSET Bit]
    /\ pc \in [Threads -> PCs]
    /\ word \in [Threads -> Word]
    /\ bit \in [Threads -> Bit]
    /\ tries \in [Threads -> 0 .. TAKE_ATTEMPTS]
    /\ picked \in [Threads -> Index \cup {NoIndex}]

Init ==
    /\ summary = {}
    /\ words = [w \in Word |-> {}]
    /\ pc = [t \in Threads |-> "idle"]
    /\ word = [t \in Threads |-> 0]
    /\ bit = [t \in Threads |-> 0]
    /\ tries = [t \in Threads |-> 0]
    /\ picked = [t \in Threads |-> NoIndex]

Goto(t, label) == pc' = [pc EXCEPT ![t] = label]

TrailingZeros(set) == CHOOSE i \in set : \A j \in set : i =< j

-----------------------------------------------------------------------------
(* publish: the bit first, then the summary bit of its word.               *)

Publish(t, i) ==
    /\ pc[t] = "idle"
    /\ word' = [word EXCEPT ![t] = i \div WordBits]
    /\ words' = [words EXCEPT ![i \div WordBits] = @ \cup {i % WordBits}]
    /\ Goto(t, "pub_summary")
    /\ UNCHANGED <<summary, bit, tries, picked>>

PublishSummary(t) ==
    /\ pc[t] = "pub_summary"
    /\ summary' = summary \cup {word[t]}
    /\ word' = [word EXCEPT ![t] = 0]
    /\ Goto(t, "idle")
    /\ UNCHANGED <<words, bit, tries, picked>>

(* forget clears the bit and leaves the summary alone.                     *)
Forget(t, i) ==
    /\ pc[t] = "idle"
    /\ words' = [words EXCEPT ![i \div WordBits] = @ \ {i % WordBits}]
    /\ UNCHANGED <<summary, pc, word, bit, tries, picked>>

-----------------------------------------------------------------------------
(* take_nonempty.                                                          *)

Take(t) ==
    /\ pc[t] = "idle"
    /\ tries' = [tries EXCEPT ![t] = TAKE_ATTEMPTS]
    /\ Goto(t, "take_summary")
    /\ UNCHANGED <<summary, words, word, bit, picked>>

(* Wrong variant: a round that is not counted. *)
TakeSummaryUncounted(t) ==
    /\ pc[t] = "take_summary"
    /\ IF summary = {}
         THEN Goto(t, "idle") /\ tries' = [tries EXCEPT ![t] = 0] /\ UNCHANGED word
         ELSE /\ word' = [word EXCEPT ![t] = TrailingZeros(summary)]
              /\ Goto(t, "take_word")
              /\ UNCHANGED tries
    /\ UNCHANGED <<summary, words, bit, picked>>

(* The head of the loop: give up when no round is left or the summary is   *)
(* zero, else choose the lowest word the summary names.                    *)
TakeSummary(t) ==
    /\ pc[t] = "take_summary"
    /\ IF tries[t] = 0 \/ summary = {}
         THEN /\ Goto(t, "idle")
              /\ tries' = [tries EXCEPT ![t] = 0]
              /\ word' = [word EXCEPT ![t] = 0]
         ELSE /\ word' = [word EXCEPT ![t] = TrailingZeros(summary)]
              /\ tries' = [tries EXCEPT ![t] = @ - 1]
              /\ Goto(t, "take_word")
    /\ UNCHANGED <<summary, words, bit, picked>>

TakeWord(t) ==
    /\ pc[t] = "take_word"
    /\ IF words[word[t]] = {}
         THEN Goto(t, "clear") /\ UNCHANGED bit
         ELSE /\ bit' = [bit EXCEPT ![t] = TrailingZeros(words[word[t]])]
              /\ Goto(t, "take_bit")
    /\ UNCHANGED <<summary, words, word, tries, picked>>

(* Wrong variant: the result of the fetch_and is not looked at.            *)
TakeBitUnchecked(t) ==
    /\ pc[t] = "take_bit"
    /\ words' = [words EXCEPT ![word[t]] = @ \ {bit[t]}]
    /\ picked' = [picked EXCEPT ![t] = word[t] * WordBits + bit[t]]
    /\ Goto(t, "clear")
    /\ UNCHANGED <<summary, word, bit, tries>>

(* fetch_and of the chosen bit: a thread that finds it clear already has   *)
(* lost it to another taker and goes round again; the one that empties the *)
(* word clears the summary before it returns.                              *)
TakeBit(t) ==
    LET old == words[word[t]] IN
    /\ pc[t] = "take_bit"
    /\ words' = [words EXCEPT ![word[t]] = @ \ {bit[t]}]
    /\ \/ /\ bit[t] \notin old
          /\ Goto(t, "take_summary")
          /\ UNCHANGED picked
       \/ /\ bit[t] \in old
          /\ picked' = [picked EXCEPT ![t] = word[t] * WordBits + bit[t]]
          /\ Goto(t, IF old = {bit[t]} THEN "clear" ELSE "return")
    /\ bit' = [bit EXCEPT ![t] = 0]
    /\ UNCHANGED <<summary, word, tries>>

TakeReturn(t) ==
    /\ pc[t] = "return"
    /\ picked' = [picked EXCEPT ![t] = NoIndex]
    /\ tries' = [tries EXCEPT ![t] = 0]
    /\ word' = [word EXCEPT ![t] = 0]
    /\ Goto(t, "idle")
    /\ UNCHANGED <<summary, words, bit>>

-----------------------------------------------------------------------------
(* clear_summary_recheck, called by take_nonempty in its two places.       *)

AfterClear(t) == IF picked[t] = NoIndex THEN "take_summary" ELSE "return"

ClearSummary(t) ==
    /\ pc[t] = "clear"
    /\ summary' = summary \ {word[t]}
    /\ Goto(t, "recheck")
    /\ UNCHANGED <<words, word, bit, tries, picked>>

(* Wrong variant: the word is not read again after the summary is cleared. *)
RecheckSkipped(t) ==
    /\ pc[t] = "recheck"
    /\ Goto(t, AfterClear(t))
    /\ UNCHANGED <<summary, words, word, bit, tries, picked>>

Recheck(t) ==
    /\ pc[t] = "recheck"
    /\ Goto(t, IF words[word[t]] # {} THEN "reset" ELSE AfterClear(t))
    /\ UNCHANGED <<summary, words, word, bit, tries, picked>>

ResetSummary(t) ==
    /\ pc[t] = "reset"
    /\ summary' = summary \cup {word[t]}
    /\ Goto(t, AfterClear(t))
    /\ UNCHANGED <<words, word, bit, tries, picked>>

-----------------------------------------------------------------------------
Step(t) == \/ PublishSummary(t)
           \/ TakeSummary(t) \/ TakeWord(t) \/ TakeBit(t) \/ TakeReturn(t)
           \/ ClearSummary(t) \/ Recheck(t) \/ ResetSummary(t)

Call(t) == Take(t) \/ \E i \in Index : Publish(t, i) \/ Forget(t, i)

Next == \E t \in Threads : Call(t) \/ Step(t)

Spec == Init /\ [][Next]_vars

(* A thread inside an operation runs on: nothing in the hint blocks.       *)
FairSpec == Spec /\ \A t \in Threads : WF_vars(Step(t))

-----------------------------------------------------------------------------
(* A thread that is about to set, or to decide again on, the summary bit   *)
(* of word w.                                                              *)
Repairing(t, w) ==
    pc[t] \in {"pub_summary", "recheck", "reset"} /\ word[t] = w

(* No published index is lost from sight: a word with a bit set has its    *)
(* summary bit set, except while some thread is between its access of the  *)
(* word and its access of the summary and will still repair the bit.  The  *)
(* order of the two accesses in publish and the recheck of                 *)
(* clear_summary_recheck are there for this.                               *)
NonemptyWordIsVisible ==
    \A w \in Word : words[w] # {} =>
        w \in summary \/ \E t \in Threads : Repairing(t, w)

(* The index a take returns was set when it was removed, and is handed to  *)
(* one taker: the hint implements a set of indices.                        *)
Abstract == INSTANCE FreeSlotSet
    WITH Indices <- Index,
         avail <- {i \in Index : i % WordBits \in words[i \div WordBits]},
         hand <- picked

ImplementsSet == Abstract!Spec

(* take_nonempty ends: a round that loses its bit or finds an empty word   *)
(* uses up one of its attempts, whatever the other threads do.             *)
TakeEnds == \A t \in Threads : pc[t] = "take_summary" ~> pc[t] = "idle"
=============================================================================
