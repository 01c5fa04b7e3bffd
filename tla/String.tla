------------------------------- MODULE String -------------------------------
(***************************************************************************)
(* The string of include/str.h: up to MIN_CAPACITY characters in the       *)
(* object, more of them in a heap block, and a null character behind them  *)
(* that every call but push_back writes.                                   *)
(*                                                                         *)
(* push_back relies on a null character that is there already.  It is not  *)
(* after clear(), a resize() to fewer characters, a move or an assignment  *)
(* of a short string: then c_str() goes on with what the buffer held, and  *)
(* so it does after operator>>, which clears and pushes.  And push_back    *)
(* does not grow a heap block of capacity 0, which a move leaves.  Null    *)
(* characters inside the text, as resize() puts there by default, end it   *)
(* for strcpy.  Spec is every program; CarefulSpec one that pushes only    *)
(* where it may (Pushable), and no null characters.                        *)
(*                                                                         *)
(* Outside of the buffer is memory of others: a write there changes        *)
(* nothing of the string, and what is read there is unknown.               *)
(***************************************************************************)
EXTENDS Integers, Sequences, FiniteSets

CONSTANTS Chars,
          NUL,
          MIN_CAPACITY,
          MaxLen,        \* bound: characters
          MaxText        \* bound: characters of an argument

VARIABLES s,     \* is_heap_, the characters of data(), and size_
          call   \* history: the last call

vars == <<s, call>>
Texts == UNION { [1 .. n -> Chars] : n \in 0 .. MaxText }
Bytes == Chars \cup {NUL}

Zeroed(n) == [i \in 0 .. n |-> NUL]
capacity(t) == Cardinality(DOMAIN t.buf) - 1

\* The characters up to the first null.  If there is none in the buffer, the text goes on
\* behind it with something unknown, for which NUL stands: it is no character of a text.
strlen(t) == IF \E n \in DOMAIN t.buf : t.buf[n] = NUL
             THEN CHOOSE n \in DOMAIN t.buf : t.buf[n] = NUL /\ \A i \in 0 .. n - 1 : t.buf[i] # NUL
             ELSE capacity(t) + 2
c_str(t) == [i \in 1 .. strlen(t) |-> IF i - 1 \in DOMAIN t.buf THEN t.buf[i - 1] ELSE NUL]

\* strcpy(b + at, text)
strcpy(b, at, text) ==
    [i \in DOMAIN b |-> IF i \in at .. at + Len(text) - 1 THEN text[i - at + 1]
                        ELSE IF i = at + Len(text) THEN NUL ELSE b[i]]

set_heap_data(text, n) == [heap |-> TRUE, buf |-> strcpy(Zeroed(n), 0, text), size |-> n]

\* What set_stack_data leaves in the object t: behind the text is what was there, which is
\* the bytes of a pointer and a number if t had a heap block.
set_stack_data(t, text, n) ==
    { [heap |-> FALSE, buf |-> strcpy(b, 0, text), size |-> n] :
         b \in IF t.heap THEN [0 .. MIN_CAPACITY -> Bytes] ELSE {t.buf} }

Empty == [heap |-> FALSE, buf |-> Zeroed(MIN_CAPACITY), size |-> 0]

\* String(text) and a copy of t, as new objects.
Constructed(text) == IF Len(text) <= MIN_CAPACITY
                     THEN CHOOSE t \in set_stack_data(Empty, text, Len(text)) : TRUE
                     ELSE set_heap_data(text, Len(text))
Copied(t) == IF t.heap THEN set_heap_data(c_str(t), t.size)
             ELSE CHOOSE u \in set_stack_data(Empty, c_str(t), t.size) : TRUE

\* operator=(String&&): what t may become when u is moved into it.
MovedInto(t, u) == IF u.heap THEN {u} ELSE set_stack_data(t, c_str(u), u.size)

\* reserve(n)
reserved(t, n) == IF n <= capacity(t) THEN t
                  ELSE [t EXCEPT !.heap = TRUE, !.buf = strcpy(Zeroed(n), 0, c_str(t))]

\* data()[i] = c
put(t, i, c) == [j \in DOMAIN t.buf |-> IF j = i THEN c ELSE t.buf[j]]

push_back(t, c) == LET r == IF t.size = capacity(t) THEN reserved(t, t.size * 2) ELSE t
                   IN [r EXCEPT !.buf = put(r, t.size, c), !.size = @ + 1]

\* The string after each of the characters was pushed.
pushes(t, text) == LET after[k \in 0 .. Len(text)] ==
                         IF k = 0 THEN t ELSE push_back(after[k - 1], text[k])
                   IN after

\* There is a null character behind the one that push_back writes.
Pushable(t) == IF t.size = capacity(t) THEN t.size > 0 ELSE t.buf[t.size + 1] = NUL

append(t, text) == LET r == reserved(t, t.size + Len(text))
                   IN [r EXCEPT !.buf = strcpy(@, t.size, text), !.size = @ + Len(text)]

clear(t) == [t EXCEPT !.buf[0] = NUL, !.size = 0]

Init == s = Empty /\ call = <<"new">>
-----------------------------------------------------------------------------
Fits(n) == s.size + n <= MaxLen

\* push_back and operator+=(char).
PushBack(c) == Fits(1) /\ s' = push_back(s, c) /\ call' = <<"push_back", c>>

\* Mutant of PopBack: the character stays.
PopBackKeep == /\ s.size > 0
               /\ s' = [s EXCEPT !.size = @ - 1] /\ call' = <<"pop_back">>

\* pop_back of an empty string throws.
PopBack == /\ s.size > 0
           /\ s' = [s EXCEPT !.buf = put(s, s.size - 1, NUL), !.size = @ - 1]
           /\ call' = <<"pop_back">>

\* append and operator+= of another string.
AppendText(text) == Fits(Len(text)) /\ s' = append(s, text) /\ call' = <<"append", text>>

\* s = s + text
PlusText(text) == /\ Fits(Len(text))
                  /\ s' \in MovedInto(s, append(Copied(s), text))
                  /\ call' = <<"append", text>>

\* s = s + c
PlusChar(c) == /\ Fits(1)
               /\ s' \in MovedInto(s, push_back(Copied(s), c))
               /\ call' = <<"append", <<c>>>>

Resize(n, c) == LET r == reserved(s, n) IN
                /\ s' = [r EXCEPT !.size = n,
                                  !.buf = [i \in DOMAIN r.buf |-> IF i \in s.size .. n - 1 THEN c
                                                                  ELSE IF i = n THEN NUL ELSE r.buf[i]]]
                /\ call' = <<"resize", n, c>>

Write(i, c) == i < s.size /\ s' = [s EXCEPT !.buf = put(s, i, c)] /\ call' = <<"write", i, c>>

Reserve(n) == s' = reserved(s, n) /\ call' = <<"keep">>
Clear == s' = clear(s) /\ call' = <<"clear">>

\* s = String(text)
Assign(text) == s' \in MovedInto(s, Constructed(text)) /\ call' = <<"assign", text>>

\* operator>>: the characters up to a space are pushed on the cleared string.
Read(text) == s' = pushes(clear(s), text)[Len(text)] /\ call' = <<"assign", text>>

\* String c(s); s = c
CopyBack == /\ s' = IF s.heap THEN Copied(s) ELSE [s EXCEPT !.buf = strcpy(@, 0, c_str(s))]
            /\ call' = <<"keep">>

\* String c(std::move(s)), after which s may still be used.
MoveOut == /\ s' \in IF s.heap THEN {set_heap_data(<< >>, 0)} ELSE set_stack_data(s, << >>, 0)
           /\ call' = <<"move">>

Others == \/ PopBack \/ Clear \/ CopyBack \/ MoveOut
          \/ \E text \in Texts : AppendText(text) \/ PlusText(text) \/ Assign(text)
          \/ \E n \in 0 .. MaxLen : Reserve(n)

\* Every program.
Next == \/ Others
        \/ \E c \in Bytes : \/ PushBack(c) \/ PlusChar(c)
                            \/ \E n \in 0 .. MaxLen : Resize(n, c)
                            \/ \E i \in 0 .. MaxLen - 1 : Write(i, c)
        \/ \E text \in Texts : Read(text)

\* A program that pushes where a null character is behind, and has none in the text.
CarefulNext == \/ Others
               \/ \E c \in Chars : \/ Pushable(s) /\ PushBack(c)
                                   \/ Pushable(Copied(s)) /\ PlusChar(c)
                                   \/ \E n \in 0 .. MaxLen : Resize(n, c)
                                   \/ \E i \in 0 .. MaxLen - 1 : Write(i, c)
               \/ \E text \in Texts :
                     /\ \A k \in 0 .. Len(text) - 1 : Pushable(pushes(clear(s), text)[k])
                     /\ Read(text)

Spec == Init /\ [][Next]_vars
CarefulSpec == Init /\ [][CarefulNext]_vars
-----------------------------------------------------------------------------
\* "EXPECT_STREQ(s.c_str(), ...)" and "EXPECT_EQ(s.size(), ...)" (string_test.cpp:159-181):
\* c_str() and size() tell of the same characters, those of a sequence on which the calls
\* were made, while the text goes from the object to heap blocks and back.
Items == INSTANCE AbstractSeq WITH Values <- Chars, items <- c_str(s), count <- s.size

\* "EXPECT_STREQ(s.c_str(), "Hello, world!")" after six calls of push_back
\* (string_test.cpp:163): push_back adds the character to what c_str() shows, if that was the
\* whole text before.
PushedIsSeen == [][ \A c \in Chars :
                      call' = <<"push_back", c>> /\ Len(c_str(s)) = s.size =>
                          c_str(s)' = Append(c_str(s), c) ]_vars
=============================================================================
