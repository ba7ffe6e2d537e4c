-------------------------------- MODULE Texts --------------------------------
(***************************************************************************)
(* The helpers for strings (hbm/string/replace.cpp, split.cpp, trim.cpp),  *)
(* and numbers as text.  A string is a sequence of symbols, "SP" a blank.  *)
(***************************************************************************)
EXTENDS Integers, Sequences, FiniteSets, SequencesExt

(* The first position from p on at which the symbol is in S, or the one    *)
(* behind the end.                                                         *)
FirstIn(text, p, S) ==
  CHOOSE q \in p .. Len(text) + 1 :
    /\ q <= Len(text) => text[q] \in S
    /\ \A i \in p .. q - 1 : text[i] \notin S

(* The positions from p on at which search begins.                         *)
Occurrences(text, search, p) ==
  {q \in p .. Len(text) - Len(search) + 1 : SubSeq(text, q, q + Len(search) - 1) = search}

First(positions) == CHOOSE q \in positions : \A r \in positions : q <= r

(* replace of a character.                                                 *)
ReplaceChar(text, search, substitute) ==
  [i \in DOMAIN text |-> IF text[i] = search THEN substitute ELSE text[i]]

(* replace: it goes on behind as many symbols as were looked for, in the   *)
(* text that has the substitute in it already.  With a longer substitute   *)
(* that holds what is looked for it need not end.                          *)
RECURSIVE ReplaceFrom(_, _, _, _)
ReplaceFrom(text, search, substitute, p) ==
  LET found == Occurrences(text, search, p)
      q == First(found)
      next == SubSeq(text, 1, q - 1) \o substitute \o SubSeq(text, q + Len(search), Len(text))
  IN  IF found = {} THEN text ELSE ReplaceFrom(next, search, substitute, q + Len(search))

ReplaceText(text, search, substitute) == ReplaceFrom(text, search, substitute, 1)

RECURSIVE SplitFrom(_, _, _)
SplitFrom(text, separator, p) ==
  LET found == Occurrences(text, separator, p)
      q == First(found)
  IN  IF found = {} THEN <<SubSeq(text, p, Len(text))>>
      ELSE <<SubSeq(text, p, q - 1)>> \o SplitFrom(text, separator, q + Len(separator))

Split(text, separator) ==
  IF separator = <<>> THEN <<text>> ELSE SplitFrom(text, separator, 1)

(* trim_left_if and trim_left: of a text of nothing else all is removed.   *)
TrimLeftIf(text, ch) ==
  LET others == {i \in DOMAIN text : text[i] # ch}
  IN  IF others = {} THEN <<>> ELSE SubSeq(text, First(others), Len(text))

(* trim_right_if and trim_right: a text of nothing else stays as it is.    *)
TrimRightIf(text, ch) ==
  LET others == {i \in DOMAIN text : text[i] # ch}
      last == CHOOSE i \in others : \A j \in others : j <= i
  IN  IF others = {} THEN text ELSE SubSeq(text, 1, last)

Trim(text) == TrimRightIf(TrimLeftIf(text, "SP"), "SP")

TrimCopy(text) ==
  LET others == {i \in DOMAIN text : text[i] # "SP"}
      start == First(others)
      end == CHOOSE i \in others : \A j \in others : j <= i
  IN  IF others = {} THEN <<>> ELSE SubSeq(text, start, end)
-----------------------------------------------------------------------------
(* Numbers as text.                                                        *)

Digits == <<"0", "1", "2", "3", "4", "5", "6", "7", "8", "9">>
DigitSymbols == {Digits[i] : i \in 1 .. 10}
DigitValue(c) == (CHOOSE i \in 1 .. 10 : Digits[i] = c) - 1

RECURSIVE UIntText(_)
UIntText(n) == (IF n < 10 THEN <<>> ELSE UIntText(n \div 10)) \o <<Digits[(n % 10) + 1]>>

(* The texts with what stands between them.                                *)
Joined(texts, between) ==
  FlattenSeq([i \in DOMAIN texts |-> (IF i > 1 THEN between ELSE <<>>) \o texts[i]])
-----------------------------------------------------------------------------
(* Properties.                                                             *)

(* What split took apart can be put together again, and by another         *)
(* separator of the same length that is what replace does; trim leaves     *)
(* what trim_copy returns, although left and right treat a blank text      *)
(* differently.                                                            *)
TextsAgree(text, search, substitute) ==
  /\ Joined(Split(text, search), search) = text
  /\ search # <<>> =>
       \A i \in DOMAIN Split(text, search) : Occurrences(Split(text, search)[i], search, 1) = {}
  /\ search # <<>> /\ Len(search) = Len(substitute) =>
       ReplaceText(text, search, substitute) = Joined(Split(text, search), substitute)
  /\ Len(search) = 1 /\ Len(substitute) = 1 =>
       ReplaceChar(text, search[1], substitute[1]) = ReplaceText(text, search, substitute)
  /\ Trim(text) = TrimCopy(text)
=============================================================================
