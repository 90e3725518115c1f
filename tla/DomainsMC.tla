------------------------------ MODULE DomainsMC ------------------------------
(***************************************************************************)
(* Instances of Domains for TLC.                                           *)
(***************************************************************************)
EXTENDS Domains

(* Every string of up to four bytes alone, and all pairs of strings of up   *)
(* to two.                                                                  *)
String(n)  == BoundedSeq({Star, Dot, 65, 97}, n)
AllStrings == {<<s>> : s \in String(4)} \cup {<<s, t>> : s, t \in String(2)}

(* a, b, aa, ba, a.a, b.a, ab.a, a.b.a, b.a.a, A, *.a, *.b.a, B.a *)
Names ==
  {<<97>>, <<98>>, <<97, 97>>, <<98, 97>>, <<97, 46, 97>>, <<98, 46, 97>>,
   <<97, 98, 46, 97>>, <<97, 46, 98, 46, 97>>, <<98, 46, 97, 46, 97>>,
   <<65>>, <<42, 46, 97>>, <<42, 46, 98, 46, 97>>, <<66, 46, 97>>}

(* Up to three names in every order, with repetitions. *)
AllLists == BoundedSeq(Names, 3)

(* Bytes that are not ASCII: an accented letter in UTF-8. *)
Accented == {<< <<195, 169>> >>, << <<97>>, <<195, 169, 46, 97>> >>}

(* parse_dns_name limits the length of a label, here to two bytes. *)
ShortLabels(s) == \A i \in 1 .. Len(s) - 2 : \E j \in i .. i + 2 : s[j] = Dot

(* Owners around the limits of length and of each range of bytes; 195 is    *)
(* the first byte of an accented letter in UTF-8.                           *)
Owners ==
  {[len |-> 0, bytes |-> {}]} \cup
  [len : {1, 64, 65},
   bytes : {{b} : b \in {44, 45, 46, 47, 48, 57, 58, 64, 65, 90, 91, 95, 96, 97, 122, 123, 195}}]

owner == [len |-> 5, bytes |-> {97}]

AllInputs ==
  [owner : {owner}, servers : {1}, domains : AllStrings \cup Accented \cup AllLists] \cup
  [owner : Owners, servers : {0, 2}, domains : {<<>>, << <<97>> >>, << <<Star>> >>}]
=============================================================================
