------------------------------- MODULE Domains -------------------------------
(***************************************************************************)
(* Config::normalize (src/config.rs): the owner and the servers are        *)
(* checked, and the suffixes are parsed, sorted, and coalesced in one pass *)
(* that drops a suffix covered by one kept before.  A string is the        *)
(* sequence of its bytes, as the code compares suffixes byte by byte; what *)
(* it means, suffixes of labels, is the reference the properties use.  Of  *)
(* an owner, its length and the set of its bytes are enough.               *)
(***************************************************************************)
EXTENDS Naturals, SequencesExt

CONSTANTS
  Inputs,        \* records of owner, servers and domains, the latter strings
  IsDnsName(_)   \* the strings that parse_dns_name of the addr crate accepts

Star  == 42
Dot   == 46
Upper == 65 .. 90
Ascii == 0 .. 127
Byte  == 0 .. 255

ASSUME DomainsAssumption ==
  \A in \in Inputs :
    /\ in.owner \in [len : Nat, bytes : SUBSET Byte]
    /\ in.owner.len = 0 <=> in.owner.bytes = {}
    /\ in.servers \in Nat
    /\ in.domains \in Seq(Seq(Byte))

VARIABLES
  input,     \* the configuration; of its servers, how many there are
  pc,        \* the next check, or how it ended: "done", "error"
  pending,   \* sorted suffixes the loop has still to look at
  kept       \* coalesced

vars == <<input, pc, pending, kept>>

-----------------------------------------------------------------------------
EndsWith(s, t) == IsSuffix(t, s)

(* strip_prefix("*.") *)
IsWildcard(s)  == IsPrefix(<<Star, Dot>>, s)
Stripped(s)    == IF IsWildcard(s) THEN SubSeq(s, 3, Len(s)) ELSE s

ToLower(s) == [i \in DOMAIN s |-> IF s[i] \in Upper THEN s[i] + 32 ELSE s[i]]

(* Slip: empty labels inside a name are not noticed. *)
ValidDomainButInside(d) ==
  /\ d # <<>> /\ d[1] # Dot /\ d[Len(d)] # Dot
  /\ ToSet(d) \subseteq Ascii /\ ~Contains(d, Star) /\ IsDnsName(d)

(* validate_domain *)
ValidDomain(d) ==
  /\ d # <<>>
  /\ d[1] # Dot /\ d[Len(d)] # Dot
  /\ \A i \in 1 .. Len(d) - 1 : ~(d[i] = Dot /\ d[i + 1] = Dot)
  /\ ToSet(d) \subseteq Ascii
  /\ ~Contains(d, Star)
  /\ IsDnsName(d)

(* parse_domain_suffix of a string that is valid *)
ParseDomainSuffix(s) == [domain |-> ToLower(Stripped(s)), wildcard |-> IsWildcard(s)]

LabelCount(d) == Cardinality({i \in DOMAIN d : d[i] = Dot}) + 1

(* str::cmp, lexicographic order of the bytes *)
Less(s, t) ==
  \/ IsStrictPrefix(s, t)
  \/ \E i \in DOMAIN s \cap DOMAIN t :
       s[i] < t[i] /\ \A j \in 1 .. i - 1 : s[j] = t[j]

(* The order of the sort: label count, then name, then wildcard. *)
Before(a, b) ==
  LET m == LabelCount(a.domain)
      n == LabelCount(b.domain)
  IN \/ m < n
     \/ m = n /\ Less(a.domain, b.domain)
     \/ a.domain = b.domain /\ ~a.wildcard /\ b.wildcard

NotAfter(a, b) == ~Before(b, a)

(* Slip: a name that ends in another one is taken for its child. *)
IsChildSuffixOfBytes(candidate, parent) ==
  Len(candidate) > Len(parent) /\ EndsWith(candidate, parent)

IsChildSuffix(candidate, parent) ==
  /\ Len(candidate) > Len(parent)
  /\ EndsWith(candidate, parent)
  /\ candidate[Len(candidate) - Len(parent)] = Dot

(* validate_owner: not empty, at most 64 bytes, is_ascii, and of each byte  *)
(* is_ascii_alphanumeric or one of '-', '.' and '_'.                        *)
ValidOwner(o) ==
  /\ o.len # 0 /\ o.len <= 64
  /\ o.bytes \subseteq Ascii
  /\ o.bytes \subseteq (48 .. 57) \cup (65 .. 90) \cup (97 .. 122) \cup {45, 46, 95}

-----------------------------------------------------------------------------
Init ==
  /\ input \in Inputs
  /\ pc = "owner"
  /\ pending = <<>>
  /\ kept = <<>>

(* validate_owner, and that servers is not empty. *)
CheckOwner ==
  /\ pc = "owner"
  /\ pc' = IF ValidOwner(input.owner) THEN "servers" ELSE "error"
  /\ UNCHANGED <<input, pending, kept>>

CheckServers ==
  /\ pc = "servers"
  /\ pc' = IF input.servers = 0 THEN "error" ELSE "parse"
  /\ UNCHANGED <<input, pending, kept>>

(* The first invalid string ends normalize_domains with an error. *)
ParseInvalid ==
  /\ pc = "parse"
  /\ \E i \in DOMAIN input.domains : ~ValidDomain(Stripped(input.domains[i]))
  /\ pc' = "error"
  /\ UNCHANGED <<input, pending, kept>>

(* All are parsed, and sorted by sort_unstable_by: any rearrangement in     *)
(* which none comes before one that it stands behind.                       *)
Parse ==
  /\ pc = "parse"
  /\ \A i \in DOMAIN input.domains : ValidDomain(Stripped(input.domains[i]))
  /\ \E p \in Bijection(DOMAIN input.domains, DOMAIN input.domains) :
       /\ pending' = [i \in DOMAIN input.domains |-> ParseDomainSuffix(input.domains[p[i]])]
       /\ IsSorted(pending', NotAfter)
  /\ pc' = "coalesce"
  /\ UNCHANGED <<input, kept>>

(* Slip: only the suffix kept last is looked at. *)
CoalesceWithLast ==
  /\ pc = "coalesce" /\ pending # <<>>
  /\ LET suffix == Head(pending)
         covered == /\ kept # <<>>
                    /\ \/ suffix.domain = Last(kept).domain
                       \/ IsChildSuffix(suffix.domain, Last(kept).domain)
     IN kept' = IF covered THEN kept ELSE Append(kept, suffix)
  /\ pending' = Tail(pending)
  /\ UNCHANGED <<input, pc>>

(* One turn of the loop. *)
Coalesce ==
  /\ pc = "coalesce" /\ pending # <<>>
  /\ LET suffix == Head(pending)
         covered == \E i \in DOMAIN kept :
                      \/ suffix.domain = kept[i].domain
                      \/ IsChildSuffix(suffix.domain, kept[i].domain)
     IN kept' = IF covered THEN kept ELSE Append(kept, suffix)
  /\ pending' = Tail(pending)
  /\ UNCHANGED <<input, pc>>

Finish ==
  /\ pc = "coalesce" /\ pending = <<>>
  /\ pc' = "done"
  /\ UNCHANGED <<input, pending, kept>>

Next == CheckOwner \/ CheckServers \/ ParseInvalid \/ Parse \/ Coalesce \/ Finish

Spec == Init /\ [][Next]_vars

-----------------------------------------------------------------------------
(* A name as the sequence of its labels: a dot begins a new one, any other  *)
(* byte belongs to the last one.                                            *)
Splitting(d) ==
  LET labels[n \in 0 .. Len(d)] ==
        IF n = 0 THEN << <<>> >>
        ELSE IF d[n] = Dot THEN Append(labels[n - 1], <<>>)
        ELSE Append(Front(labels[n - 1]), Append(Last(labels[n - 1]), d[n]))
  IN labels

Labels(d) == Splitting(d)[Len(d)]

(* A string that names a suffix: a DNS name, of labels that are not empty   *)
(* and of ASCII, maybe after "*.".                                          *)
WellFormed(s) ==
  LET ls == Labels(s)
      rest == IF Len(ls) > 1 /\ ls[1] = <<Star>> THEN Tail(ls) ELSE ls
  IN /\ \A i \in DOMAIN rest : rest[i] # <<>> /\ ToSet(rest[i]) \subseteq Ascii \ {Star}
     /\ IsDnsName(Stripped(s))

Covers(d, e) == IsSuffix(Labels(d), Labels(e))

Parsed == {ParseDomainSuffix(input.domains[i]) : i \in DOMAIN input.domains}

(* The suffixes no other one of the configuration covers. *)
Outermost ==
  {s \in Parsed : \A t \in Parsed : Covers(t.domain, s.domain) =>
                                      /\ t.domain = s.domain
                                      /\ s.wildcard => t.wildcard}

(* "Must be 1 to 64 ASCII bytes and contain only letters, digits, '.', '_', *)
(* and '-'" (config.rs:12).                                                 *)
Documented(o) ==
  LET letters == {b \in Ascii : \E c \in 65 .. 90 : b \in {c, c + 32}}
  IN o.len >= 1 /\ o.len <= 64 /\ o.bytes \ (letters \cup (48 .. 57)) \subseteq {45, 46, 95}

(* "Returns Error::InvalidConfig ... if the configuration is malformed"     *)
(* (src/lib.rs:22), and only then: the byte tests of validate_owner and     *)
(* validate_domain reject exactly the owners that are not as documented and *)
(* the strings that are no names.                                           *)
RejectsMalformed ==
  LET wellFormed == /\ Documented(input.owner) /\ input.servers # 0
                    /\ \A i \in DOMAIN input.domains : WellFormed(input.domains[i])
  IN /\ pc = "error" => ~wellFormed
     /\ pc \in {"coalesce", "done"} => wellFormed

(* "repeated suffixes are deduplicated, child suffixes covered by a parent  *)
(* are left out" (README.md:86): the result is the outermost suffixes in    *)
(* lower case, each once and in the order of the sort, so that it does not  *)
(* depend on the order or spelling of the input; and each domain of the     *)
(* configuration is covered by one that is kept.                            *)
OutermostKept ==
  pc = "done" =>
    /\ ToSet(kept) = Outermost
    /\ IsSorted(kept, Before)
    /\ \A s \in ToSet(kept) : ToSet(s.domain) \cap Upper = {}
    /\ \A s \in Parsed : \E t \in ToSet(kept) : Covers(t.domain, s.domain)
=============================================================================
