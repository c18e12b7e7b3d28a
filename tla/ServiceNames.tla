---------------------------- MODULE ServiceNames ----------------------------
(***************************************************************************)
(* Which family of the catalog a name that a seller advertises denotes        *)
(* (sources/antseed.py, _canon_models, _match_curated, _bind).  A name is     *)
(* its canonical form, a sequence of segments; the first may be a token of a  *)
(* vendor, the last a marker of a serving mode.  An alias of the operator     *)
(* comes before all of it.                                                 *)
(***************************************************************************)
EXTENDS Integers, Sequences, FiniteSets

CONSTANTS VendorOfToken, \* _VENDOR_PREFIXES
          Versions,      \* segments that are only a version
          Markers,       \* _VARIANT_SUFFIXES
          Catalogs,      \* sets of families
          Services,      \* names that sellers advertise
          Aliased,       \* of them, the names an operator may alias
          Nothing

VARIABLES families, \* the catalog's names
          vendor,   \* the operator's annotations; "typo" names no vendor
          alias,    \* service_aliases: one name and its family
          service,  \* a name that is advertised
          bound     \* family and mode it resolves to

vars == <<families, vendor, alias, service, bound>>

Vendors == {VendorOfToken[t] : t \in DOMAIN VendorOfToken}
NotBound == [family |-> Nothing, mode |-> Nothing]

Init == /\ families \in Catalogs
        /\ vendor \in [families -> Vendors \cup {Nothing, "typo"}]
        /\ alias \in {<<Nothing, Nothing>>} \cup (Aliased \X families)
        /\ service = Nothing /\ bound = NotBound

(***************************************************************************)
(* Names                                                                   *)
(***************************************************************************)
\* _split_vendor: the vendor a name claims, and what is left of it.
Claims(name)  == IF Len(name) > 1 /\ Head(name) \in DOMAIN VendorOfToken
                 THEN VendorOfToken[Head(name)] ELSE Nothing
Residue(name) == IF Claims(name) = Nothing THEN name ELSE Tail(name)

\* The annotation, if it names a vendor at all; else the family's own name.
FamilyVendor(f) == IF vendor[f] = Nothing THEN Claims(f)
                   ELSE IF vendor[f] \in Vendors THEN vendor[f] ELSE Nothing

(***************************************************************************)
(* The index of the catalog: by whole names, and by what is left of names    *)
(* with a vendor, unless two families claim it or it is only a version       *)
(***************************************************************************)
Exact(name) == IF name \in families THEN name ELSE Nothing

Claimants(rest) == {f \in families : Claims(f) # Nothing /\ Residue(f) = rest
                                     /\ Head(rest) \notin Versions}

Bare(rest) == IF Cardinality(Claimants(rest)) = 1
              THEN CHOOSE f \in Claimants(rest) : TRUE ELSE Nothing

\* Mutant of Confirmed: a family of an unknown vendor does not contradict.
Uncontradicted(f, claimed) == FamilyVendor(f) \in {claimed, Nothing}

\* A vendor that is claimed must be known to be the family's.
Confirmed(f, claimed) == FamilyVendor(f) = claimed

MatchCurated(name) ==
    LET claimed == Claims(name)
        rest    == Residue(name)
    IN  IF name = alias[1] THEN alias[2]
        ELSE IF Exact(name) # Nothing THEN Exact(name)
        ELSE IF claimed = Nothing THEN Bare(name)
        ELSE IF Exact(rest) # Nothing
             THEN IF Confirmed(Exact(rest), claimed) THEN Exact(rest) ELSE Nothing
        ELSE IF Bare(rest) # Nothing /\ Claims(Bare(rest)) = claimed
             THEN Bare(rest) ELSE Nothing

\* _split_variant: at most one marker is taken off.
Mode(name) == IF Len(name) > 1 /\ name[Len(name)] \in Markers THEN name[Len(name)] ELSE Nothing
Base(name) == IF Mode(name) = Nothing THEN name ELSE SubSeq(name, 1, Len(name) - 1)

\* A mode has a family of its own, beside that of a curated base.
Resolve(name) ==
    IF MatchCurated(name) # Nothing THEN [family |-> MatchCurated(name), mode |-> Nothing]
    ELSE IF Mode(name) # Nothing /\ MatchCurated(Base(name)) # Nothing
         THEN [family |-> MatchCurated(Base(name)), mode |-> Mode(name)]
    ELSE NotBound

Advertise == /\ service = Nothing
             /\ service' \in Services /\ bound' = Resolve(service')
             /\ UNCHANGED <<families, vendor, alias>>

Next == Advertise
Spec == Init /\ [][Next]_vars

(***************************************************************************)
(* What must hold                                                          *)
(***************************************************************************)
\* What is left when every leading token of a vendor is taken off.
Words(name) == LET start == CHOOSE i \in DOMAIN name :
                     /\ \A j \in 1..(i - 1) : name[j] \in DOMAIN VendorOfToken
                     /\ i = Len(name) \/ name[i] \notin DOMAIN VendorOfToken
               IN  SubSeq(name, start, Len(name))

Meant == IF bound.mode = Nothing THEN service ELSE Base(service)

\* A name is never routed to another model than it names: but for an alias and
\* for the family of that very name, the words are the family's, a vendor that
\* is claimed is the family's, and a name without a vendor leaves no choice
\* between the families of two vendors.
NeverAnotherModel ==
    bound # NotBound /\ Meant # alias[1] /\ bound.family # Meant =>
        /\ Words(bound.family) = Words(Meant)
        /\ Claims(Meant) # Nothing => FamilyVendor(bound.family) = Claims(Meant)
                                      \/ Claims(bound.family) = Claims(Meant)
        /\ Claims(Meant) = Nothing => Claimants(Meant) = {bound.family}
=============================================================================
