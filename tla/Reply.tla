-------------------------------- MODULE Reply --------------------------------
(***************************************************************************)
(* Who a reply or a forward goes to (src/domain/reply.go).  An address is  *)
(* its addr-spec, lowercased, and the rest of its spelling; a header that  *)
(* does not parse yields addresses that are not valid.                     *)
(***************************************************************************)
EXTENDS Naturals, Sequences, SequencesExt

(* An address as it stands in a header: [spec, name, valid]. *)
addrSpec(a) == a.spec

Valid(list) == \A i \in DOMAIN list : list[i].valid

(* newAddrSet(excluded).take(list): the candidates not seen yet, in order. *)
take(excluded, list) ==
    LET next(out, a) ==
            IF addrSpec(a) \in excluded \cup {addrSpec(out[i]) : i \in DOMAIN out} THEN out
            ELSE Append(out, a)
    IN FoldLeft(next, <<>>, list)

(* A derivation that is refused. *)
NoMessage == [ok |-> FALSE, to |-> <<>>, cc |-> <<>>]

Targets(o) == IF o.replyTo = <<>> THEN o.from ELSE o.replyTo

(* DeriveReply: Reply-To over From, the others into Cc when all is set, nobody
   twice and never self.  Bcc is no field of an original. *)
DeriveReply(o, self, all) ==
    LET to == take({self}, Targets(o))
        others == take({self} \cup {addrSpec(to[i]) : i \in DOMAIN to}, o.to \o o.cc)
    IN IF ~Valid(Targets(o)) \/ to = <<>> \/ (all /\ ~Valid(o.to \o o.cc)) THEN NoMessage
       ELSE [ok |-> TRUE, to |-> to, cc |-> IF all THEN others ELSE <<>>]

(* DeriveForward: the caller's recipients, the original as an attachment that
   must not be too large. *)
DeriveForward(o, to) ==
    LET dest == take({}, to)
    IN IF ~Valid(to) \/ dest = <<>> \/ o.oversized THEN NoMessage
       ELSE [ok |-> TRUE, to |-> dest, cc |-> <<>>]
=============================================================================
