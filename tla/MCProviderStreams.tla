-------------------------- MODULE MCProviderStreams --------------------------
(* Two calls of two fragments, which may interleave where the wire allows   *)
(* it, one provider-run tool and two pieces of text.                        *)
EXTENDS ProviderStreams

CONSTANTS c1, c2, s1

=============================================================================
