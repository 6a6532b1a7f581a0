---------------------------- MODULE SafeDownload ----------------------------
(***************************************************************************)
(* utils/url-guard.ts and utils/safe-download.ts: an image is fetched from *)
(* a URL of the caller, through redirects, each of them vetted and pinned  *)
(* to the addresses that were vetted; the URL of a creative or of a video  *)
(* is only vetted.  A name may resolve to other addresses at each lookup.  *)
(***************************************************************************)
EXTENDS Naturals, SequencesExt

CONSTANTS
  HostNames, IpAddresses,
  Internal,       \* the addresses that are not public
  MaxRedirects, MaxBytes

VARIABLE fetch

(* An address of 4 bytes is its first two, as one number; the text of one  *)
(* of 16 bytes begins with the digits of its first group, none for "::",   *)
(* and may stand for one of 4 bytes.                                       *)
V4(a, b) == [family |-> 4, net |-> 256 * a + b]
V6(digits) == [family |-> 6, digits |-> digits, is |-> "plain"]
Loopback == [family |-> 6, digits |-> <<>>, is |-> "::1 or ::"]
Mapped(v4) == [family |-> 6, digits |-> <<>>, is |-> "mapped", v4 |-> v4]

PrivateV4Ranges ==
  {<<V4(10, 0), V4(10, 255)>>, <<V4(172, 16), V4(172, 31)>>, <<V4(192, 168), V4(192, 168)>>,
   <<V4(127, 0), V4(127, 255)>>, <<V4(169, 254), V4(169, 254)>>, <<V4(0, 0), V4(0, 255)>>,
   <<V4(100, 64), V4(100, 127)>>, <<V4(224, 0), V4(239, 255)>>, <<V4(240, 0), V4(255, 255)>>}

IsPrivateV4(a) ==
  a.family = 4 /\ \E r \in PrivateV4Ranges : r[1].net <= a.net /\ a.net <= r[2].net

PrivatePrefixes == {<<"f", "e", d>> : d \in {"8", "9", "a", "b"}} \cup {<<"f", "c">>, <<"f", "d">>}

IsPrivateV6(a) ==
  /\ a.family = 6
  /\ \/ a.is = "::1 or ::"
     \/ \E p \in PrivatePrefixes : IsPrefix(p, a.digits)
     \/ a.is = "mapped" /\ IsPrivateV4(a.v4)

UnsafeIp(a) == IsPrivateV4(a) \/ IsPrivateV6(a)

\* What is internal is what the ranges cover; the model-checked addresses lie at their ends.
ASSUME DownloadAssumption ==
  /\ MaxRedirects \in Nat /\ MaxBytes \in Nat
  /\ HostNames # {}
  /\ \A a \in Internal : UnsafeIp(a)

\* A URL that parses: its protocol, and an address or a name for its host.
Urls == [https : BOOLEAN, host : IpAddresses \cup HostNames]

\* What a lookup may answer: for an address itself; for a name whatever the DNS says now,
\* nothing standing for an error too.
Lookups(host) ==
  IF host \in HostNames THEN {{}} \cup {{a, b} : a, b \in IpAddresses} ELSE {{host}}

\* resolveSafePublicUrl, given the answer of the lookup.
Vetted(url, answer) == url.https /\ answer # {} /\ \A a \in answer : ~ UnsafeIp(a)

\* The connection as a bug would have it: the name is looked up once more.
MutConnectable(f) == UNION Lookups(f.url.host)

\* buildPinnedLookup: a connection goes to an address that was vetted for its host.
Connectable(f) == f.vetted

NoUrl == [https |-> FALSE, host |-> CHOOSE h \in HostNames : TRUE]

DownloadInit ==
  fetch = [pc |-> "idle", kind |-> "download", url |-> NoUrl, vetted |-> {}, redirects |-> 0,
           reached |-> <<>>, held |-> 0, ok |-> FALSE]

FetchOver(ok) == [fetch EXCEPT !.pc = "over", !.ok = ok]

\* downloadSafePublicImage, or assertSafePublicUrl ("vet"), of a URL; one that does not parse
\* ends it.
AskDownload(kind, url) ==
  /\ fetch.pc = "idle"
  /\ fetch' = [fetch EXCEPT !.pc = "resolving", !.kind = kind, !.url = url]

\* The lookup answers, and the URL passes or is refused.
ResolveHost ==
  /\ fetch.pc = "resolving"
  /\ \E answer \in Lookups(fetch.url.host) :
       fetch' = IF ~ Vetted(fetch.url, answer) THEN FetchOver(FALSE)
                ELSE IF fetch.kind = "vet" THEN FetchOver(TRUE)
                ELSE [fetch EXCEPT !.pc = "connecting", !.vetted = answer]

\* requestImage connects, or fails or times out; net.connect may try every address it has.
Connect ==
  /\ fetch.pc = "connecting"
  /\ \/ \E a \in Connectable(fetch) :
          fetch' = [fetch EXCEPT !.pc = "answering", !.reached = Append(@, a)]
     \/ fetch' = FetchOver(FALSE)

\* The head of the response: a redirect is the next URL to vet, as long as some are left.
Redirected(url) ==
  /\ fetch.pc = "answering"
  /\ fetch' = IF fetch.redirects = MaxRedirects THEN FetchOver(FALSE)
              ELSE [fetch EXCEPT !.pc = "resolving", !.url = url, !.redirects = @ + 1]

\* A status, a content type, a length or a Location that is refused; or the idle timeout.
Rejected == fetch.pc \in {"answering", "receiving"} /\ fetch' = FetchOver(FALSE)

\* An image, of no length or of one that is small enough.
Accepted == fetch.pc = "answering" /\ fetch' = [fetch EXCEPT !.pc = "receiving"]

\* What is held once a chunk came: one that is too much is not kept.
Held(n) == IF fetch.held + n > MaxBytes THEN fetch.held ELSE fetch.held + n

Chunk(n) ==
  /\ fetch.pc = "receiving"
  /\ fetch' = [fetch EXCEPT !.pc = IF fetch.held + n > MaxBytes THEN "over" ELSE @,
                            !.held = Held(n)]

Complete == fetch.pc = "receiving" /\ fetch' = FetchOver(TRUE)

DownloadTypeOK ==
  /\ fetch.pc \in {"idle", "resolving", "connecting", "answering", "receiving", "over"}
  /\ fetch.kind \in {"download", "vet"} /\ fetch.url \in Urls /\ fetch.ok \in BOOLEAN
  /\ fetch.vetted \subseteq IpAddresses /\ fetch.reached \in Seq(IpAddresses)
  /\ fetch.redirects \in 0 .. MaxRedirects /\ fetch.held \in Nat

\* url-guard.ts:102-115, safe-download.ts:206-229: whatever the DNS answers from one lookup to
\* the next and wherever a server redirects, a download connects to public addresses only, no
\* more often than its redirects allow, and never holds more than its limit.
FetchesVetted ==
  /\ \A i \in DOMAIN fetch.reached : fetch.reached[i] \notin Internal
  /\ Len(fetch.reached) <= MaxRedirects + 1
  /\ fetch.held <= MaxBytes
=============================================================================
