------------------------------ MODULE FileProxy ------------------------------
(***************************************************************************)
(* The life of a file link: signed by the Go server (internal/fileproxy),  *)
(* followed by a browser, redeemed by the Cloudflare worker                *)
(* (workers/file-proxy/src/index.ts), and what the browser's cache keeps   *)
(* of it.  Server and worker share a secret and the encoding of tokens;    *)
(* each is deployed on its own and has its own clock.                      *)
(*                                                                         *)
(* A base64 character is its value, 0..63, where 62 and 63 stand for + and *)
(* /.  Time is in ticks, Second of them make what both programs count.     *)
(***************************************************************************)
EXTENDS Integers, Sequences, FiniteSets, SequencesExt

CONSTANTS
  Key,        \* storage keys
  Json,       \* Json[k][e]: the bytes of the payload {key: k, exp: e}
  Secret,     \* values of FILE_PROXY_SECRET, each the byte an HMAC mixes in
  Browser,
  Skews,      \* ticks the worker's clock may be ahead (or, negative, behind)
  Second,     \* ticks in a second
  LinkTTL,    \* FILE_PROXY_URL_TTL_SECONDS
  MaxAge,     \* seconds of the Cache-Control header
  MaxFiles,   \* bound on the files uploaded
  MaxLinks,   \* bound on the links signed
  Horizon,    \* bound on the clock
  Nothing

Byte == 0..255

(* The seconds a link can name: those a clock shows, and the TTL.          *)
Exp == 0..(Horizon \div Second + LinkTTL)

ASSUME ProxyAssumption ==
  /\ Secret \subseteq Byte
  /\ Skews \subseteq Int
  /\ Second \in Nat \ {0}
  /\ LinkTTL \in Nat \ {0}   \* NewSigner refuses ttl <= 0
  /\ MaxAge \in Nat
  /\ Horizon \in Nat
  /\ Nothing \notin Seq(Byte)
  /\ Nothing \notin [key : Key, exp : Nat]

(* Payloads that differ have texts that differ, and none of them is empty.  *)
ASSUME JsonAssumption ==
  /\ Json \in [Key -> [Exp -> Seq(Byte) \ {<<>>}]]
  /\ \A k, l \in Key, x, y \in Exp : Json[k][x] = Json[l][y] => k = l /\ x = y

VARIABLES
  clock,     \* the server's
  skew,      \* what the worker's clock is ahead
  secretOf,  \* the secret the server and the worker were deployed with
  bucket,    \* keys of the objects in R2
  links,     \* links that were handed out
  wpc,       \* where the worker is with the request of each browser
  request,   \* that request
  payload,   \* fetch: payload
  answer,    \* what the worker last answered each browser
  cache,     \* the response the browser keeps
  lastIn     \* history: when each key was last in the bucket

vars == <<clock, skew, secretOf, bucket, links, wpc, request, payload, answer,
          cache, lastIn>>

URL == [token : Seq(0..66), signature : Seq(0..66)]
Payload == [key : Key, exp : Nat]

-----------------------------------------------------------------------------
(* Base64, as Go's encoding/base64 and the browser's btoa and atob have it. *)
Plus == 62
Slash == 63
Pad == 64
Minus == 65
Underscore == 66

(* Three bytes as four characters of six bits, and back.                   *)
Sextets(a, b, c) ==
  <<a \div 4, 16 * (a % 4) + b \div 16, 4 * (b % 16) + c \div 64, c % 64>>
Octets(a, b, c, d) ==
  <<4 * a + b \div 16, 16 * (b % 16) + c \div 4, 64 * (c % 4) + d>>

(* The n-th item, the last ones filled up with zeros.                      *)
At(s, n) == IF n <= Len(s) THEN s[n] ELSE 0

Digits(bytes) ==
  LET Group(g) == Sextets(At(bytes, 3 * g + 1), At(bytes, 3 * g + 2), At(bytes, 3 * g + 3))
  IN [i \in 1..((8 * Len(bytes) + 5) \div 6) |->
        Group((i - 1) \div 4)[((i - 1) % 4) + 1]]

Padding(n) == [i \in 1..n |-> Pad]

Btoa(bytes) == LET d == Digits(bytes) IN d \o Padding((-Len(d)) % 4)

(* At most two signs of padding, and only at the end of a full group.      *)
Unpadded(chars) ==
  LET n == Len(chars)
      pads == IF n = 0 \/ n % 4 # 0 \/ chars[n] # Pad THEN 0
              ELSE IF chars[n - 1] = Pad THEN 2 ELSE 1
  IN SubSeq(chars, 1, n - pads)

(* Nothing stands for the exception.                                       *)
Atob(chars) ==
  LET body == Unpadded(chars)
      Group(g) == Octets(At(body, 4 * g + 1), At(body, 4 * g + 2),
                         At(body, 4 * g + 3), At(body, 4 * g + 4))
  IN IF Len(body) % 4 = 1 \/ \E i \in 1..Len(body) : body[i] > Slash
     THEN Nothing
     ELSE [i \in 1..((3 * Len(body)) \div 4) |->
             Group((i - 1) \div 3)[((i - 1) % 3) + 1]]

(* replace(/x/g, y)                                                        *)
ReplaceEach(x, y, chars) ==
  [i \in 1..Len(chars) |-> IF chars[i] = x THEN y ELSE chars[i]]

-----------------------------------------------------------------------------
(* The server's side: json.Marshal of a payload, of which the model keeps  *)
(* that it tells payloads apart, base64.RawURLEncoding, and HMAC, of which *)
(* it keeps that it differs for any other secret or token.                 *)
Marshal(k, exp) == Json[k][exp]

RawURLEncode(bytes) ==
  ReplaceEach(Plus, Minus, ReplaceEach(Slash, Underscore, Digits(bytes)))

Mac(secret, token) == <<secret>> \o token

SignedFileURL(k) ==
  LET token == RawURLEncode(Marshal(k, clock \div Second + LinkTTL))
  IN [token |-> token, signature |-> RawURLEncode(Mac(secretOf.server, token))]

-----------------------------------------------------------------------------
(* The worker's functions.                                                 *)

(* replace(/=+$/g, "")                                                     *)
Trim(chars) ==
  LET last == {n \in 0..Len(chars) : \A i \in (n + 1)..Len(chars) : chars[i] = Pad}
  IN SubSeq(chars, 1, Min(last))

ArrayBufferToBase64URL(bytes) ==
  Trim(ReplaceEach(Slash, Underscore, ReplaceEach(Plus, Minus, Btoa(bytes))))

(* Mutant: a full last group gets a group of padding more.                 *)
Base64URLDecode_Overpadded(value) ==
  LET base64 == ReplaceEach(Underscore, Slash, ReplaceEach(Minus, Plus, value))
  IN Atob(base64 \o Padding(4 - (Len(base64) % 4)))

Base64URLDecode(value) ==
  LET base64 == ReplaceEach(Underscore, Slash, ReplaceEach(Minus, Plus, value))
  IN Atob(base64 \o Padding((4 - (Len(base64) % 4)) % 4))

HmacSHA256Base64URL(secret, value) ==
  ArrayBufferToBase64URL(Mac(secret, value))

ConstantTimeEqual(a, b) ==
  Len(a) = Len(b) /\ \A i \in 1..Len(a) : a[i] = b[i]

(* JSON.parse, and the checks that key and exp are there.                  *)
Parse(bytes) ==
  LET Sources == {p \in [key : Key, exp : Exp] : Marshal(p.key, p.exp) = bytes}
  IN IF bytes = Nothing \/ Sources = {} THEN Nothing ELSE CHOOSE p \in Sources : TRUE

VerifySignedToken(token, signature, secret) ==
  IF ConstantTimeEqual(signature, HmacSHA256Base64URL(secret, token))
  THEN Parse(Base64URLDecode(token)) ELSE Nothing

-----------------------------------------------------------------------------
Request ==
  [method : {"GET", "HEAD"}, url : URL, secret : Secret]
Status == {"method", "path", "missing token", "invalid token", "expired",
           "no file", "served"}

TypeOK ==
  /\ clock \in 0..Horizon
  /\ skew \in Skews
  /\ secretOf \in [server : Secret, worker : Secret]
  /\ bucket \subseteq Key
  /\ links \subseteq [key : Key, at : 0..clock, secret : Secret, url : URL]
  /\ wpc \in [Browser -> {"idle", "verify", "get"}]
  /\ request \in [Browser -> Request \cup {Nothing}]
  /\ payload \in [Browser -> Payload \cup {Nothing}]
  /\ answer \in [Browser -> Status \cup {Nothing}]
  /\ cache \in [Browser -> [url : URL, key : Key, at : 0..clock, age : Nat]
                          \cup {Nothing}]
  /\ lastIn \in [Key -> 0..clock \cup {Nothing}]
  /\ \A b \in Browser : wpc[b] = "get" => payload[b] # Nothing

Init ==
  /\ clock = 0
  /\ skew \in Skews
  /\ secretOf \in [server : Secret, worker : Secret]
  /\ bucket = {}
  /\ links = {}
  /\ wpc = [b \in Browser |-> "idle"]
  /\ request = [b \in Browser |-> Nothing]
  /\ payload = [b \in Browser |-> Nothing]
  /\ answer = [b \in Browser |-> Nothing]
  /\ cache = [b \in Browser |-> Nothing]
  /\ lastIn = [k \in Key |-> Nothing]

browserVars == <<wpc, request, payload, answer, cache>>

Tick ==
  /\ clock < Horizon
  /\ clock' = clock + 1
  /\ lastIn' = [k \in Key |-> IF k \in bucket THEN clock' ELSE lastIn[k]]
  /\ UNCHANGED <<skew, secretOf, bucket, links, browserVars>>

(* Either program is deployed with another secret.                         *)
Deploy ==
  /\ \E program \in {"server", "worker"}, s \in Secret :
       secretOf' = [secretOf EXCEPT ![program] = s]
  /\ UNCHANGED <<clock, skew, bucket, links, browserVars, lastIn>>

(* An upload under a key nobody used before, and the deletion of a file.   *)
Put(k) ==
  /\ lastIn[k] = Nothing
  /\ Cardinality({j \in Key : lastIn[j] # Nothing}) < MaxFiles
  /\ bucket' = bucket \cup {k}
  /\ lastIn' = [lastIn EXCEPT ![k] = clock]
  /\ UNCHANGED <<clock, skew, secretOf, links, browserVars>>

Delete(k) ==
  /\ k \in bucket
  /\ bucket' = bucket \ {k}
  /\ UNCHANGED <<clock, skew, secretOf, links, browserVars, lastIn>>

(* The key was read from a row, its file may be gone by now.               *)
Sign(k) ==
  /\ lastIn[k] # Nothing
  /\ Cardinality(links) < MaxLinks
  /\ links' = links \cup {[key |-> k, at |-> clock, secret |-> secretOf.server,
                           url |-> SignedFileURL(k)]}
  /\ UNCHANGED <<clock, skew, secretOf, bucket, browserVars, lastIn>>

(* What may arrive of a link: all of it, or a copy that lost an end or a   *)
(* parameter.                                                              *)
Arriving(url) ==
  {url,
   [url EXCEPT !.token = Front(@)],
   [url EXCEPT !.signature = Front(@)],
   [url EXCEPT !.signature = <<>>]}

Say(b, status) ==
  /\ answer' = [answer EXCEPT ![b] = status]
  /\ wpc' = [wpc EXCEPT ![b] = "idle"]
  /\ request' = [request EXCEPT ![b] = Nothing]
  /\ payload' = [payload EXCEPT ![b] = Nothing]

(* fetch, up to the first await: what the request says, and the secret of  *)
(* this deployment.                                                        *)
Receive(b) ==
  /\ wpc[b] = "idle"
  /\ \E l \in links : \E url \in Arriving(l.url) :
       \/ Say(b, "method")   \* neither GET nor HEAD
       \/ Say(b, "path")     \* not /file
       \/ /\ url.token = <<>> \/ url.signature = <<>>
          /\ Say(b, "missing token")
       \/ /\ url.token # <<>> /\ url.signature # <<>>
          /\ \E method \in {"GET", "HEAD"} :
               request' = [request EXCEPT ![b] =
                 [method |-> method, url |-> url, secret |-> secretOf.worker]]
          /\ wpc' = [wpc EXCEPT ![b] = "verify"]
          /\ answer' = [answer EXCEPT ![b] = Nothing]
          /\ UNCHANGED payload
  /\ UNCHANGED cache

(* Mutant: a link is dead in the very second it names.                     *)
Expired_Early(p, now) == p.exp <= now

Expired(p, now) == p.exp < now

(* The signature is computed, and the clock read.                          *)
Verify(b) ==
  /\ wpc[b] = "verify"
  /\ LET p == VerifySignedToken(request[b].url.token, request[b].url.signature,
                                request[b].secret)
         now == (clock + skew) \div Second
     IN \/ p = Nothing /\ Say(b, "invalid token")
        \/ p # Nothing /\ Expired(p, now) /\ Say(b, "expired")
        \/ /\ p # Nothing /\ ~Expired(p, now)
           /\ payload' = [payload EXCEPT ![b] = p]
           /\ wpc' = [wpc EXCEPT ![b] = "get"]
           /\ UNCHANGED <<request, answer>>
  /\ UNCHANGED cache

(* Mutant: max-age is the expiry of the link, a time in place of a span.   *)
CacheControl_Expiry(b) == payload[b].exp

CacheControl(b) == MaxAge

(* The response to b as its browser keeps it, with the age it may reach.   *)
Copy(b, key) ==
  [url |-> request[b].url, key |-> key, at |-> clock, age |-> CacheControl(b)]

(* Mutant: errors may be kept like files.                                  *)
Keep_Errors(b) ==
  LET key == IF payload[b].key \in bucket THEN payload[b].key ELSE Nothing
  IN cache' = [cache EXCEPT ![b] = Copy(b, key)]

(* The response, its body and its Cache-Control header stay in the browser *)
(* if it is that of a GET and a file.                                      *)
Keep(b) ==
  IF request[b].method = "GET" /\ payload[b].key \in bucket
  THEN cache' = [cache EXCEPT ![b] = Copy(b, payload[b].key)]
  ELSE UNCHANGED cache

(* bucket.get has answered: 404 or the file, without the body for HEAD.    *)
Reply(b) ==
  /\ wpc[b] = "get"
  /\ Say(b, IF payload[b].key \in bucket THEN "served" ELSE "no file")
  /\ Keep(b)

(* Cache-Control: private, max-age, as a browser reads it: it shows the    *)
(* copy without asking the worker.                                         *)
FreshCopy(b) ==
  cache[b] # Nothing /\ clock - cache[b].at < cache[b].age * Second

(* The browser makes room.                                                 *)
Evict(b) ==
  /\ cache[b] # Nothing
  /\ cache' = [cache EXCEPT ![b] = Nothing]
  /\ UNCHANGED <<wpc, request, payload, answer>>

Visit(b) ==
  /\ Receive(b) \/ Verify(b) \/ Reply(b) \/ Evict(b)
  /\ UNCHANGED <<clock, skew, secretOf, bucket, links, lastIn>>

Next ==
  \/ Tick
  \/ Deploy
  \/ \E k \in Key : Put(k) \/ Delete(k) \/ Sign(k)
  \/ \E b \in Browser : Visit(b)

Spec == Init /\ [][Next]_vars

-----------------------------------------------------------------------------
(* The worker takes a link for its own exactly if the link arrived whole   *)
(* and was signed with the secret the worker has, and serves the file it   *)
(* was signed for: Go's encoder and the worker's decoder, its comparison   *)
(* of signatures and both alphabets fit together for every length.         *)
WholeLinksOnly ==
  [][\A b \in Browser : wpc[b] = "verify" /\ wpc'[b] # "verify" =>
       LET Made == {l \in links : l.url = request[b].url /\ l.secret = request[b].secret}
       IN /\ answer'[b] = "invalid token" /\ wpc'[b] = "idle" <=> Made = {}
          /\ wpc'[b] = "get" => \E l \in Made : l.key = payload'[b].key]_vars

(* A link lives for LinkTTL seconds and dies within the next one, although *)
(* both sides round the time down and compare whole seconds; the clocks    *)
(* being apart moves this by as much as they are.                          *)
LinkLifetime ==
  [][\A b \in Browser, l \in links :
       wpc[b] = "verify" /\ wpc'[b] # "verify" /\ request[b].url = l.url =>
         /\ wpc'[b] = "get" => clock + skew < l.at + (LinkTTL + 1) * Second
         /\ wpc'[b] = "idle" /\ answer'[b] = "expired" =>
              clock + skew > l.at + LinkTTL * Second]_vars

(* A file that is deleted is gone from every browser MaxAge seconds later, *)
(* whatever links and answers were under way.                              *)
GoneFilesFade ==
  \A b \in Browser :
    FreshCopy(b) => clock <= lastIn[cache[b].key] + MaxAge * Second
=============================================================================
