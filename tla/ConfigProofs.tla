---------------------------- MODULE ConfigProofs ----------------------------
(***************************************************************************)
(* Proofs about ProviderConfig, for every set of configurations and client *)
(* options.  The invariant says what each stage of New has established.    *)
(***************************************************************************)
EXTENDS ProviderConfig, WellFoundedInduction, TLAPS

\* After k options the client is the last one given, or New's own.
ClientAfter(k) ==
  IF k = 0 THEN httpClient.name = "default" /\ httpClient.timeout = config.Timeout
  ELSE httpClient = given[k].client

\* What New has established when it is at a stage.
Stages ==
  /\ stage = "called" => config = raw
  /\ stage \in {"called", "validate"} => index = 1
  /\ stage \in {"validate", "options", "built"} => config = normalize(raw)
  /\ stage \in {"options", "built"} => validate(config) /\ ClientAfter(index - 1)
  /\ stage \in {"options", "built"} => \A i \in 1 .. index - 1 : given[i].is = "client"
  /\ stage = "refused" => ~validate(normalize(raw)) \/ \E i \in DOMAIN given : given[i].is # "client"
  /\ stage = "built" => index = Len(given) + 1 /\ request = requestOptions(config, httpClient)

IInv == TypeOK /\ Stages

USE DEF defaultTimeout, maximumTimeout, maximumRetries

-----------------------------------------------------------------------------
\* Where TrimRight cuts: after the last character that is not char.
LEMMA TrimRightCuts ==
  ASSUME NEW text \in Seq({"space", "slash"}), NEW char
  PROVE  \E n \in 0 .. Len(text) : /\ TrimRight(text, char) = SubSeq(text, 1, n)
                                   /\ n = 0 \/ text[n] # char
                                   /\ \A i \in n + 1 .. Len(text) : text[i] = char
PROOF
<1> DEFINE F(n) == \A i \in n + 1 .. Len(text) : text[i] = char
           P(n) == (n = 0 \/ text[n] # char) /\ F(n)
           S == {n \in 0 .. Len(text) : F(n)}
<1>1. Len(text) \in S /\ S \subseteq Nat
  OBVIOUS
<1>2. PICK n \in S : \A k \in S : n <= k
  <2> HIDE DEF S
  <2> DEFINE Less == {ss \in Nat \X Nat : ss[1] < ss[2]}
  <2>1. IsWellFoundedOn(Less, Nat)
    BY NatLessThanWellFounded DEF OpToRel
  <2>2. \A k, n \in S : <<k, n>> \in Less <=> k < n
    BY <1>1
  <2> HIDE DEF Less
  <2>3. PICK n \in S : \A k \in S : ~ (<<k, n>> \in Less)
    <3>1. S \subseteq Nat /\ S # {}
      BY <1>1
    <3>2. \E n \in S : \A k \in S : ~ (<<k, n>> \in Less)
      BY <3>1, <2>1, WFMin, Zenon
    <3>3. QED
      BY <3>2
  <2>4. ASSUME NEW k \in S PROVE n <= k
    <3>1. ~ (k < n)
      BY <2>2, <2>3
    <3>2. k \in Nat /\ n \in Nat
      BY <1>1
    <3>3. QED
      BY <3>1, <3>2
  <2>5. QED
    BY <2>4
<1>3. n \in 0 .. Len(text) /\ F(n)
  OBVIOUS
<1>4. n = 0 \/ text[n] # char
  <2>1. SUFFICES ASSUME n # 0, text[n] = char PROVE FALSE
    OBVIOUS
  <2>2. n - 1 \in 0 .. Len(text)
    BY <2>1, <1>3
  <2>3. F(n - 1)
    <3>1. TAKE i \in (n - 1) + 1 .. Len(text)
    <3>2. i = n \/ i \in n + 1 .. Len(text)
      BY <1>3
    <3>3. QED
      BY <3>2, <2>1, <1>3
  <2>4. n - 1 \in S
    BY <2>2, <2>3
  <2>5. QED
    BY <2>4, <1>2, <1>3
<1>5. \E k \in 0 .. Len(text) : P(k)
  BY <1>3, <1>4
<1>6. PICK k \in 0 .. Len(text) : P(k) /\ TrimRight(text, char) = SubSeq(text, 1, k)
  <2>1. TrimRight(text, char) = SubSeq(text, 1, CHOOSE k \in 0 .. Len(text) : P(k))
    BY DEF TrimRight
  <2> HIDE DEF P
  <2>2. QED
    BY <1>5, <2>1
<1>7. QED
  BY <1>6

\* What is left of the characters after a URL, cut at n for the spaces and at k
\* for the slashes.
LEMMA AfterURL ==
  ASSUME NEW after \in Seq({"space", "slash"})
  PROVE  \E n \in 0 .. Len(after) : \E k \in 0 .. n :
           /\ TrimRight(after, "space") = SubSeq(after, 1, n)
           /\ TrimRight(TrimRight(after, "space"), "slash") = SubSeq(after, 1, k)
           /\ n = 0 \/ after[n] = "slash"
           /\ \A i \in n + 1 .. Len(after) : after[i] = "space"
           /\ k = 0 \/ after[k] = "space"
           /\ \A i \in k + 1 .. n : after[i] = "slash"
PROOF
<1>1. \A i \in 1 .. Len(after) : after[i] = "space" \/ after[i] = "slash"
  OBVIOUS
<1>2. PICK n \in 0 .. Len(after) : /\ TrimRight(after, "space") = SubSeq(after, 1, n)
                                   /\ n = 0 \/ after[n] # "space"
                                   /\ \A i \in n + 1 .. Len(after) : after[i] = "space"
  BY TrimRightCuts
<1> DEFINE trimmed == SubSeq(after, 1, n)
<1>3. trimmed \in Seq({"space", "slash"}) /\ Len(trimmed) = n /\ \A i \in 1 .. n : trimmed[i] = after[i]
  OBVIOUS
<1>4. PICK k \in 0 .. n : /\ TrimRight(trimmed, "slash") = SubSeq(trimmed, 1, k)
                          /\ k = 0 \/ trimmed[k] # "slash"
                          /\ \A i \in k + 1 .. n : trimmed[i] = "slash"
  <2> HIDE DEF trimmed
  <2>1. QED
    BY TrimRightCuts, <1>3
<1>5. SubSeq(trimmed, 1, k) = SubSeq(after, 1, k)
  <2>1. Len(SubSeq(trimmed, 1, k)) = k /\ Len(SubSeq(after, 1, k)) = k
    BY <1>3
  <2>2. QED
    BY <2>1, <1>3
<1>6. \A i \in k + 1 .. n : after[i] = "slash"
  BY <1>3, <1>4
<1>7. k = 0 \/ after[k] = "space"
  BY <1>1, <1>3, <1>4
<1>8. n = 0 \/ after[n] = "slash"
  BY <1>1, <1>2
<1>9. QED
  BY <1>2, <1>4, <1>5, <1>6, <1>7, <1>8

-----------------------------------------------------------------------------
\* normalize yields a configuration.
LEMMA NormalizeType ==
  ASSUME NEW c \in Config(DOMAIN TrimSpace)
  PROVE  normalize(c) \in Config(DOMAIN TrimSpace)
PROOF
<1>1. normalizedBaseURL(c.BaseURL) \in BaseURL
  <2>1. c.BaseURL \in BaseURL /\ c.BaseURL.after \in Seq({"space", "slash"})
    BY DEF Config, BaseURL
  <2>2. TrimRight(c.BaseURL.after, "space") \in Seq({"space", "slash"})
    BY <2>1, TrimRightCuts
  <2>3. TrimRight(TrimRight(c.BaseURL.after, "space"), "slash") \in Seq({"space", "slash"})
    BY <2>2, TrimRightCuts
  <2>4. [url |-> OpenAI, after |-> << >>] \in BaseURL
    BY DEF BaseURL, OpenAI, Url
  <2>5. QED
    BY <2>1, <2>3, <2>4 DEF normalizedBaseURL, BaseURL
<1>2. normalizedTimeout(c.Timeout) \in Int
  BY DEF normalizedTimeout, Config
<1>3. QED
  BY <1>1, <1>2, ConfigAssumption DEF normalize, Config

\* The SDK gets a timeout and a number of retries within the limits.
LEMMA RequestType ==
  ASSUME NEW c \in Config(DOMAIN TrimSpace), validate(c), NEW client \in HTTPClient
  PROVE  requestOptions(c, client) \in Request
PROOF
<1>1. [url |-> NoUrl, after |-> << >>] \in BaseURL
  BY DEF BaseURL, NoUrl, Url
<1>2. SDKDefaults \in Request
  BY <1>1, ConfigAssumption DEF SDKDefaults, Request, HTTPClient, NoClient
<1>3. c.Timeout \in 0 .. 1800 /\ c.MaxRetries \in 0 .. 8
  BY DEF validate, Config
<1>4. c.APIKey \in DOMAIN TrimSpace /\ c.Organization \in DOMAIN TrimSpace /\ c.Project \in DOMAIN TrimSpace
      /\ c.BaseURL \in BaseURL
  BY DEF Config
<1>5. SDKDefaults.Organization \in DOMAIN TrimSpace /\ SDKDefaults.Project \in DOMAIN TrimSpace
  BY <1>2 DEF Request
<1>6. /\ (IF c.Organization # "none" THEN c.Organization ELSE SDKDefaults.Organization) \in DOMAIN TrimSpace
      /\ (IF c.Project # "none" THEN c.Project ELSE SDKDefaults.Project) \in DOMAIN TrimSpace
  BY <1>4, <1>5
<1>7. QED
  <2> DEFINE organization == IF c.Organization # "none" THEN c.Organization ELSE SDKDefaults.Organization
             project == IF c.Project # "none" THEN c.Project ELSE SDKDefaults.Project
  <2>1. organization \in DOMAIN TrimSpace /\ project \in DOMAIN TrimSpace
    BY <1>6
  <2>2. requestOptions(c, client) =
          [APIKey |-> c.APIKey, BaseURL |-> c.BaseURL, HTTPClient |-> client, RequestTimeout |-> c.Timeout,
           MaxRetries |-> c.MaxRetries, Organization |-> organization, Project |-> project]
    BY DEF requestOptions
  <2> HIDE DEF organization, project
  <2> DEFINE key == c.APIKey
             base == c.BaseURL
             timeout == c.Timeout
             retries == c.MaxRetries
  <2>3. key \in DOMAIN TrimSpace /\ base \in BaseURL /\ timeout \in 0 .. 1800 /\ retries \in 0 .. 8
    BY <1>3, <1>4
  <2> HIDE DEF key, base, timeout, retries
  <2>4. [APIKey |-> key, BaseURL |-> base, HTTPClient |-> client, RequestTimeout |-> timeout,
         MaxRetries |-> retries, Organization |-> organization, Project |-> project] \in Request
    BY <2>1, <2>3 DEF Request
  <2> QED BY <2>2, <2>4 DEF key, base, timeout, retries

\* What the spaces and slashes after a base URL decide.
LEMMA Spelling ==
  ASSUME NEW after \in Seq({"space", "slash"}),
         NEW left, left = TrimRight(TrimRight(after, "space"), "slash")
  PROVE  LET cut    == \E i, j \in DOMAIN after : i < j /\ after[i] = "space" /\ after[j] = "slash"
             starts == \A i \in DOMAIN after : i = 1 => after[i] = "slash"
         IN  /\ TrimRight(after, "space") = << >> <=> \A i \in DOMAIN after : after[i] = "space"
             /\ (\A i \in DOMAIN left : i = 1 => left[i] = "slash") <=> ~cut \/ starts
PROOF
<1> DEFINE cut    == \E i, j \in DOMAIN after : i < j /\ after[i] = "space" /\ after[j] = "slash"
           starts == \A i \in DOMAIN after : i = 1 => after[i] = "slash"
<1>1. DOMAIN after = 1 .. Len(after)
  OBVIOUS
<1>2. PICK n \in 0 .. Len(after) : \E k \in 0 .. n :
           /\ TrimRight(after, "space") = SubSeq(after, 1, n)
           /\ left = SubSeq(after, 1, k)
           /\ n = 0 \/ after[n] = "slash"
           /\ \A i \in n + 1 .. Len(after) : after[i] = "space"
           /\ k = 0 \/ after[k] = "space"
           /\ \A i \in k + 1 .. n : after[i] = "slash"
  BY AfterURL
<1>3. PICK k \in 0 .. n :
           /\ TrimRight(after, "space") = SubSeq(after, 1, n)
           /\ left = SubSeq(after, 1, k)
           /\ n = 0 \/ after[n] = "slash"
           /\ \A i \in n + 1 .. Len(after) : after[i] = "space"
           /\ k = 0 \/ after[k] = "space"
           /\ \A i \in k + 1 .. n : after[i] = "slash"
  BY <1>2
<1>4. TrimRight(after, "space") = << >> <=> \A i \in DOMAIN after : after[i] = "space"
  <2>1. TrimRight(after, "space") = << >> <=> n = 0
    BY <1>3
  <2>2. n = 0 <=> \A i \in DOMAIN after : after[i] = "space"
    BY <1>1, <1>3
  <2>3. QED
    BY <2>1, <2>2
<1>5. (\A i \in DOMAIN left : i = 1 => left[i] = "slash") <=> ~cut \/ starts
  <2>1. DOMAIN left = 1 .. k /\ \A i \in 1 .. k : left[i] = after[i]
    <3>1. left = SubSeq(after, 1, k) /\ k <= Len(after)
      BY <1>3
    <3>2. QED
      BY <3>1
  <2>2. CASE starts
    BY <1>1, <2>1, <2>2
  <2>3. CASE ~starts /\ k = 0
    <3>1. n = 0
      BY <1>1, <1>3, <2>3
    <3>2. ~cut
      BY <1>1, <1>3, <3>1
    <3>3. QED
      BY <2>1, <2>3, <3>2
  <2>4. CASE ~starts /\ k # 0
    <3>1. k < n /\ after[k] = "space" /\ after[n] = "slash"
      BY <1>3, <2>4
    <3>2. k \in DOMAIN after /\ n \in DOMAIN after
      BY <1>1, <2>4, <3>1
    <3>3. cut
      BY <3>1, <3>2
    <3>4. 1 \in DOMAIN after /\ after[1] # "slash" /\ 1 \in 1 .. k
      BY <1>1, <2>4
    <3>5. QED
      BY <2>1, <2>4, <3>3, <3>4
  <2>5. QED
    BY <2>2, <2>3, <2>4
<1>6. QED
  BY <1>4, <1>5

\* The spelling of a base URL decides nothing but what Acceptable says.
LEMMA BaseURLAcceptable ==
  ASSUME NEW value \in BaseURL
  PROVE  LET url    == value.url
             after  == value.after
             blank  == url = NoUrl /\ \A i \in DOMAIN after : after[i] = "space"
             cut    == \E i, j \in DOMAIN after : i < j /\ after[i] = "space" /\ after[j] = "slash"
             starts == \A i \in DOMAIN after : i = 1 => after[i] = "slash"
             endpoint == normalizedBaseURL(value)
         IN  /\ Parses(endpoint) /\ endpoint.url.host # "none" /\ ~endpoint.url.user
             /\ allowedBaseURLScheme(endpoint.url)
             <=> blank \/ /\ url.parses /\ url.host # "none" /\ ~url.user
                          /\ allowedBaseURLScheme(url)
                          /\ url.path \/ ~cut \/ starts
PROOF
<1> DEFINE url    == value.url
           after  == value.after
           blank  == url = NoUrl /\ \A i \in DOMAIN after : after[i] = "space"
           cut    == \E i, j \in DOMAIN after : i < j /\ after[i] = "space" /\ after[j] = "slash"
           starts == \A i \in DOMAIN after : i = 1 => after[i] = "slash"
           left   == TrimRight(TrimRight(after, "space"), "slash")
           endpoint == normalizedBaseURL(value)
<1>1. after \in Seq({"space", "slash"}) /\ url \in Url
  BY DEF BaseURL
<1>3. TrimRight(after, "space") = << >> <=> \A i \in DOMAIN after : after[i] = "space"
  BY <1>1, Spelling
<1>4. (\A i \in DOMAIN left : i = 1 => left[i] = "slash") <=> ~cut \/ starts
  BY <1>1, Spelling
<1>5. CASE blank
  <2>1. endpoint = [url |-> OpenAI, after |-> << >>]
    BY <1>3, <1>5 DEF normalizedBaseURL
  <2>2. QED
    BY <2>1, <1>5 DEF Parses, OpenAI, allowedBaseURLScheme
<1>6. CASE ~blank
  <2>1. endpoint.url = url /\ endpoint.after = left
    BY <1>3, <1>6 DEF normalizedBaseURL, BaseURL
  <2>2. Parses(endpoint) <=> url.parses /\ (url.path \/ ~cut \/ starts)
    BY <2>1, <1>4 DEF Parses
  <2>3. QED
    BY <2>1, <2>2, <1>6
<1>7. QED
  BY <1>5, <1>6

\* validate accepts the normalized configuration exactly if it is acceptable as
\* the host wrote it.
LEMMA ValidAcceptable ==
  ASSUME raw \in Config(DOMAIN TrimSpace)
  PROVE  validate(normalize(raw)) <=> Acceptable
PROOF
<1>1. raw.BaseURL \in BaseURL /\ raw.Timeout \in Int /\ raw.MaxRetries \in Int
  BY DEF Config
<1>2. /\ normalize(raw).APIKey = TrimSpace[raw.APIKey]
      /\ normalize(raw).BaseURL = normalizedBaseURL(raw.BaseURL)
      /\ normalize(raw).Timeout = normalizedTimeout(raw.Timeout)
      /\ normalize(raw).MaxRetries = raw.MaxRetries
  BY DEF normalize
<1>3. (normalizedTimeout(raw.Timeout) > 0 /\ normalizedTimeout(raw.Timeout) <= 1800)
        <=> (raw.Timeout >= 0 /\ raw.Timeout <= 1800)
  BY <1>1 DEF normalizedTimeout
<1>4. raw.MaxRetries \in 0 .. 8 <=> raw.MaxRetries >= 0 /\ raw.MaxRetries <= 8
  BY <1>1
<1> DEFINE url    == raw.BaseURL.url
           after  == raw.BaseURL.after
           blank  == url = NoUrl /\ \A i \in DOMAIN after : after[i] = "space"
           cut    == \E i, j \in DOMAIN after : i < j /\ after[i] = "space" /\ after[j] = "slash"
           starts == \A i \in DOMAIN after : i = 1 => after[i] = "slash"
           endpoint == normalizedBaseURL(raw.BaseURL)
           Reachable == blank \/ /\ url.parses /\ url.host # "none" /\ ~url.user
                                 /\ allowedBaseURLScheme(url)
                                 /\ url.path \/ ~cut \/ starts
<1>5. /\ Parses(endpoint) /\ endpoint.url.host # "none" /\ ~endpoint.url.user
      /\ allowedBaseURLScheme(endpoint.url)
      <=> Reachable
  BY <1>1, BaseURLAcceptable
<1>6. Acceptable <=> /\ TrimSpace[raw.APIKey] # "none"
                     /\ Reachable
                     /\ raw.Timeout >= 0 /\ raw.Timeout <= 1800
                     /\ raw.MaxRetries >= 0 /\ raw.MaxRetries <= 8
  BY DEF Acceptable, allowedBaseURLScheme
<1>7. validate(normalize(raw)) <=>
        /\ TrimSpace[raw.APIKey] # "none"
        /\ Parses(endpoint) /\ endpoint.url.host # "none" /\ ~endpoint.url.user
        /\ allowedBaseURLScheme(endpoint.url)
        /\ normalizedTimeout(raw.Timeout) > 0 /\ normalizedTimeout(raw.Timeout) <= 1800
        /\ raw.MaxRetries \in 0 .. 8
  BY <1>2 DEF validate
<1> HIDE DEF Reachable, endpoint
<1>8. QED
  BY <1>3, <1>4, <1>5, <1>6, <1>7

-----------------------------------------------------------------------------
LEMMA InitIInv == Init => IInv
PROOF
<1> SUFFICES ASSUME Init PROVE IInv
  OBVIOUS
<1> USE ConfigAssumption
<1>1. raw \in Config(DOMAIN TrimSpace) /\ given \in Seq(ClientOption)
  BY DEF Init
<1>2. [url |-> NoUrl, after |-> << >>] \in BaseURL
  BY DEF BaseURL, NoUrl, Url
<1>3. SDKDefaults \in Request /\ NoClient \in HTTPClient
  BY <1>2 DEF SDKDefaults, Request, HTTPClient, NoClient
<1>4. 1 \in 1 .. Len(given) + 1
  BY <1>1
<1>5. TypeOK
  BY <1>1, <1>3, <1>4 DEF Init, TypeOK
<1>6. QED
  BY <1>5 DEF Init, IInv, Stages

LEMMA NextIInv == IInv /\ [Next]_vars => IInv'
PROOF
<1> SUFFICES ASSUME IInv, [Next]_vars PROVE IInv'
  OBVIOUS
<1> USE DEF IInv
<1>0. given \in Seq(ClientOption) /\ Len(given) \in Nat /\ DOMAIN given = 1 .. Len(given)
  BY ConfigAssumption DEF TypeOK
<1>1. CASE Normalize
  <2>1. config' \in Config(DOMAIN TrimSpace)
    BY <1>1, NormalizeType DEF Normalize, TypeOK
  <2>2. TypeOK'
    BY <1>1, <2>1 DEF Normalize, TypeOK
  <2>3. Stages'
    BY <1>1 DEF Normalize, Stages
  <2>4. QED
    BY <2>2, <2>3
<1>2. CASE Validate
  <2>1. CASE validate(config)
    <3>1. httpClient' = [name |-> "default", timeout |-> config.Timeout] /\ stage' = "options"
      BY <1>2, <2>1 DEF Validate
    <3>2. config.Timeout \in Nat
      BY <2>1 DEF validate, TypeOK, Config
    <3>3. httpClient' \in HTTPClient
      BY <3>1, <3>2, ConfigAssumption DEF HTTPClient
    <3>4. TypeOK'
      BY <1>2, <3>1, <3>3 DEF Validate, TypeOK
    <3>5. index = 1
      BY <1>2 DEF Validate, Stages
    <3>6. Stages'
      BY <1>2, <2>1, <3>1, <3>5 DEF Validate, Stages, ClientAfter
    <3>7. QED
      BY <3>4, <3>6
  <2>2. CASE ~validate(config)
    BY <1>2, <2>2 DEF Validate, TypeOK, Stages
  <2>3. QED
    BY <2>1, <2>2
<1>3. CASE Apply
  <2>1. index \in 1 .. Len(given) /\ given[index] \in ClientOption
    BY <1>0, <1>3 DEF Apply, TypeOK
  <2>2. TypeOK'
    BY <1>0, <1>3, <2>1 DEF Apply, TypeOK, ClientOption
  <2>3. Stages'
    BY <1>0, <1>3, <2>1 DEF Apply, Stages, ClientAfter, TypeOK
  <2>4. QED
    BY <2>2, <2>3
<1>4. CASE Build
  <2>1. validate(config) /\ config \in Config(DOMAIN TrimSpace) /\ httpClient \in HTTPClient
    BY <1>4 DEF Build, TypeOK, Stages
  <2>2. request' \in Request
    BY <1>4, <2>1, RequestType DEF Build
  <2>3. TypeOK'
    BY <1>4, <2>2 DEF Build, TypeOK
  <2>4. index = Len(given) + 1
    BY <1>0, <1>4 DEF Build, TypeOK
  <2>5. Stages'
    BY <1>4, <2>4 DEF Build, Stages, ClientAfter
  <2>6. QED
    BY <2>3, <2>5
<1>5. CASE UNCHANGED vars
  BY <1>5 DEF vars, TypeOK, Stages, ClientAfter
<1>6. QED
  BY <1>1, <1>2, <1>3, <1>4, <1>5 DEF Next

LEMMA SpecIInv == Spec => []IInv
PROOF
<1>1. QED
  BY InitIInv, NextIInv, PTL DEF Spec

\* Whatever the host gives to New, the SDK gets a request configuration within
\* the limits of config.go.
THEOREM ConfigTypeCorrect == Spec => []TypeOK
PROOF
<1>1. IInv => TypeOK
  BY DEF IInv
<1>2. QED
  BY <1>1, SpecIInv, PTL

\* New accepts exactly the acceptable configurations, for every list of options.
THEOREM ConfigAcceptsExactly == Spec => []AcceptsExactly
PROOF
<1>1. IInv => AcceptsExactly
  <2> SUFFICES ASSUME IInv PROVE AcceptsExactly
    OBVIOUS
  <2>1. raw \in Config(DOMAIN TrimSpace) /\ given \in Seq(ClientOption)
    BY ConfigAssumption DEF IInv, TypeOK
  <2>2. validate(normalize(raw)) <=> Acceptable
    BY <2>1, ValidAcceptable
  <2>3. CASE stage = "built"
    <3>1. Acceptable
      BY <2>2, <2>3 DEF IInv, Stages
    <3>2. \A i \in DOMAIN given : given[i].is = "client"
      BY <2>1, <2>3 DEF IInv, Stages
    <3>3. QED
      BY <2>3, <3>1, <3>2 DEF AcceptsExactly
  <2>4. CASE stage = "refused"
    BY <2>2, <2>4 DEF IInv, Stages, AcceptsExactly
  <2>5. QED
    BY <2>3, <2>4 DEF AcceptsExactly
<1>2. QED
  BY <1>1, SpecIInv, PTL

\* No default of the SDK shows through, and the last HTTP client wins.
THEOREM ConfigIsFollowed == Spec => []RequestFollowsConfig
PROOF
<1>1. IInv => RequestFollowsConfig
  <2> SUFFICES ASSUME IInv, stage = "built" PROVE RequestFollowsConfig
    BY DEF RequestFollowsConfig
  <2>1. given \in Seq(ClientOption)
    BY ConfigAssumption DEF IInv, TypeOK
  <2>2. config = normalize(raw) /\ request = requestOptions(config, httpClient) /\ ClientAfter(Len(given))
    BY <2>1 DEF IInv, Stages
  <2>3. given = << >> <=> Len(given) = 0
    BY <2>1
  <2>4. IF given = << >> THEN request.HTTPClient.name = "default"
        ELSE request.HTTPClient = given[Len(given)].client
    BY <2>2, <2>3 DEF ClientAfter, requestOptions
  <2>5. request.MaxRetries = raw.MaxRetries /\ request.APIKey = TrimSpace[raw.APIKey]
    BY <2>2 DEF normalize, requestOptions
  <2>6. request.Organization = TrimSpace[raw.Organization] /\ request.Project = TrimSpace[raw.Project]
    BY <2>2 DEF normalize, requestOptions, SDKDefaults
  <2>7. QED
    BY <2>4, <2>5, <2>6 DEF RequestFollowsConfig
<1>2. QED
  BY <1>1, SpecIInv, PTL

\* Every attempt of every client New returns is bounded by thirty minutes.
THEOREM AttemptsBounded == Spec => []AttemptsAreBounded
PROOF
<1>1. IInv => AttemptsAreBounded
  <2> SUFFICES ASSUME IInv, stage = "built" PROVE AttemptsAreBounded
    BY DEF AttemptsAreBounded
  <2>1. request.RequestTimeout = config.Timeout /\ validate(config)
    BY DEF IInv, Stages, requestOptions
  <2>2. request.RequestTimeout > 0 /\ request.RequestTimeout <= maximumTimeout
    BY <2>1 DEF validate
  <2>3. QED
    BY <2>2 DEF AttemptsAreBounded
<1>2. QED
  BY <1>1, SpecIInv, PTL

=============================================================================
