---------------------------- MODULE MCAiSettings ----------------------------
(* Instances of AiSettings for TLC. *)
EXTENDS AiSettings, TLC

CONSTANTS deepseek, custom, fast, private, other, m1, m2, k1, k2, assistant, c1, c2

BaseUrls == deepseek :> fast

Nothing == [provider |-> Keep, url |-> Keep, model |-> Keep, key |-> Keep, clear |-> FALSE,
            limit |-> Keep, consent |-> Keep, features |-> Keep]

(* The requests of HR: a key with consent, a feature, a limit, another model or key, and another *)
(* provider, alone or with the consent and the feature in one request.                           *)
Updates == {[Nothing EXCEPT !.key = k1, !.consent = "yes"],
            [Nothing EXCEPT !.features = {assistant}, !.limit = 2],
            [Nothing EXCEPT !.model = m2, !.features = {assistant}],
            [Nothing EXCEPT !.key = k2, !.clear = TRUE],
            [Nothing EXCEPT !.clear = TRUE],
            [Nothing EXCEPT !.provider = deepseek],
            [Nothing EXCEPT !.provider = custom, !.url = private, !.model = m1, !.consent = "yes"],
            [Nothing EXCEPT !.provider = custom, !.url = other, !.model = m1, !.consent = "no"]}

SymmetricCallers == Permutations(Caller)
=============================================================================
