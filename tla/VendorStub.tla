----------------------------- MODULE VendorStub -----------------------------
(***************************************************************************)
(* The vendor service of cmd/vendor-stub, as ProcessDeposit sees it        *)
(* through the HTTP client: a scenario, named by the X-Scenario header or  *)
(* else by the deposit's account, decides the answer.                      *)
(***************************************************************************)
EXTENDS Integers

\* The scenarios of test-scenarios/scenarios.yaml; any other name, and an account
\* without a scenario, is answered 404.
ScenarioNames ==
    {"clean_pass", "iqa_fail_blur", "iqa_fail_glare", "micr_failure",
     "amount_mismatch", "duplicate_detected", "ira_clean_pass"}

\* ocr_amount is the request's amount unless the scenario overrides it; in cents.
OCRAmountOverride == 25000

OCRAmount(s, amount) == IF s = "amount_mismatch" THEN OCRAmountOverride ELSE amount

ValidateResponse(s, amount) ==
    [ iqa       |-> IF s \in {"iqa_fail_blur", "iqa_fail_glare"} THEN "fail" ELSE "pass",
      errorType |-> CASE s = "iqa_fail_blur" -> "blur"
                      [] s = "iqa_fail_glare" -> "glare"
                      [] OTHER -> "other",
      micr      |-> s \notin {"iqa_fail_blur", "iqa_fail_glare", "micr_failure"},
      ocrAmount |-> OCRAmount(s, amount),
      duplicate |-> s = "duplicate_detected" ]

VSSOutcomes ==
    {"pass", "micr_fail", "amount_mismatch", "iqa_blur", "iqa_glare", "duplicate"}

\* The checks of ProcessDeposit on the answer, in the order in which they take
\* effect: a mismatch overwrites the review reason of an unread MICR line.
Outcome(resp, amount) ==
    CASE resp.iqa = "fail" -> IF resp.errorType = "glare" THEN "iqa_glare" ELSE "iqa_blur"
      [] resp.iqa # "fail" /\ resp.duplicate -> "duplicate"
      [] resp.iqa # "fail" /\ ~resp.duplicate /\ resp.ocrAmount # amount -> "amount_mismatch"
      [] resp.iqa # "fail" /\ ~resp.duplicate /\ resp.ocrAmount = amount /\ ~resp.micr ->
            "micr_fail"
      [] OTHER -> "pass"
=============================================================================
