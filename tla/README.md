# Verification of kalkan

This directory holds TLA+ models of kalkan, the Go wrapper around the native
KalkanCrypt library, the TLC configurations that check them on small instances,
and TLAPS proofs of the properties that should hold for any number of
goroutines, handles and sizes. Paths below are relative to the repository.

## The system

KalkanCrypt is one shared library with process-global state: keys, trust store,
proxy, XML state and a last-error slot. Everything stateful in the repository
exists to give callers safe access to it.

| Part | Code | Model |
|---|---|---|
| Client: call gate, contexts, shutdown | `client.go` | `KalkanClient`, `Session` |
| Trust, key stores, proxy | `certificate.go` | `KalkanClient` |
| Certificate query and its PEM cache | `certificate_info.go` | `KalkanClient` |
| Opening a client | `client.go` | `OpenClient` |
| The single process slot | `ckalkan/client.go`, `ckalkan/lifecycle.go` | `ProcessSlot` |
| Native output buffers and retries | `ckalkan/buffer.go`, `verify.go`, `x509.go`, `zip.go`, `tokens.go`, `signing.go` | `OutputBuffer` |
| Worker process | `isolated/worker.go` | `Worker` |
| Client of a worker process | `isolated/client.go`, `isolated/process.go` | `IsolatedClient` |
| Frames, metadata and errors between the two | `isolated/protocol*.go` | `Codec`, `Schemas`, `FrameTransfer` |
| ZIP containers | `zip.go`, `zip_policy.go` | `ZipSign` |
| OCSP in Go | `ocsp.go`, `ocsp_client.go`, `ocsp_certificate.go` | `OcspStructure`, `OcspCheck` |
| Endpoints, options, routing of validation | `endpoint_policy.go`, `policy.go`, `option.go`, `validate.go` | `Endpoints` |
| Signer certificates | `certificate_info.go`, `certificate_xml_input.go`, `limits.go` | `SignerCertificates`, `XmlCertificateInput` |
| XML and SOAP signatures | `xml.go` | `XmlSignature` |
| Requests and the native flags they become | `cms.go`, `hash.go`, `xml.go`, `source.go`, `ckalkan/constants.go` | `Requests` |
| Estimates of output sizes | `ckalkan/output_estimate.go` | `OutputEstimate` |
| GOST signatures of certificates | `internal/certsig/certsig.go`, `gost.go` | `GostCertificate` |
| GOST R 34.10 verification | `internal/certsig/internal/gogost/gost3410` | `Gost3410` |
| GOST R 34.11 hash | `internal/certsig/internal/gogost/internal/gost34112012` | `Streebog` |

A `kalkan.Client` owns a `ckalkan.Client`, of which one may exist per process
(`ProcessSlot`). Goroutines share the `kalkan.Client` through a channel with one
token (`KalkanClient`); whoever holds the token makes native calls, each a retry
loop over output buffers (`OutputBuffer`). An `isolated.Client` runs a
`kalkan.Client` in a child process and exchanges frames with it over pipes
(`IsolatedClient`, which extends `Worker`). Before a native call the request is
validated and turned into flags (`Requests`), which also choose the first output
buffer (`OutputEstimate`). Certificates are verified in Go where the OCSP client
needs it: their encoding (`GostCertificate`), a digest of what is signed
(`Streebog`) and the signature equation (`Gost3410`).

## Modules and their correspondence to the code

A step of a model is a stretch of code between two points that another goroutine,
process or the SDK can observe: a critical section of a mutex, a channel
operation, a native call, a pipe operation. Input validation that returns before
such a point changes no state and has no step. Data are model values or small
integers; control is kept.

**Session** is the abstract specification of a client: one party at a time inside
the library, nobody admitted after shutdown began, one shutdown with one result.

**KalkanClient.** `pc[t]` is where goroutine `t` stands; `gate` is the token;
`library`, `closing`, `closeErr`, `trusted`, `pemCache` and `proxy` are the fields
of `Client`; `sdk`, `sdkTrust` and `sdkProxy` are the native state those fields
mirror. `LockCheck`, `TakeGate`/`LeaveQueue` and `Recheck` are the three parts of
`lockLibrary`. `LoadKeyStore`, `RestoreNext` and `RestoreDone` are
`Client.LoadKeyStore` with `restoreTrustedCertificates`, one native load per step.
`SetProxy`/`StoreProxy`, `EncodePEM`/`GetInfo` and
`CopyTrust`/`ValidateChain`/`FetchOCSP` are the operations that touch Go state
around a native call; every other operation is `NativeCall`. `CloseContext`,
`PollDone` and `AwaitDone` are `CloseContext` and `waitCloseContext`; the
`Closer...` actions are the goroutine `closeLibrary`. `Cancel` may happen at any
point of a call. The variables `partial`, `late` and `result` record history for
the properties. The refinement mapping puts a goroutine inside the abstract
session from the second check of `lockLibrary` until it returns the token.

**ProcessSlot.** Every function runs under `process.mu`, so each is one action.
`Drop` forgets an unreferenced handle so that a bounded set of handles covers
unboundedly many clients. **OpenClient** runs `openWithLibraryFactory` and
`setupOpenedClient` over it: one step per setup call, failures and cancellation
between any two, and the deferred `Close`. Goroutines that use `ckalkan` directly
(`Direct`) compete for the same slot with every operation of `ProcessSlot`.

**OutputBuffer.** One wrapper call at a time (`process.mu`): `Begin...` computes
the first capacities of each kind of call, `NativeCall` lets the SDK answer, and
`DecideBuffer`, `DecideList` and `DecideOutputs` are what `callBufferWithCapacityLocked`,
`callListLocked` and the loops of `VerifyData` and `X509ValidateCertificate` make
of the answer. What the SDK has to deliver is chosen when the call begins and
hidden from the code.

**Worker** and **IsolatedClient.** The pipes hold at most one message each way.
`holder` is the gate of the parent; the opener, callers, closer and reaper are its
users. `BeginCall`, `TakeGate`/`LeaveQueue` and `Recheck` are `acquire`; a call that
`acquire` refuses at once changes nothing and has no step. `StartExchange`, `Send`, `Receive`, `Interrupt`, `Evaluate` are `exchange`
with its sender goroutine; `ShutdownGate` to `ShutdownExit` are
`gracefulShutdown`; `Reap`, `ReaperGate`, `ClosePipes` are `waitProcess`. The
process may `Crash` at any time and a native call may hang.

**Codec**, **Schemas**, **FrameTransfer.** `Codec` is the metadata writer and
reader of `protocol.go`; `Schemas` lists the fields of every message twice, as the
encoder visits them and as the decoder does; `FrameTransfer` writes a message to a
pipe, perhaps cut short, and reads it back. The input limit of an open message is
the one in its configuration, and a time's nanoseconds are read within their range.

**ZipSign.** One step per system call of `SignZIP`: the checks, the staging file,
the native signing under the gate, the publication by link, and the clean-up.
`setting`, chosen initially, says which client each signer belongs to, which
clients publish atomically, and whether another process, an unrelated program and
crashes act between any two steps. Every system call may fail.

**OcspStructure** is the shape of responses. `Reads` is what `encoding/asn1`
accepts, leftovers included; the `kalkanOCSP...` definitions are the checks of the
same names; `Conforms` is the strict reading they are compared with.
**OcspCheck** is `validateCertificateOCSP` among authorities that revoke,
responders that sign, a network that delivers any published response, a clock and
trusted files that change. A response names its signer by name or by key, and a
delegate's certificate may have a critical extension that nobody handles. `Validate`, `NativeValidate`, `FindIssuer`, `Fetch`,
`CheckResponse` and `Return` are its stages.

**Endpoints.** Options are applied in any order; `Held` tells a copy of the
caller's policy from a reference to it. `ValidateCertificate` records who contacts
which endpoint.

**SignerCertificates.** `readCMSCertificateFile` opens and reads the file once; a
file that is replaced or overwritten meanwhile is read as it was, as it is, torn, or
with an error. Then
`collectSignerCertificates` and `Decide` alternate, a gate session per lookup.
The SDK may number signers properly or never report an end, and selects an XML
signature by its number or its Id. **XmlCertificateInput** is the copy of a document
without the Ids of its signatures. A character is only its widths in UTF-8, UTF-16,
a legacy encoding and the view that is scanned; a byte is the character it belongs
to, so a cut in the wrong place shows. `sourceOffset` maps offsets of the view to
the document as the two closures of the code do.

**XmlSignature.** A document is a sequence of items with depths. The definitions
from `isDirectExpectedSOAPBodyReference` to `validateSOAPVerificationState` are the
one-pass scan of `VerifyXML`, each named after its function; `Binds` says the same
of the tree. `SignWSSE` wraps, limits and signs; `Alter` edits documents between
the two operations.

**Requests.** `SignCMS`, `VerifyCMS`, `HashData`, `SignHash` and `XMLOperation` are
the public methods up to the native call: a request is rejected, or becomes a
function, a set of bits of the native mask and its inputs. What `ckalkan` derives
from these follows: the first capacities, and whether decoded data is an output.
`Understood` is the library's reading of the mask, taken from the comments of
`ckalkan/constants.go`. **OutputEstimate** is the arithmetic of the estimates in an
`int64` that wraps, with the same sizes in unbounded arithmetic beside it.

**GostCertificate** extends `OcspStructure` by certificates with a GOST signature
and their issuers' keys, on the same DER trees with the same lenient decoder.
**Gost3410** computes with the code's own formulas on curves that are small enough
to list their points; the standard's side adds points by the slope of the line
through them and knows the discrete logarithm of every key. **Streebog** keeps the
buffer, counter, checksum and padding of the hash and leaves the compression
function free: a digest is the list of its inputs.

## Runs

| Run | Checks | Instance |
|---|---|---|
| `client_safe` | native trust and proxy agree with the client's, one trust per validation, exclusive native calls, a clean closed client, one close result, refinement of `Session` | 2 goroutines and the closer, 2 certificates, 1 proxy, 2 properties per query, symmetric |
| `client_live` | calls return, refinement of the fair `Session` | the same with 1 certificate |
| `open_client` | one loaded library, accounting of the slot, poisoning; a failed Open holds nothing and leaves nothing to its successor, Open returns | 3 goroutines and handles, 2 trusted certificates |
| `output_buffer` | complete output and own verdicts, justified limit errors, bounded growth with every retry | sizes up to 8, every SDK answer |
| `isolated` | pairing of requests and responses, borrowed bytes, real failures, final close result; canceled calls return, the process is reaped | 2 callers, 3 requests |
| `zip` | a published container is whole, a reported one is the caller's own, an atomic client replaces nothing | 3 signers of one client, plain or atomic; 2 atomic signers among another process, a program and crashes |
| `frames` | values and errors arrive as they were, whole frames are accepted, cuts are detected, the worker always answers | every message with each field absent, empty or set, messages around every limit, cuts anywhere |
| `ocsp_structure` | the structure checks accept exactly what has one reading; GOST certificates go to verification exactly if they are of one profile | 6 responses, 2 edits; certificates of both profiles, 6 issuers, 2 edits; an element after the fields of a certificate and of a key |
| `ocsp_check` | good is recent, the status is the one its own authority stated, honest answers count | 2 authorities of one name, 2 certificates of delegates, changing trusted files, clock to 3 |
| `endpoints` | contacts are permitted, and permitted ones are not refused | 6 policies, 15 endpoints |
| `sequential` | signers are complete and limits exact, only Ids are removed; a streamed digest is that of the whole message; verification accepts exactly what the key's owner can sign; requests survive translation, estimates are exact | 6 containers, 69 documents in every encoding and an oversized one, limits of 2 signers and 3 bytes; messages up to 2 blocks and a rest; every key, digest and signature on 3 curves; every combination of options |
| `xml` | the scan accepts exactly messages whose signature covers the delivered body; payloads stay alone in the body and signed messages pass verification | 3 documents, 4 drafts, 2 edits or 1 |

Bounds. Two goroutines are enough for a pair of operations to interleave, and the
closer is a third party that contends with both. Three handles allow an open, a
stale and a zero handle at once. The sizes of `output_buffer` put the limit below,
at and above the safety capacity and the needed size, so every branch of the
growth rule is taken. Three requests let a request follow one that failed and one
that was canceled. `frames` has messages on both sides of the metadata limit (in
the payload and only in the header), of the block limit and of the depth of errors.
Times up to 3 exceed the maximum age of 1 plus the skew of 1, so each comparison of
`kalkanOCSPSingleStatus` is met below, at and above its boundary. One trusted certificate, from memory or from a
file, is enough to be the wrong candidate; the proof covers any number. Two edits are what
it takes to put one part of a structure elsewhere and another in its place; the base
documents contain every optional part. `sequential` is four independent parts, of
which a behaviour exercises one. Its curves have cofactor 4, an order below the
field's and an order above it; its blocks are short enough for messages of two blocks
and a rest, and its bytes for carries out of every position. Sizes surround the
boundaries of base64 groups and PEM lines and the limits, with the largest `int64`
scaled to 9000.

Fairness. Only `client_live`, `open_client` and `isolated` check liveness. A
goroutine that can run does, and native calls return (weak fairness of the steps).
A channel serves its receivers first come, first served, so a goroutine waiting for
a token that keeps coming back obtains it: strong fairness of `TakeGate` in
`KalkanClient`. In `isolated` native calls get no fairness and may hang: weak
fairness covers the serve loop of the worker, the sender goroutine, the opener, the
steps of callers and of shutdown, the death of a killed process and the wait for it.
With a bounded number of requests the gate cannot be passed around for ever, so weak
fairness suffices there.

Deadlock is checked except in `ocsp_structure` and `xml`, where a behaviour is one
document and ends with the verdict on it.

## Theorems

`KalkanClientProofs` proves every safety property of `KalkanClient`, and that it
implements `Session`, for any sets of goroutines, certificates and proxies. Two of
them are only proved: `TypeOK`, and `SavedResultFirst`, which says that a
`CloseContext` begun after shutdown returns the saved result even if its context is
canceled. The
properties are not inductive. The invariant `IInv` adds: exactly one of the token,
the goroutine that took it and the closer exists at any time (`GateInv`); what the
stage of the closer implies for `closing`, `library` and the SDK (`ClosingInv`,
`LibraryInv`); that native trust is the restored prefix of remembered trust while
a goroutine restores (`TrustInv`); that proxies differ only between the two steps
of `SetProxy` (`ProxyInv`); and what waiting closers know (`CloseInv`).

`OpenRequestProofs` proves the slot properties, with `NothingInherited` (a conjunct
of `FailedOpenHoldsNothing`), for any set of handles. It also proves that
goroutines which open, use and close clients implement the slot's specification,
and that an Open which failed holds nothing. Its invariant says at which places an
Open owns its handle, and that nobody else does.

`OutputBufferProofs` proves, for every configuration, sizes and SDK answers, that
capacities stay between one and the limit and that every retry enlarges a buffer:
with the limit this bounds the number of retries. It also proves that returned output
is complete, verdicts are a call's own and limit errors justified; the invariant
relates an attempt's answer to what the SDK had to deliver and to the capacities it
was given.

`OpenRequestProofs` continues with what follows an Open, the requests. It proves for
every size and limit that the saturating estimates equal the unbounded sizes cut off
at the limit: no intermediate result leaves `int64`. From this and from what each
public method makes of its request it proves, for any set of requests, that the mask
of the native call says what the request selected, and that the estimate is the one
computed from that request. `InputAssumption` states what Go's types say of a request:
switches are Boolean and sizes fit an `int64`, that of a document in its envelope too.

`ZipSignProofs` proves the three properties of `ZipSign` for any number of signers
and settings. The invariant adds where each signer stands with its staging file
(`CallInv`), who is inside the gate (`GateInv`), and that a direct signer of a client
which nobody else disturbs has the output path to itself from its check under the
gate to its return (`AloneInv`).

`IsolatedClientProofs` proves that parent and worker stay in step, that borrowed bytes are returned and that the close result
is final, for any number of callers and requests. What makes `InStep` inductive: the
gate has one holder (`GateInv`); the worker holds one request at a time, in sequence
(`WorkerInv`); and while the pipes are open the only message on its way is the request
of the exchange that reads, or its response, and the worker expects the number of that
request until it has taken it, and the next number afterwards (`LinkInv`). `CloseInv`
relates the stages of shutdown to the exit status.

The same module proves `FailureIsReal`: whatever the parent reports as a
broken transport or an exited worker, the worker had died by itself. A worker that
leaves in good order is the case to exclude. `OrderInv` says that as long as nobody
stopped the worker and it did not crash, it is gone only after a final response, which
the parent still reads: it closes nothing in between, and whoever reads that response
stops the client or is the shutdown that asked for it. `ReasonInv` relates the recorded
reasons to what happened to the process.

`NetworkProofs` proves the three properties of `OcspCheck` for any authorities,
delegates, validities, clock lags within the tolerated skew and ages. `OcspInv` says that
from the fetch on the issuer is the certificate's own authority, whatever was loaded as
trusted and whatever its file holds now, and that the response under check carries what
its signer could state at its time (`Stated`, `Truthful`); that the first usable
candidate exists rests on the least-number principle (`Least`). The proof showed what `StatedByOwnAuthority` rests on: `kalkanOCSPSigner`
compares a delegate's certificate with the client's clock and not with the time of the
statement, so that appointed keys have to be honest also before their certificate is
valid, which `SpeaksFor` now says. The same module proves `ContactsArePermitted` for any
policies, URLs and requests. `PolicyInv` says that the policy an option holds is the one
its caller passed, whatever became of the caller's slices, and that an open client has
checked its own endpoints against it; the lemma `PolicyExact` that the code's check is
the stated policy.

`XmlInputProofs` shows what the copy of `xmlCertificateInput` holds for documents of
any length, in every encoding. Offsets into the bytes grow with the characters
(`SourceWidths`); every attribute is one run of characters (`DocumentLayout`); what the
scan has kept after a token is, in order, what it has read without the Ids (`Kept`,
the invariant of the loop). Every loop is a recursive function over prefixes, and the
lemmas `Iterate` and `Stays` do the induction that the library's theorems with an
operator parameter would do: an invariant is a set of states for each prefix.
`SignerProofs` builds on it and proves both properties of `SignerCertificates` for any
containers, documents and limits. `SignersInv` says that a call looks up the signers of
one value, whatever became of its file, and has the first of them in order; that the
SDK answers with that signer and no other rests on `NumbersSelect`.

TLC confirms the inductive invariants on the instances of the runs, and the
invariant of the slot through `OpenClient`. Assumptions are the named `ASSUME`s of
the modules: disjointness of model values, positive sizes ordered as the constants of
`ckalkan/options.go` are, natural ages and skews with a longest validity, and the types
of requests.

Only model-checked: liveness and fair refinement (outside the prover's reach). What
`Codec`, `OcspStructure`, `GostCertificate`, `XmlSignature`, `Streebog` and `Gost3410`
compute is defined by recursion over data; they are compared with their reference
definitions on bounded inputs.

## Not modelled

- The compression function of the hash with its tables (`precalc.go`, `c.go`) and the
  parameters of the real curves (`params.go`): constants on 256 and 512 bits without
  control. Vectors of the repository's tests are the check for them.
- Marshalling of arguments into C and the tables of native function addresses in
  `ckalkan/internal/kalkancrypt`: one call each, without state of their own.
- Text conversion: certificate properties and subject details
  (`certificate_info.go`), characters of XML names, URL parsing, error labels.
- Diagnostics (`observation.go`) and the redirection of standard streams
  (`isolated/stdio_*.go`): no modelled state depends on them.
- Algorithms that `crypto/x509` verifies itself. In `GostCertificate` the two
  comparisons of parsed parts with `certificate.Raw...` hold because both are parts of
  the same bytes; the package has no caller with a certificate put together by hand.
- Entities and default attributes that a document type declares: the tokens of
  `encoding/xml` do not show them, so `XmlCertificateInput` says nothing of the Ids
  the SDK may take from them.
- Termination of the OCSP fetch under its timeout, of `SignZIP` and of the extraction
  of signers has no liveness run. The first ends by its context, the second has no
  loop, and the third is bounded by the limit on signers (`SignersAreComplete`).
