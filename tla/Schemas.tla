------------------------------ MODULE Schemas ------------------------------
(***************************************************************************)
(* What each operation of package isolated sends and what the other side   *)
(* reads: for every Go type the fields its encoder writes, in the order    *)
(* the encoder writes them, and the fields its decoder reads, in the order *)
(* the decoder reads them.                                                 *)
(***************************************************************************)
EXTENDS Codec

\* (*payloadEncoder).source and (*payloadDecoder).source.
EncodeSource == Source(
  Fields(Bytes, <<"Data">>) \o Fields(Text, <<"Path">>) \o Fields(Number, <<"Encoding">>)
  \o Fields(Bool, <<"File", "Set">>))
DecodeSource == Source(
  Fields(Bytes, <<"Data">>) \o Fields(Text, <<"Path">>) \o Fields(Number, <<"Encoding">>)
  \o Fields(Bool, <<"File", "Set">>))

EncodeTimestamp == Time(
  Fields(Number, <<"seconds">>) \o Fields(Count, <<"nanos">>) \o Fields(Text, <<"name">>)
  \o Fields(Number, <<"offset">>) \o Fields(Bool, <<"utc">>))
DecodeTimestamp == Time(
  Fields(Number, <<"seconds">>) \o Fields(Count, <<"nanos">>) \o Fields(Text, <<"name">>)
  \o Fields(Number, <<"offset">>) \o Fields(Bool, <<"utc">>))

EncodeCertificate == Opt(Bytes)
DecodeCertificate == Opt(Bytes)

EncodeStrings == List(Text, 0)
DecodeStrings == List(Text, 4)

-----------------------------------------------------------------------------
\* Requests.

EncodeHashRequest == Struct(Fields(Number, <<"Algorithm">>) \o Fields(EncodeSource, <<"Data">>))
DecodeHashRequest == Struct(Fields(Number, <<"Algorithm">>) \o Fields(DecodeSource, <<"Data">>))

EncodeSignHashRequest == Struct(
  Fields(Text, <<"Alias">>) \o Fields(Bytes, <<"Digest">>) \o Fields(Number, <<"DigestAlgorithm">>)
  \o Fields(Bool, <<"Timestamp", "IncludeCertificate">>)
  \o Fields(Number, <<"OutputFormat", "CertificateTimeCheck">>))
DecodeSignHashRequest == Struct(
  Fields(Text, <<"Alias">>) \o Fields(Bytes, <<"Digest">>) \o Fields(Number, <<"DigestAlgorithm">>)
  \o Fields(Bool, <<"Timestamp", "IncludeCertificate">>)
  \o Fields(Number, <<"OutputFormat", "CertificateTimeCheck">>))

\* Mutant: two flags are read in the wrong order.
DecodeSignCMSSwapped == Struct(
  Fields(Text, <<"Alias">>) \o Fields(DecodeSource, <<"Data">>)
  \o Fields(Bool, <<"Timestamp", "Detached", "IncludeCertificate">>)
  \o Fields(Number, <<"OutputFormat", "CertificateTimeCheck">>))

EncodeSignCMSRequest == Struct(
  Fields(Text, <<"Alias">>) \o Fields(EncodeSource, <<"Data">>)
  \o Fields(Bool, <<"Detached", "Timestamp", "IncludeCertificate">>)
  \o Fields(Number, <<"OutputFormat", "CertificateTimeCheck">>))
DecodeSignCMSRequest == Struct(
  Fields(Text, <<"Alias">>) \o Fields(DecodeSource, <<"Data">>)
  \o Fields(Bool, <<"Detached", "Timestamp", "IncludeCertificate">>)
  \o Fields(Number, <<"OutputFormat", "CertificateTimeCheck">>))

EncodeVerifyCMSRequest == Struct(
  Fields(Text, <<"Alias">>) \o Fields(EncodeSource, <<"Signature", "Data">>)
  \o Fields(Bool, <<"Detached">>) \o Fields(Number, <<"Encoding", "SignerID", "CertificateTimeCheck">>))
DecodeVerifyCMSRequest == Struct(
  Fields(Text, <<"Alias">>) \o Fields(DecodeSource, <<"Signature", "Data">>)
  \o Fields(Bool, <<"Detached">>) \o Fields(Number, <<"Encoding", "SignerID", "CertificateTimeCheck">>))

EncodeSignXMLRequest == Struct(
  Fields(Text, <<"Alias">>) \o Fields(EncodeSource, <<"XML">>)
  \o Fields(Text, <<"SignNodeID", "ParentSignNode", "ParentNamespace">>)
  \o Fields(Number, <<"Canonicalization", "CertificateTimeCheck">>))
DecodeSignXMLRequest == Struct(
  Fields(Text, <<"Alias">>) \o Fields(DecodeSource, <<"XML">>)
  \o Fields(Text, <<"SignNodeID", "ParentSignNode", "ParentNamespace">>)
  \o Fields(Number, <<"Canonicalization", "CertificateTimeCheck">>))

EncodeVerifyXMLRequest == Struct(
  Fields(Text, <<"Alias">>) \o Fields(EncodeSource, <<"XML">>) \o Fields(Text, <<"ExpectedBodyID">>)
  \o Fields(Number, <<"Canonicalization", "CertificateTimeCheck">>))
DecodeVerifyXMLRequest == Struct(
  Fields(Text, <<"Alias">>) \o Fields(DecodeSource, <<"XML">>) \o Fields(Text, <<"ExpectedBodyID">>)
  \o Fields(Number, <<"Canonicalization", "CertificateTimeCheck">>))

EncodeSignWSSERequest == Struct(
  Fields(Text, <<"Alias">>) \o Fields(EncodeSource, <<"XML">>) \o Fields(Text, <<"BodyID">>)
  \o Fields(Bool, <<"WrapSOAP">>) \o Fields(Number, <<"Canonicalization", "CertificateTimeCheck">>))
DecodeSignWSSERequest == Struct(
  Fields(Text, <<"Alias">>) \o Fields(DecodeSource, <<"XML">>) \o Fields(Text, <<"BodyID">>)
  \o Fields(Bool, <<"WrapSOAP">>) \o Fields(Number, <<"Canonicalization", "CertificateTimeCheck">>))

EncodeValidateCertificateRequest == Struct(
  Fields(EncodeSource, <<"Certificate", "Issuer">>) \o Fields(Number, <<"Mode">>)
  \o Fields(Text, <<"RevocationSource">>) \o Fields(EncodeTimestamp, <<"CheckTime">>)
  \o Fields(Bool, <<"ReturnOCSPResponse">>) \o Fields(Number, <<"CertificateTimeCheck">>))
DecodeValidateCertificateRequest == Struct(
  Fields(DecodeSource, <<"Certificate", "Issuer">>) \o Fields(Number, <<"Mode">>)
  \o Fields(Text, <<"RevocationSource">>) \o Fields(DecodeTimestamp, <<"CheckTime">>)
  \o Fields(Bool, <<"ReturnOCSPResponse">>) \o Fields(Number, <<"CertificateTimeCheck">>))

EncodeKeyStore == Struct(Fields(Number, <<"Type">>) \o Fields(Text, <<"Path", "Password", "Alias">>))
DecodeKeyStore == Struct(Fields(Number, <<"Type">>) \o Fields(Text, <<"Path", "Password", "Alias">>))

EncodeTrustedCertificate == Struct(
  Fields(Bytes, <<"Data">>) \o Fields(Text, <<"Path">>) \o Fields(Number, <<"Type", "Format">>))
DecodeTrustedCertificate == Struct(
  Fields(Bytes, <<"Data">>) \o Fields(Text, <<"Path">>) \o Fields(Number, <<"Type", "Format">>))

EncodeProxy == Struct(Fields(Bool, <<"Enabled">>) \o Fields(Text, <<"Address", "Port", "User", "Password">>))
DecodeProxy == Struct(Fields(Bool, <<"Enabled">>) \o Fields(Text, <<"Address", "Port", "User", "Password">>))

EncodeSignZIPRequest == Struct(
  Fields(Text, <<"Alias", "InputPath", "OutputPath">>) \o Fields(Number, <<"CertificateTimeCheck">>))
DecodeSignZIPRequest == Struct(
  Fields(Text, <<"Alias", "InputPath", "OutputPath">>) \o Fields(Number, <<"CertificateTimeCheck">>))

EncodeVerifyZIPRequest == Struct(Fields(Text, <<"Path">>) \o Fields(Number, <<"CertificateTimeCheck">>))
DecodeVerifyZIPRequest == Struct(Fields(Text, <<"Path">>) \o Fields(Number, <<"CertificateTimeCheck">>))

EncodeExtractZIPSignerCertificateRequest ==
  Struct(Fields(Text, <<"Path">>) \o Fields(Number, <<"SignerID", "CertificateTimeCheck">>))
DecodeExtractZIPSignerCertificateRequest ==
  Struct(Fields(Text, <<"Path">>) \o Fields(Number, <<"SignerID", "CertificateTimeCheck">>))

EncodeCertificateInfoFields ==
  Struct(Fields(EncodeCertificate, <<"Certificate">>) \o Fields(Number, <<"Fields">>))
DecodeCertificateInfoFields ==
  Struct(Fields(DecodeCertificate, <<"Certificate">>) \o Fields(Number, <<"Fields">>))

EncodeEmpty == Struct(<<>>)
DecodeEmpty == Struct(<<>>)

\* encodeRequest: the schema of the request of every operation.
EncodeRequest ==
  [Hash |-> EncodeHashRequest, SignHash |-> EncodeSignHashRequest,
   SignCMS |-> EncodeSignCMSRequest, VerifyCMS |-> EncodeVerifyCMSRequest,
   SignXML |-> EncodeSignXMLRequest, VerifyXML |-> EncodeVerifyXMLRequest,
   SignWSSE |-> EncodeSignWSSERequest, ValidateCertificate |-> EncodeValidateCertificateRequest,
   LoadKeyStore |-> EncodeKeyStore, LoadTrustedCertificate |-> EncodeTrustedCertificate,
   SetProxy |-> EncodeProxy, SignZIP |-> EncodeSignZIPRequest, VerifyZIP |-> EncodeVerifyZIPRequest,
   ExtractZIPSignerCertificate |-> EncodeExtractZIPSignerCertificateRequest,
   GetCertFromCMS |-> EncodeSource, GetCertFromXML |-> EncodeSource,
   GetTimeFromSig |-> EncodeSource, GetSigAlgFromXML |-> EncodeSource,
   X509CertificateGetInfo |-> EncodeCertificate,
   X509CertificateGetInfoFields |-> EncodeCertificateInfoFields,
   X509ExportCertificateFromStore |-> EncodeEmpty]

Operations == DOMAIN EncodeRequest

\* dispatch: the schema with which the worker reads the request.
Dispatch ==
  [Hash |-> DecodeHashRequest, SignHash |-> DecodeSignHashRequest,
   SignCMS |-> DecodeSignCMSRequest, VerifyCMS |-> DecodeVerifyCMSRequest,
   SignXML |-> DecodeSignXMLRequest, VerifyXML |-> DecodeVerifyXMLRequest,
   SignWSSE |-> DecodeSignWSSERequest, ValidateCertificate |-> DecodeValidateCertificateRequest,
   LoadKeyStore |-> DecodeKeyStore, LoadTrustedCertificate |-> DecodeTrustedCertificate,
   SetProxy |-> DecodeProxy, SignZIP |-> DecodeSignZIPRequest, VerifyZIP |-> DecodeVerifyZIPRequest,
   ExtractZIPSignerCertificate |-> DecodeExtractZIPSignerCertificateRequest,
   GetCertFromCMS |-> DecodeSource, GetCertFromXML |-> DecodeSource,
   GetTimeFromSig |-> DecodeSource, GetSigAlgFromXML |-> DecodeSource,
   X509CertificateGetInfo |-> DecodeCertificate,
   X509CertificateGetInfoFields |-> DecodeCertificateInfoFields,
   X509ExportCertificateFromStore |-> DecodeEmpty]

-----------------------------------------------------------------------------
\* Results.  Every pointer to a structure is optional (encodeOptional).

EncodeDigest == Opt(Struct(Fields(Number, <<"Algorithm">>) \o Fields(Bytes, <<"Data">>)))
DecodeDigest == Opt(Struct(Fields(Number, <<"Algorithm">>) \o Fields(Bytes, <<"Data">>)))

EncodeCMS == Opt(Struct(Fields(Bytes, <<"Data">>)))
DecodeCMS == Opt(Struct(Fields(Bytes, <<"Data">>)))

EncodeSignedXML == Opt(Struct(Fields(Bytes, <<"XML">>)))
DecodeSignedXML == Opt(Struct(Fields(Bytes, <<"XML">>)))

EncodeVerification == Opt(Struct(Fields(Text, <<"Info">>) \o Fields(Bytes, <<"Data", "SignerCert">>)))
DecodeVerification == Opt(Struct(Fields(Text, <<"Info">>) \o Fields(Bytes, <<"Data", "SignerCert">>)))

EncodeValidation == Opt(Struct(Fields(Text, <<"Info">>) \o Fields(Bytes, <<"OCSPResponse">>)))
DecodeValidation == Opt(Struct(Fields(Text, <<"Info">>) \o Fields(Bytes, <<"OCSPResponse">>)))

EncodeSignedZIP == Opt(Struct(Fields(Text, <<"Path">>)))
DecodeSignedZIP == Opt(Struct(Fields(Text, <<"Path">>)))

EncodeCertificateInfo == Opt(Struct(
  Fields(Text, <<"Subject", "SerialNumber">>) \o Fields(EncodeTimestamp, <<"ValidFrom", "ValidUntil">>)
  \o Fields(Text, <<"Issuer", "Policy", "KeyUsage", "ExtKeyUsage", "AuthKeyID", "SubjKeyID",
       "AlgorithmSignCert", "PublicKey", "OCSPURL", "CRLURL", "DeltaCRLURL", "SubjectCountry",
       "SubjectSerialNumber", "SubjectOrganization", "SubjectOrganizationalUnit">>)
  \o Fields(EncodeStrings, <<"Policies", "KeyUsages", "ExtKeyUsages">>)
  \o Fields(Text, <<"IIN", "BIN", "SubjectType">>) \o Fields(EncodeStrings, <<"Roles">>)))
DecodeCertificateInfo == Opt(Struct(
  Fields(Text, <<"Subject", "SerialNumber">>) \o Fields(DecodeTimestamp, <<"ValidFrom", "ValidUntil">>)
  \o Fields(Text, <<"Issuer", "Policy", "KeyUsage", "ExtKeyUsage", "AuthKeyID", "SubjKeyID",
       "AlgorithmSignCert", "PublicKey", "OCSPURL", "CRLURL", "DeltaCRLURL", "SubjectCountry",
       "SubjectSerialNumber", "SubjectOrganization", "SubjectOrganizationalUnit">>)
  \o Fields(DecodeStrings, <<"Policies", "KeyUsages", "ExtKeyUsages">>)
  \o Fields(Text, <<"IIN", "BIN", "SubjectType">>) \o Fields(DecodeStrings, <<"Roles">>)))

EncodeCertificates == List(Bytes, 0)
DecodeCertificates == List(Bytes, 4)

\* encodeResult: by the type that the method of sdkClient returns.
EncodeResult ==
  [Hash |-> EncodeDigest, SignHash |-> EncodeCMS, SignCMS |-> EncodeCMS,
   VerifyCMS |-> EncodeVerification, SignXML |-> EncodeSignedXML, VerifyXML |-> EncodeVerification,
   SignWSSE |-> EncodeSignedXML, ValidateCertificate |-> EncodeValidation,
   LoadKeyStore |-> EncodeEmpty, LoadTrustedCertificate |-> EncodeEmpty, SetProxy |-> EncodeEmpty,
   SignZIP |-> EncodeSignedZIP, VerifyZIP |-> EncodeVerification,
   ExtractZIPSignerCertificate |-> Bytes, GetCertFromCMS |-> EncodeCertificates,
   GetCertFromXML |-> EncodeCertificates, GetTimeFromSig |-> EncodeTimestamp,
   GetSigAlgFromXML |-> Text, X509CertificateGetInfo |-> EncodeCertificateInfo,
   X509CertificateGetInfoFields |-> EncodeCertificateInfo, X509ExportCertificateFromStore |-> Bytes]

\* decodeResult: by the operation.
DecodeResult ==
  [Hash |-> DecodeDigest, SignHash |-> DecodeCMS, SignCMS |-> DecodeCMS,
   SignXML |-> DecodeSignedXML, SignWSSE |-> DecodeSignedXML,
   VerifyCMS |-> DecodeVerification, VerifyXML |-> DecodeVerification,
   VerifyZIP |-> DecodeVerification, ValidateCertificate |-> DecodeValidation,
   SignZIP |-> DecodeSignedZIP, X509CertificateGetInfo |-> DecodeCertificateInfo,
   X509CertificateGetInfoFields |-> DecodeCertificateInfo, GetSigAlgFromXML |-> Text,
   GetTimeFromSig |-> DecodeTimestamp, ExtractZIPSignerCertificate |-> Bytes,
   X509ExportCertificateFromStore |-> Bytes, GetCertFromCMS |-> DecodeCertificates,
   GetCertFromXML |-> DecodeCertificates, LoadKeyStore |-> DecodeEmpty,
   LoadTrustedCertificate |-> DecodeEmpty, SetProxy |-> DecodeEmpty]

-----------------------------------------------------------------------------
\* The configuration of the worker and what responses carry besides a result.

EncodeEndpointPolicy == Struct(
  Fields(EncodeStrings, <<"AllowedHosts", "AllowedPorts">>) \o Fields(Bool, <<"RequireHTTPS", "AllowIPAddresses">>))
DecodeEndpointPolicy == Struct(
  Fields(DecodeStrings, <<"AllowedHosts", "AllowedPorts">>) \o Fields(Bool, <<"RequireHTTPS", "AllowIPAddresses">>))

EncodeConfig == Struct(
  Fields(Bool, <<"CollectObservations">>) \o Fields(Text, <<"LibraryPath">>)
  \o Fields(Opt(Text), <<"TSAURL", "OCSPURL">>) \o Fields(Bool, <<"CustomOCSP">>)
  \o Fields(Number, <<"OCSPTimeout">>) \o Fields(Opt(EncodeProxy), <<"Proxy">>)
  \o Fields(List(EncodeTrustedCertificate, 0), <<"TrustedCertificates">>)
  \o Fields(Count, <<"MaxInputSize">>) \o Fields(Number, <<"MaxOutputBufferSize">>)
  \o Fields(Bool, <<"AtomicZIPOutput">>) \o Fields(Opt(EncodeEndpointPolicy), <<"EndpointPolicy">>))
DecodeConfig == Struct(
  Fields(Bool, <<"CollectObservations">>) \o Fields(Text, <<"LibraryPath">>)
  \o Fields(Opt(Text), <<"TSAURL", "OCSPURL">>) \o Fields(Bool, <<"CustomOCSP">>)
  \o Fields(Number, <<"OCSPTimeout">>) \o Fields(Opt(DecodeProxy), <<"Proxy">>)
  \o Fields(List(DecodeTrustedCertificate, 24), <<"TrustedCertificates">>)
  \o Fields(Count, <<"MaxInputSize">>) \o Fields(Number, <<"MaxOutputBufferSize">>)
  \o Fields(Bool, <<"AtomicZIPOutput">>) \o Fields(Opt(DecodeEndpointPolicy), <<"EndpointPolicy">>))

Observation ==
  Fields(Raw, <<"Operation">>) \o Fields(Number, <<"QueueWait", "NativeDuration", "TotalDuration">>)
  \o Fields(Raw, <<"ErrorClass">>) \o Fields(Number, <<"NativeCode">>) \o Fields(Bool, <<"Expected">>)

EncodeObservations == List(Struct(Observation), 0)

DecodeObservations == List(Struct(Observation), 41)

\* The fields of the concrete errors that keep their type: *KalkanError,
\* *OutputBufferLimitError and *OCSPRevokedError, tags 1 to 3.
EncodeConcrete == <<
  Struct(Fields(Number, <<"Code">>) \o Fields(Text, <<"Message">>)),
  Struct(Fields(Text, <<"Operation">>) \o Fields(Number, <<"Requested", "Limit">>)),
  Struct(Fields(Text, <<"Endpoint">>) \o Fields(EncodeTimestamp, <<"RevokedAt">>))>>
DecodeConcrete == <<
  Struct(Fields(Number, <<"Code">>) \o Fields(Text, <<"Message">>)),
  Struct(Fields(Text, <<"Operation">>) \o Fields(Number, <<"Requested", "Limit">>)),
  Struct(Fields(Text, <<"Endpoint">>) \o Fields(DecodeTimestamp, <<"RevokedAt">>))>>
=============================================================================
