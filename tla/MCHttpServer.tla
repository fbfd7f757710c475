---------------------------- MODULE MCHttpServer ----------------------------
(* A small instance of HttpServer, for TLC. *)
EXTENDS HttpServer

Get(version, path) ==
    <<[kind |-> "request", version |-> version, method |-> "GET", path |-> path], CR, LF>>
Post == <<[kind |-> "request", version |-> "1.0", method |-> "POST", path |-> "file"], CR, LF>>
Header(key, value) == <<[kind |-> "header", key |-> key, value |-> value], CR, LF>>
Host == Header("host", 0)
Length(n) == Header("content-length", n)
Blank == <<CR, LF>>
Byte == <<[kind |-> "bytes"]>>

\* Requests without and with a body, with two lengths, and with a body that
\* looks like a line; requests that are refused; errors in each part; an empty
\* body; two requests; and what the validator and the rewriter do not expect.
MCStreams ==
    { Get("1.0", "file") \o Blank,
      Get("1.0", "directory") \o Blank,
      Get("1.1", "file") \o Host \o Length(2) \o Blank \o Byte \o Byte,
      Get("1.0", "file") \o Length(2) \o Length(1) \o Blank \o Blank,
      Get("1.1", "file") \o Blank,
      Get("1.0", "up") \o Blank,
      Post \o Blank,
      Byte \o Blank \o Host,
      Get("1.0", "file") \o Host \o Byte \o Blank \o Blank,
      Get("1.0", "file") \o Length(NotANumber) \o Blank \o Byte,
      Get("1.0", "file") \o Length(0) \o Blank,
      Get("1.0", "file") \o Blank \o Get("1.0", "file") \o Blank,
      Get("2.0", "file") \o Blank,
      Get("1.0", "empty") \o Blank }

Tree(gz, plain, index) ==
    [f \in Files |-> IF f = "gz" THEN gz ELSE IF f = "plain" THEN plain ELSE index]

MCFileSystems ==
    { Tree("small", "absent", "large"), Tree("absent", "small", "absent"),
      Tree("absent", "absent", "failing"), Tree("forbidden", "empty", "directory") }
=============================================================================
